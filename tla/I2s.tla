----------------------------------- MODULE I2s -----------------------------------
(***************************************************************************)
(* hw8: i2s fills a Go value from what json.Unmarshal made of a text.  A   *)
(* struct is the sequence of its fields in order, a JSON object a function *)
(* from field names, a number is counted in halves.                        *)
(***************************************************************************)
EXTENDS Integers, Sequences, SequencesExt

CONSTANTS MaxSlice   \* bound: elements of a slice

(* The types of the tests, a field fewer, and one with a slice of ints.    *)
Scalar(kind) == [kind |-> kind, fields |-> <<>>]
Struct(fields) == [kind |-> "struct", fields |-> fields]
Slice(elem) == [kind |-> "slice", fields |-> <<elem>>]
F(name, type) == [name |-> name, type |-> type]
Simple == Struct(<<F("ID", Scalar("int")), F("Active", Scalar("bool"))>>)
Complex == Struct(<<F("SubSimple", Simple), F("ManySimple", Slice(Simple))>>)
Ints == Struct(<<F("ID", Scalar("int")), F("Many", Slice(Scalar("int")))>>)

Json(json, holds) == [json |-> json, holds |-> holds]
Null == Json("null", 0)
Numbers == {Json("number", halves) : halves \in {84, 85, -3}}
Bools == {Json("bool", b) : b \in {0, 1}}
Str == Json("string", 0)
Object(o) == Json("object", o)
Array(seq) == Json("array", seq)

SimpleData == {Str, Array(<<>>)} \cup
  {Object([n \in {"ID", "Active"} |-> IF n = "ID" THEN id ELSE active]) :
     id \in Numbers \cup {Str, Null}, active \in Bools \cup {Str, Null}}
Arrays(elems) == {Array(seq) : seq \in UNION {[1..k -> elems] : k \in 0..MaxSlice}}
ComplexData == {Object([n \in {"SubSimple", "ManySimple"} |-> IF n = "SubSimple" THEN sub ELSE many]) :
                  sub \in SimpleData, many \in {Null} \cup Arrays(SimpleData)}
IntsData == {Object([n \in {"ID", "Many"} |-> IF n = "ID" THEN Json("number", 84) ELSE many]) :
               many \in Arrays(Numbers)}
Inputs == ({Simple} \X SimpleData) \cup ({Complex} \X ComplexData) \cup ({Ints} \X IntsData)

(* What stands in a variable before: zeroes, or what was there. *)
RECURSIVE ZeroOf(_)
ZeroOf(type) ==
  CASE type.kind = "struct" -> [k \in DOMAIN type.fields |-> ZeroOf(type.fields[k].type)]
    [] type.kind = "slice" -> <<>>
    [] OTHER -> 0

VARIABLES outType, input, isPtr,   \* the arguments
          returned                   \* [out, err], or "none" yet
i2sVars == <<outType, input, isPtr, returned>>
NotYet == [out |-> <<"none">>, err |-> FALSE]

I2sInit ==
  /\ \E in \in Inputs : outType = in[1] /\ input = in[2]
  /\ isPtr \in BOOLEAN /\ returned = NotYet

Truncated(halves) == IF halves >= 0 THEN halves \div 2 ELSE -((-halves) \div 2)
ToInt(halves) == Truncated(halves)

(* A field of a struct: an int, a string and a bool are set here.          *)
Wants(kind) == CASE kind = "int" -> "number" [] kind = "bool" -> "bool" [] OTHER -> "string"
SetScalar(kind, data, old) ==
  IF data.json # Wants(kind) THEN [out |-> old, err |-> TRUE]
  ELSE [out |-> IF kind = "int" THEN ToInt(data.holds) ELSE data.holds, err |-> FALSE]

NeverStops(acc) == FALSE
Stops(acc) == acc.err

(* What is pointed to, a struct, a slice or an element of one, which must  *)
(* not be a scalar; the first error ends it, and nothing is undone.        *)
RECURSIVE i2s(_, _, _)
i2s(type, data, old) ==
  LET Step(acc, k, elemType, elem, oldElem) ==
        LET r == IF type.kind = "struct" /\ elemType.kind \notin {"struct", "slice"}
                 THEN SetScalar(elemType.kind, elem, oldElem)
                 ELSE i2s(elemType, elem, oldElem)
        IN IF Stops(acc) THEN acc ELSE [out |-> [acc.out EXCEPT ![k] = r.out], err |-> r.err]
      Indices(n) == [k \in 1..n |-> k]
  IN CASE type.kind = "struct" /\ data.json = "object" ->
            FoldLeft(LAMBDA acc, k : Step(acc, k, type.fields[k].type, data.holds[type.fields[k].name], old[k]),
                     [out |-> old, err |-> FALSE], Indices(Len(type.fields)))
       [] type.kind = "slice" /\ data.json = "array" ->
            FoldLeft(LAMBDA acc, k : Step(acc, k, type.fields[1], data.holds[k], ZeroOf(type.fields[1])),
                     [out |-> [k \in 1..Len(data.holds) |-> ZeroOf(type.fields[1])], err |-> FALSE],
                     Indices(Len(data.holds)))
       [] OTHER -> [out |-> old, err |-> TRUE]

Call ==
  /\ returned = NotYet
  /\ returned' = IF isPtr THEN i2s(outType, input, ZeroOf(outType)) ELSE [out |-> ZeroOf(outType), err |-> TRUE]
  /\ UNCHANGED <<outType, input, isPtr>>

I2sNext == Call
I2sSpec == I2sInit /\ [][I2sNext]_i2sVars

(***************************************************************************)
(* json.Marshal, the other way.                                            *)
(***************************************************************************)
RECURSIVE Marshal(_, _)
Marshal(type, value) ==
  CASE type.kind = "struct" ->
         Object([n \in {type.fields[k].name : k \in DOMAIN type.fields} |->
                   LET k == CHOOSE j \in DOMAIN type.fields : type.fields[j].name = n
                   IN Marshal(type.fields[k].type, value[k])])
    [] type.kind = "slice" -> Array([k \in DOMAIN value |-> Marshal(type.fields[1], value[k])])
    [] type.kind = "int" -> Json("number", 2 * value)
    [] OTHER -> Json("bool", value)

(* When i2s returns no error, out is a value whose JSON is the input, but  *)
(* for halves, which are cut off towards zero; and it was a pointer.       *)
RECURSIVE Whole(_)
Whole(data) ==
  CASE data.json = "number" -> Json("number", 2 * Truncated(data.holds))
    [] data.json = "object" -> Object([n \in DOMAIN data.holds |-> Whole(data.holds[n])])
    [] data.json = "array" -> Array([k \in DOMAIN data.holds |-> Whole(data.holds[k])])
    [] OTHER -> data
RoundTrip ==
  returned # NotYet /\ ~returned.err => isPtr /\ Marshal(outType, returned.out) = Whole(input)

(* After an error, what stands before the field that failed is already     *)
(* written, and what comes after it is not: out is neither old nor new.    *)
PartlyWritten ==
  returned # NotYet /\ returned.err /\ isPtr /\ outType = Complex =>
    LET sub == input.holds["SubSimple"]  many == input.holds["ManySimple"] IN
    \/ /\ returned.out[2] = <<>>
       /\ sub.json = "object" /\ sub.holds["ID"].json = "number" => returned.out[1][1] = Truncated(sub.holds["ID"].holds)
    \/ /\ Marshal(Simple, returned.out[1]) = Whole(sub)
       /\ many.json = "array" /\ Len(returned.out[2]) = Len(many.holds)

(* i2s decodes what was encoded, or stops in the middle with an error.     *)
DecodesOrStops == RoundTrip /\ PartlyWritten
=============================================================================

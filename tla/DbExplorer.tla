----------------------------- MODULE DbExplorer -----------------------------
(***************************************************************************)
(* The explorer of hw6: a web service over the tables of a MySQL database, *)
(* here one table, whose columns it reads once, when it starts.            *)
(*                                                                         *)
(* A handler checks its request, sends one statement and answers; the      *)
(* handlers of several callers run concurrently, and the database carries  *)
(* the statements out one at a time.  Columns are positions: 1 is the      *)
(* primary key, Unknown a field name that is no column.  A value is its    *)
(* JSON type.  `wrote' is history: the row a caller's statement changed.   *)
(***************************************************************************)
EXTENDS Naturals, Sequences, FiniteSets

CONSTANTS DbCaller,     \* clients, each of which makes one request
          ColumnType,   \* the table's column types: "varchar", "int", "float", "date"
          NotNull,      \* its NOT NULL columns, the primary key among them
          Fields,       \* the request bodies: functions from field to value
          MaxId,        \* bound: ids the database gives out
          MaxDbFaults   \* bound: statements that fail for the database's reasons

Columns == DOMAIN ColumnType
Unknown == 0
JsonValue == {"text", "", "float64", "bool", "object", "null"}

ASSUME DbAssumption ==
  /\ ColumnType \in Seq({"varchar", "int", "float", "date"})
  /\ 1 \in NotNull /\ NotNull \subseteq Columns
  /\ \A b \in Fields : DOMAIN b \subseteq Columns \cup {Unknown} /\ b \in [DOMAIN b -> JsonValue]
  /\ MaxId \in Nat \ {0} /\ MaxDbFaults \in Nat

VARIABLES explorer,  \* [state, known]: how many columns it has read of the table
          rows,      \* id -> row
          lastId,    \* the table's AUTO_INCREMENT counter
          dbCall,    \* caller -> its request and what was answered
          wrote,     \* caller -> id of the row its statement changed, or 0
          dbFaults

dbVars == <<explorer, rows, lastId, dbCall, wrote, dbFaults>>

Empty == [k \in {} |-> "null"]

(* ValidMap: the JSON type a column takes; other columns take any. *)
ValidMap == [k \in {c \in Columns : ColumnType[c] # "date"} |->
               IF ColumnType[k] = "varchar" THEN "text" ELSE "float64"]
JsonType(v) == IF v = "" THEN "text" ELSE v

Known == 1 .. explorer.known
TextUnchecked(data) ==
  \E k \in DOMAIN data \cap Known \cap DOMAIN ValidMap :
     data[k] = "float64" /\ ValidMap[k] # "float64"
InvalidType(data) ==
  \E k \in DOMAIN data \cap Known \cap DOMAIN ValidMap :
     JsonType(data[k]) \in {"text", "float64"} \ {ValidMap[k]}

DbInit ==
  /\ explorer = [state |-> "starting", known |-> 0]
  /\ rows = [i \in {1} |-> [k \in Columns \ {1} |->
                 IF k \in DOMAIN ValidMap THEN ValidMap[k]
                 ELSE IF k \in NotNull THEN "text" ELSE "null"]]
  /\ lastId = 1
  /\ dbCall = [c \in DbCaller |->
                 [phase |-> "idle", op |-> "none", id |-> 0, data |-> Empty,
                  unread |-> FALSE, answer |-> <<>>]]
  /\ wrote = [c \in DbCaller |-> 0]
  /\ dbFaults = 0

DbFails == dbFaults < MaxDbFaults /\ dbFaults' = dbFaults + 1

(* What is left when reading the tables fails, an error that is dropped,   *)
(* and when reading the columns fails: main panics, or the result set      *)
(* breaks off, which looks like its end.                                   *)
getTablesFails == [state : {"noTable"}, known : {0}]
getColumnsFails == [state : {"dead"}, known : {0}]
                     \cup [state : {"serving"}, known : 0 .. Len(ColumnType) - 1]

NewDbExplorer ==
  /\ explorer.state = "starting"
  /\ \/ /\ explorer' = [state |-> "serving", known |-> Len(ColumnType)]
        /\ UNCHANGED dbFaults
     \/ /\ DbFails
        /\ explorer' \in getTablesFails \cup getColumnsFails
  /\ UNCHANGED <<rows, lastId, dbCall, wrote>>

(* What a handler answers: an HTTP status, and the id or the count of rows *)
(* that the body of a change's answer names.                               *)
HttpStatus(code) == [code |-> code, value |-> 0]
Told(v) == [code |-> 200, value |-> v]

(***************************************************************************)
(* Handlers, up to their statement.                                        *)
(***************************************************************************)
Accept(c, table) ==
  /\ explorer.state \in {"serving"} \cup (IF table THEN {} ELSE {"noTable"})
  /\ dbCall[c].phase = "idle"
  /\ UNCHANGED <<explorer, rows, lastId, wrote, dbFaults>>

Answered(op, answer) ==
  [phase |-> "end", op |-> op, id |-> 0, data |-> Empty, unread |-> FALSE, answer |-> answer]
Statement(op, id, data, unread) ==
  [phase |-> "sql", op |-> op, id |-> id, data |-> data, unread |-> unread,
   answer |-> IF unread THEN <<HttpStatus(400)>> ELSE <<>>]
RefusedCall(stm) == [stm EXCEPT !.phase = "end", !.answer = Append(@, HttpStatus(400))]
Ends(c, answer) == dbCall' = [dbCall EXCEPT ![c].phase = "end", ![c].answer = @ \o answer]
Panics(c) == dbCall' = [dbCall EXCEPT ![c].phase = "panic"]

(* "/" and the paths under no table. *)
Root(c) ==
  /\ Accept(c, FALSE)
  /\ \E a \in {200, 404, 405} : dbCall' = [dbCall EXCEPT ![c] = Answered("root", <<HttpStatus(a)>>)]

HandleRows(c) ==
  /\ Accept(c, TRUE)
  /\ dbCall' \in {[dbCall EXCEPT ![c] = x] :
                    x \in {Statement("list", 0, Empty, FALSE), Answered("list", <<HttpStatus(405)>>)}}

(* keyName is "" when no column is known. *)
KeyName == 1 \in Known

HandleGet(c) ==
  /\ Accept(c, TRUE)
  /\ \E i \in 0 .. MaxId : dbCall' = [dbCall EXCEPT ![c] = Statement("get", i, Empty, FALSE)]

(* What Unmarshal leaves in the map: the body's fields, nothing when the   *)
(* body is no JSON object or was not read to its end, or a nil map for the *)
(* body "null".  A body that could not be read is answered 400, and the    *)
(* handler goes on.                                                        *)
Bodies == [fields : Fields \cup {Empty}, unread : BOOLEAN, null : {FALSE}]
            \cup [fields : {Empty}, unread : {FALSE}, null : {TRUE}]

Defaulted(data) ==
  {k \in Known \cap NotNull : k # 1 /\ k \notin DOMAIN data}
WithDefaults(data) ==
  [k \in DOMAIN data \cup Defaulted(data) |-> IF k \in DOMAIN data THEN data[k] ELSE ""]

HandlePut(c) ==
  /\ Accept(c, TRUE)
  /\ \E b \in Bodies :
       LET stm == Statement("put", 0, WithDefaults(b.fields), b.unread)
       IN  dbCall' = [dbCall EXCEPT ![c] =
             IF b.null /\ Defaulted(b.fields) # {} THEN [stm EXCEPT !.phase = "panic"]
             ELSE IF InvalidType(stm.data)
             THEN RefusedCall(stm)
             ELSE stm]

(* The fields are looked at in any order, up to the first that is refused  *)
(* or whose null makes ColumnsMap[k].Null dereference a nil column.        *)
Refused(data) ==
  \/ InvalidType(data)
  \/ \E k \in DOMAIN data \cap Known \cap NotNull : data[k] = "null"
NilColumn(data) == \E k \in DOMAIN data \ Known : data[k] = "null"

HandlePost(c) ==
  /\ Accept(c, TRUE)
  /\ \E i \in 0 .. MaxId, b \in Bodies :
       LET stm == Statement("post", i, b.fields, b.unread)
           refused == RefusedCall(stm)
       IN  \/ KeyName /\ 1 \in DOMAIN b.fields /\ dbCall' = [dbCall EXCEPT ![c] = refused]
           \/ /\ ~(KeyName /\ 1 \in DOMAIN b.fields)
              /\ \/ Refused(b.fields) /\ dbCall' = [dbCall EXCEPT ![c] = refused]
                 \/ NilColumn(b.fields) /\ dbCall' = [dbCall EXCEPT ![c] = [stm EXCEPT !.phase = "panic"]]
                 \/ /\ ~Refused(b.fields) /\ ~NilColumn(b.fields)
                    /\ dbCall' = [dbCall EXCEPT ![c] = stm]

HandleDelete(c) ==
  /\ Accept(c, TRUE)
  /\ \E i \in 0 .. MaxId : dbCall' = [dbCall EXCEPT ![c] = Statement("delete", i, Empty, FALSE)]

(***************************************************************************)
(* The statement and the answer to it.  A statement the database accepts   *)
(* may still come back as an error, before or after it took effect.        *)
(***************************************************************************)
Sql(c, op) == dbCall[c].phase = "sql" /\ dbCall[c].op = op /\ UNCHANGED explorer

ErrorDropped(c) == Ends(c, <<Told(0)>>)
AfterError(c) == IF dbCall[c].op = "delete" THEN Panics(c) ELSE Ends(c, <<HttpStatus(500)>>)

SqlFails(c) ==
  /\ dbCall[c].phase = "sql" /\ DbFails
  /\ AfterError(c)
  /\ UNCHANGED <<explorer, rows, lastId, wrote>>

(* The statement succeeds, or its result is lost. *)
Result(c, answer) ==
  \/ Ends(c, answer) /\ UNCHANGED dbFaults
  \/ AfterError(c) /\ DbFails

Rejected(c) == AfterError(c) /\ UNCHANGED <<rows, lastId, wrote, dbFaults>>

SqlSelect(c) ==
  /\ Sql(c, "list") /\ UNCHANGED <<rows, lastId, wrote, dbFaults>>
  /\ Ends(c, <<HttpStatus(200)>>) \/ Ends(c, <<HttpStatus(500)>>)    \* a negative limit is refused

SqlSelectRow(c) ==
  /\ Sql(c, "get") /\ UNCHANGED <<rows, lastId, wrote, dbFaults>>
  /\ Ends(c, <<HttpStatus(IF ~KeyName THEN 500
                      ELSE IF dbCall[c].id \notin DOMAIN rows THEN 404
                      ELSE IF explorer.known # Len(ColumnType) THEN 500 ELSE 200)>>)

Inserted(data) ==
  [k \in Columns \ {1} |-> IF k \in Known \cap DOMAIN data THEN data[k] ELSE "null"]
Storable(row) ==
  \A k \in DOMAIN row : row[k] # "object" /\ (k \in NotNull => row[k] # "null")

SqlInsert(c) ==
  LET row == Inserted(dbCall[c].data)
      id == lastId + 1
  IN  /\ Sql(c, "put") /\ id <= MaxId
      /\ \/ Rejected(c) /\ ~Storable(row)
         \/ /\ Storable(row)
            /\ lastId' = id /\ wrote' = [wrote EXCEPT ![c] = id]
            /\ rows' = [i \in DOMAIN rows \cup {id} |-> IF i = id THEN row ELSE rows[i]]
            /\ Result(c, <<Told(id)>>)

SqlUpdate(c) ==
  LET data == dbCall[c].data
      id == dbCall[c].id
      found == id \in DOMAIN rows
      row == [k \in Columns \ {1} |-> IF k \in DOMAIN data THEN data[k] ELSE rows[id][k]]
      changes == found /\ row # rows[id]
      accepted == /\ KeyName /\ DOMAIN data # {} /\ DOMAIN data \subseteq Columns \ {1}
                  /\ \A k \in DOMAIN data : data[k] # "object"
                  /\ found => Storable(row)
  IN  /\ Sql(c, "post")
      /\ \/ Rejected(c) /\ ~accepted
         \/ /\ accepted
            /\ rows' = IF changes THEN [rows EXCEPT ![id] = row] ELSE rows
            /\ wrote' = IF changes THEN [wrote EXCEPT ![c] = id] ELSE wrote
            /\ UNCHANGED lastId
            /\ Result(c, <<Told(IF changes THEN 1 ELSE 0)>>)

SqlDelete(c) ==
  LET id == dbCall[c].id
      gone == DOMAIN rows \cap {id}
  IN  /\ Sql(c, "delete")
      /\ \/ Rejected(c) /\ ~KeyName
         \/ /\ KeyName
            /\ rows' = [i \in DOMAIN rows \ gone |-> rows[i]]
            /\ wrote' = IF gone # {} THEN [wrote EXCEPT ![c] = id] ELSE wrote
            /\ UNCHANGED lastId
            /\ Result(c, <<Told(Cardinality(gone))>>)

Handle(c) == \/ Root(c) \/ HandleRows(c) \/ HandleGet(c) \/ HandlePut(c)
             \/ HandlePost(c) \/ HandleDelete(c)
Execute(c) == \/ SqlFails(c) \/ SqlSelect(c) \/ SqlSelectRow(c)
              \/ SqlInsert(c) \/ SqlUpdate(c) \/ SqlDelete(c)

DbNext == NewDbExplorer \/ \E c \in DbCaller : Handle(c) \/ Execute(c)
DbSpec == DbInit /\ [][DbNext]_dbVars

(***************************************************************************)
(* What the explorer promises.                                             *)
(***************************************************************************)
Answer == [code : {200, 400, 404, 405, 500}, value : 0 .. MaxId]
Failed == {400, 404, 405, 500}

(* Types: of the table, each row with a value for every column but the key, *)
(* and of the requests.                                                    *)
DbTypeOK ==
  /\ explorer.state \in {"starting", "serving", "noTable", "dead"}
  /\ explorer.known \in 0 .. Len(ColumnType)
  /\ DOMAIN rows \subseteq 1 .. lastId /\ lastId <= MaxId
  /\ \A i \in DOMAIN rows : rows[i] \in [Columns \ {1} -> JsonValue]
  /\ \A c \in DbCaller : /\ dbCall[c].phase \in {"idle", "sql", "end", "panic"}
                         /\ dbCall[c].answer \in Seq(Answer)
                         /\ wrote[c] \in 0 .. MaxId

(* No interleaving of inserts and updates stores a string in a number's    *)
(* column or a number in a string's, in the columns the explorer knows,    *)
(* nor a null in a NOT NULL column: the checks of PUT and POST, with the   *)
(* defaults of PUT, are complete.                                          *)
RowsWellTyped ==
  \A i \in DOMAIN rows, k \in Columns \ {1} :
    /\ k \in NotNull => rows[i][k] # "null"
    /\ k \in Known \cap DOMAIN ValidMap =>
         JsonType(rows[i][k]) \in {ValidMap[k], "bool", "null"}

(* A request answered with an error has not changed the table, but for two *)
(* cases: PUT and POST go on after a body they could not read, which       *)
(* db_explorer.go answers 400 (:217, :283), and the database may do what   *)
(* it then cannot report.                                                  *)
RefusedMeansUntouched ==
  \A c \in DbCaller :
    dbCall[c].phase = "end" /\ Head(dbCall[c].answer).code \in Failed /\ wrote[c] # 0
      => dbCall[c].unread \/ dbFaults > 0

(* What a caller is told of its change is true: the id of a PUT is a row   *)
(* of its own, there until a DELETE of that id; "updated" and "deleted"    *)
(* count the row its statement changed, whatever others did meanwhile.     *)
ChangesReported ==
  \A c \in DbCaller :
    LET r == dbCall[c]
        told == r.answer[Len(r.answer)]
    IN  r.phase = "end" /\ told.code \notin Failed /\ r.op \in {"put", "post", "delete"} =>
          /\ told.value # 0 <=> wrote[c] # 0
          /\ r.op = "put" =>
               /\ told.value = wrote[c]
               /\ \A d \in DbCaller : d # c /\ dbCall[d].op = "put" => wrote[d] # told.value
               /\ told.value \in DOMAIN rows
                    \/ \E d \in DbCaller : dbCall[d].op = "delete" /\ wrote[d] = told.value

(* With a database that fails nobody, a request ends in 500 only for what  *)
(* its caller sent: a compound value, a null that the table refuses, an    *)
(* update of no field or of an unknown one; a GET of a row or a DELETE     *)
(* never does.                                                             *)
HealthyFailures ==
  \A c \in DbCaller :
    LET r == dbCall[c]
        sent == {r.data[k] : k \in DOMAIN r.data}
    IN  dbFaults = 0 /\ r.phase = "end" /\ r.answer[Len(r.answer)].code = 500
        => \/ r.op = "list"
           \/ r.op = "put" /\ sent \cap {"object", "null"} # {}
           \/ r.op = "post" /\ ("object" \in sent \/ DOMAIN r.data = {} \/ Unknown \in DOMAIN r.data)

(* A request ends with one answer, or with two after a body that was not   *)
(* read.  It panics, and has none more, for three reasons: a null for a    *)
(* column that is not known, a PUT of the body "null", a DELETE whose      *)
(* statement failed; and only that DELETE may have changed the table.      *)
AnsweredOrKnownPanic ==
  \A c \in DbCaller :
    LET r == dbCall[c]
        failedDelete == r.op = "delete" /\ dbFaults > 0
    IN  /\ r.phase = "end" => Len(r.answer) = (IF r.unread THEN 2 ELSE 1)
        /\ r.phase = "panic" =>
             /\ wrote[c] # 0 => failedDelete
             /\ \/ failedDelete
                \/ r.op = "post" /\ NilColumn(r.data)
                \/ r.op = "put" /\ r.data = WithDefaults(Empty)

(* The table is kept: of its types, with rows that the checks let through. *)
TableKept == DbTypeOK /\ RowsWellTyped

(* Answers tell the truth: an error means no change, a success the change  *)
(* that was made, and a failure has a cause.                               *)
AnswersAreTrue ==
  RefusedMeansUntouched /\ ChangesReported /\ HealthyFailures /\ AnsweredOrKnownPanic

(* hw6.md:26 has an error answered with 500 and hw6.md:28 unknown fields   *)
(* ignored: no request panics instead of being answered, each that ends    *)
(* has one answer, and, with a database that fails nobody, one that is     *)
(* right without its unknown fields is carried out.                        *)
AnswersAsDocumented ==
  \A c \in DbCaller :
    LET r == dbCall[c]
        known == [k \in DOMAIN r.data \ {Unknown} |-> r.data[k]]
        right == known # Empty /\ ~Refused(known) /\ \A k \in DOMAIN known : known[k] # "object"
    IN  /\ r.phase # "panic"
        /\ r.phase = "end" => Len(r.answer) = 1
        /\ r.phase = "end" /\ r.op = "post" /\ dbFaults = 0 /\ right /\ 1 \notin DOMAIN known
             => r.answer[1].code = 200
=============================================================================

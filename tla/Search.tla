--------------------------------- MODULE Search ---------------------------------
(***************************************************************************)
(* hw3: FastSearch, line by line, beside SlowSearch, which it replaces.  A *)
(* browser is what the searches ask of it, one string of each kind; JSON   *)
(* is what its two decoders make of it.  The encoder is not called.        *)
(***************************************************************************)
EXTENDS Naturals, Sequences, FiniteSets

CONSTANTS MaxLines, MaxBrowsers   \* bounds: lines of users.txt, browsers of a user

ASSUME SearchAssumption == MaxLines \in Nat /\ MaxBrowsers \in Nat

UserAgent == {"Android", "MSIE", "Android MSIE", "Opera", "a number"}
Names(browser, word) == browser \in {word, "Android MSIE"}
UpTo(S, n) == UNION {[1..k -> S] : k \in 0..n}

(* A line: its browsers, what else the user lacks, and whether the line is *)
(* longer than a bufio.Scanner takes.                                      *)
UserLine == [browsers : UpTo(UserAgent, MaxBrowsers), odd : {"nothing", "email", "name", "long"}]
Odd(line) ==
  line.odd # "nothing" \/ \E k \in DOMAIN line.browsers : line.browsers[k] = "a number"

VARIABLES file,      \* users.txt: its lines, and whether a newline ends it
          i,         \* lines that FastSearch has read
          seenBrowsers, found,
          fast       \* "reads", "done" or "panic"

searchVars == <<file, i, seenBrowsers, found, fast>>

SearchInit ==
  /\ file \in [lines : UpTo(UserLine, MaxLines), newline : BOOLEAN]
  /\ i = 0 /\ seenBrowsers = {} /\ found = <<>> /\ fast = "reads"

Browsers(line) == {line.browsers[k] : k \in DOMAIN line.browsers}
Shown(n, line) == [line |-> n, email |-> line.odd # "email", name |-> line.odd # "name"]

(***************************************************************************)
(* FastSearch.                                                             *)
(***************************************************************************)
(* easyjson's decoder wants strings; what is absent stays empty.           *)
Decodes(line) == "a number" \notin Browsers(line)

AndroidsOf(line) == {b \in Browsers(line) : Names(b, "Android")}
FirstMSIE(line) == {b \in Browsers(line) : b = "MSIE" /\ AndroidsOf(line) = {}}
MSIEsOf(line) == {b \in Browsers(line) : ~Names(b, "Android") /\ Names(b, "MSIE")}

Scan ==
  LET line == file.lines[i + 1] IN
  /\ fast = "reads" /\ i < Len(file.lines)
  /\ i' = i + 1
  /\ IF line.odd = "long" \/ ~Decodes(line)
     THEN fast' = "panic" /\ UNCHANGED <<seenBrowsers, found>>
     ELSE /\ seenBrowsers' = seenBrowsers \cup AndroidsOf(line) \cup MSIEsOf(line)
          /\ found' = IF AndroidsOf(line) # {} /\ MSIEsOf(line) # {} THEN Append(found, Shown(i, line)) ELSE found
          /\ UNCHANGED fast
  /\ UNCHANGED file

(* The Scanner gives no empty line after the last newline. *)
ScanEnds ==
  /\ fast = "reads" /\ i = Len(file.lines)
  /\ fast' = "done"
  /\ UNCHANGED <<file, i, seenBrowsers, found>>

SearchNext == Scan \/ ScanEnds
SearchSpec == SearchInit /\ [][SearchNext]_searchVars

(***************************************************************************)
(* SlowSearch, in one expression: what is not a string is passed over, and *)
(* the empty line after the last newline does not parse.                   *)
(***************************************************************************)
SlowHas(line, word) == \E b \in Browsers(line) : Names(b, word)
SlowFound == [n \in 1..Len(file.lines) |->
                IF SlowHas(file.lines[n], "Android") /\ SlowHas(file.lines[n], "MSIE")
                THEN <<Shown(n - 1, file.lines[n])>> ELSE <<>>]
SlowLists(shown) == \E n \in 1..Len(file.lines) : SlowFound[n] = <<shown>>
SlowCount == Cardinality({b \in UNION {Browsers(file.lines[n]) : n \in 1..Len(file.lines)} :
                            Names(b, "Android") \/ Names(b, "MSIE")})
SlowPanics ==
  \/ file.newline \/ Len(file.lines) = 0
  \/ \E n \in 1..Len(file.lines) : SlowFound[n] # <<>> /\ ~SlowFound[n][1].email

(***************************************************************************)
(* What the test compares on one file.                                     *)
(***************************************************************************)
(* Where every line is a plain user and no browser names both, the fast    *)
(* search prints what the slow one prints.                                 *)
Ordinary ==
  /\ ~file.newline /\ file.lines # <<>>
  /\ \A n \in 1..Len(file.lines) : ~Odd(file.lines[n]) /\ "Android MSIE" \notin Browsers(file.lines[n])
FastIsSlow ==
  fast = "done" /\ Ordinary =>
    /\ ~SlowPanics /\ Cardinality(seenBrowsers) = SlowCount
    /\ Len(found) = Cardinality({n \in 1..Len(file.lines) : SlowFound[n] # <<>>})
    /\ \A k \in 1..Len(found) : SlowLists(found[k]) /\ (k > 1 => found[k - 1].line < found[k].line)

(* On any file that both get through, the fast search counts the same      *)
(* browsers and finds no user that the slow one does not; a user it misses *)
(* has a browser that names both.                                          *)
FastFindsNoMore ==
  fast = "done" /\ ~SlowPanics =>
    /\ Cardinality(seenBrowsers) = SlowCount
    /\ \A k \in 1..Len(found) : SlowLists(found[k])
    /\ \A n \in 1..Len(file.lines) :
         SlowFound[n] # <<>> /\ (\A k \in 1..Len(found) : found[k].line # n - 1) =>
           "Android MSIE" \in Browsers(file.lines[n])

(* FastSearch may stand for SlowSearch: the same output on ordinary files, *)
(* and on others a difference only where a browser names both.             *)
SearchesAgree == FastIsSlow /\ FastFindsNoMore
=============================================================================

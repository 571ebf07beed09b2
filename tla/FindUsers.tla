------------------------------- MODULE FindUsers -------------------------------
(***************************************************************************)
(* hw4: SearchClient.FindUsers, called once a page by somebody who adds    *)
(* Limit to Offset as long as there is a NextPage.  The search server and  *)
(* that caller are not in the repository; the server is taken to answer    *)
(* with the users from offset on, limit of them at most, or to fail.       *)
(***************************************************************************)
EXTENDS Program, Integers, SequencesExt

CONSTANTS MaxLimit,     \* 25
          Limits, Offsets,   \* what is asked for at first
          MaxUsers, MaxChanges   \* bounds: the server's users, and changes to them

ASSUME FindUsersAssumption ==
  /\ MaxLimit \in Nat \ {0} /\ Limits \subseteq Int /\ Offsets \subseteq Int
  /\ MaxUsers \in Nat /\ MaxChanges \in Nat

VARIABLES dataset,   \* the server's users, in the order it answers in
          req,       \* the caller's SearchRequest
          sent,      \* FindUsers' limit, after Limit++, and offset
          data, status,   \* the answer on its way
          findPc,    \* "asks", "waits", "unpacks", "turns", "over" or "failed"
          result,    \* the SearchResponse
          gathered,  \* history: the users of all the pages
          start, changes   \* the first Offset; changes so far

findVars == <<dataset, req, sent, data, status, findPc, result, gathered, start, changes>>

FindInit ==
  /\ dataset \in {[k \in 1..n |-> k] : n \in 0..MaxUsers}
  /\ req \in [Limit : Limits, Offset : Offsets]
  /\ sent = [limit |-> 0, offset |-> 0] /\ data = <<>> /\ status = 0 /\ findPc = "asks"
  /\ result = [Users |-> <<>>, NextPage |-> FALSE] /\ gathered = <<>>
  /\ start = req.Offset /\ changes = 0

Capped(limit) == IF limit > MaxLimit THEN MaxLimit ELSE limit

Ask ==
  /\ findPc = "asks"
  /\ IF req.Limit < 0 \/ req.Offset < 0
     THEN findPc' = "failed" /\ UNCHANGED sent
     ELSE findPc' = "waits" /\ sent' = [limit |-> Capped(req.Limit) + 1, offset |-> req.Offset]
  /\ UNCHANGED <<dataset, req, data, status, result, gathered, start, changes>>

From(offset) == SubSeq(dataset, 1 + IF offset < Len(dataset) THEN offset ELSE Len(dataset), Len(dataset))
AtMost(seq, limit) == SubSeq(seq, 1, IF limit < Len(seq) THEN limit ELSE Len(seq))
SearchServer ==
  /\ findPc = "waits" /\ findPc' = "unpacks"
  /\ data' = AtMost(From(sent.offset), sent.limit) /\ status' = 200
  /\ UNCHANGED <<dataset, req, sent, result, gathered, start, changes>>

(* The server says so, does not answer within a second or not at all, or   *)
(* what it sends is cut short: ReadAll's error is not looked at.           *)
ServerFails ==
  /\ findPc = "waits"
  /\ \/ \E code \in {400, 401, 500} : status' = code /\ findPc' = "unpacks"
     \/ UNCHANGED status /\ findPc' = "failed"
  /\ UNCHANGED <<dataset, req, sent, data, result, gathered, start, changes>>

OneTooMany(answer) == [Users |-> answer, NextPage |-> Len(answer) = sent.limit]
Response(answer) ==
  IF Len(answer) = sent.limit THEN [Users |-> Front(answer), NextPage |-> TRUE]
  ELSE [Users |-> answer, NextPage |-> FALSE]

OnError == "failed"
Unpack ==
  /\ findPc = "unpacks"
  /\ IF status = 200
     THEN /\ result' = Response(data) /\ findPc' = "turns"
          /\ gathered' = gathered \o Response(data).Users
     ELSE findPc' = OnError /\ UNCHANGED <<result, gathered>>
  /\ data' = <<>> /\ status' = 0
  /\ UNCHANGED <<dataset, req, sent, start, changes>>

(* The caller. With a Limit of zero it would turn for ever. *)
Turn ==
  /\ findPc = "turns"
  /\ IF result.NextPage
     THEN findPc' = "asks" /\ req' = [req EXCEPT !.Offset = @ + req.Limit]
     ELSE findPc' = "over" /\ UNCHANGED req
  /\ UNCHANGED <<dataset, sent, data, status, result, gathered, start, changes>>

OthersChange ==
  /\ changes < MaxChanges /\ changes' = changes + 1
  /\ \/ dataset # <<>> /\ dataset' = Tail(dataset)
     \/ Len(dataset) < MaxUsers /\ dataset' = <<MaxUsers + changes'>> \o dataset
  /\ UNCHANGED <<req, sent, data, status, findPc, result, gathered, start>>

FindNext == Ask \/ SearchServer \/ ServerFails \/ Unpack \/ Turn \/ OthersChange
FindSpec == FindInit /\ [][FindNext]_findVars
FindFair == WF_findVars(Runs("findusers") /\ (Ask \/ SearchServer \/ Unpack \/ Turn))

(***************************************************************************)
(* What the pages are together.                                            *)
(***************************************************************************)
(* Of users that stay as they are, all are shown once and in order, if     *)
(* Limit is at most 25; of a larger one each page shows the first 25.      *)
(* They are numbered in their order.                                       *)
PagesShow ==
  findPc = "over" /\ changes = 0 /\ req.Limit > 0 =>
    /\ ToSet(gathered) = {k \in ToSet(dataset) : start < k /\ (k - 1 - start) % req.Limit < MaxLimit}
    /\ \A j, k \in 1..Len(gathered) : j < k => gathered[j] < gathered[k]

(* When others come and go between two pages, each that does costs at most *)
(* one user who was there all along, or shows one twice.                   *)
EachChangeCostsOne ==
  findPc = "over" /\ req.Limit \in 1..MaxLimit =>
    /\ Cardinality({u \in ToSet(dataset) : start < u /\ u <= MaxUsers} \ ToSet(gathered)) <= changes
    /\ Len(gathered) - Cardinality(ToSet(gathered)) <= changes

(* The last page comes, or an error, unless Limit is zero.                 *)
PagingEnds == Runs("findusers") /\ req.Limit # 0 ~> findPc \in {"over", "failed"}

(* The pages make up the list that the server has.                         *)
PagesMakeTheList == PagesShow /\ EachChangeCostsOne
=============================================================================

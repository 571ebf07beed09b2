----------------------------- MODULE Pages_proof -----------------------------
(***************************************************************************)
(* Proofs about the web services of the lectures: the table of items behind *)
(* three databases, the middleware, and the session managers.              *)
(***************************************************************************)
EXTENDS Crud, Site, Sessions, FiniteSetTheorems, TLAPS

(***************************************************************************)
(* The items.                                                              *)
(***************************************************************************)
Item == [by : Visitor \cup {"seed", "nobody"}, updated : BOOLEAN]
VisitRec ==
  [pc : {"home", "add", "edit", "update", "delete", "save", "first"},
   op : {"none", "add", "edit", "update", "delete"},
   id : UrlId \cup {NotAnId}, post : 0..MaxItem, affected : 0..MaxItem, failed : BOOLEAN,
   answer : {"none", "redirect", "form", "empty_form", "json", "dropped", "bad_id"}]

(* What is true of a request wherever it is: only gorm saves and looks     *)
(* again, and only for an item that was there; and why it was dropped.     *)
VisitOK(r) ==
  /\ r.pc \in {"save", "first"} => backend = "gorm"
  /\ r.pc = "update" => r.post = 0
  /\ r.pc = "first" => r.post # 0
  /\ r.pc = "edit" => r.op = "edit"
  /\ r.answer = "dropped" => \/ r.failed
                             \/ r.id = NotAnId /\ backend # "mongodb"
                             \/ r.op = "edit" /\ backend = "mysql"

(* What an Update has found and is not there was taken in the meantime.    *)
FoundOK(r) == r.pc \in {"save", "first"} /\ r.post # 0 /\ ~Has(r.post) => r.post \in overtaken

CrudIInv ==
  /\ items \in [ItemId -> Item] /\ visit \in [Visitor -> VisitRec]
  /\ born \in [ItemId -> Nat] /\ killed \in [ItemId -> Nat] /\ lastItem \in 0..MaxItem
  /\ crudFaults \in Nat
  /\ \A i \in ItemId : Has(i) => i <= lastItem
  /\ buried \subseteq ItemId /\ \A i \in buried : i <= lastItem
  /\ \A v \in Visitor : VisitOK(visit[v]) /\ FoundOK(visit[v])
  /\ AnswersAddUp /\ BuriedStaysBuried

(* What a request may come to, and nobody else's with it. *)
Answered(v, r) ==
  r \in VisitRec /\ VisitOK(r) /\ FoundOK(r) /\ visit' = [visit EXCEPT ![v] = r]

(* A query of the step failed, or none did. *)
Counted == crudFaults' \in {crudFaults, crudFaults + 1}

LEMMA AtHomeIs ==
  /\ AtHome \in VisitRec /\ AtHome.pc = "home" /\ AtHome.answer = "none" /\ AtHome.id = 0
  /\ AtHome.op = "none" /\ AtHome.post = 0 /\ ~AtHome.failed
BY CrudAssumption DEF AtHome, VisitRec, UrlId

LEMMA RepliedIs ==
  ASSUME CrudIInv, NEW v \in Visitor, NEW n \in 0..MaxItem,
         NEW a \in {"none", "redirect", "form", "empty_form", "json", "dropped", "bad_id"},
         Replied(v, a, n), a = "dropped" => visit[v].op = "edit" /\ backend = "mysql"
  PROVE  \E r \in VisitRec : Answered(v, r) /\ r.pc = "home"
<1>1. PICK q \in VisitRec : q = visit[v]
  BY DEF CrudIInv
<1> DEFINE r == [q EXCEPT !.pc = "home", !.answer = a, !.affected = n]
<1>2. visit' = [visit EXCEPT ![v] = r]
  BY <1>1 DEF Replied, CrudIInv
<1>3. r \in VisitRec /\ r.pc = "home" /\ r.answer = a /\ r.op = q.op
  <2>1. r.pc = "home" /\ r.answer = a /\ r.op = q.op
    BY ONLY q \in VisitRec DEF VisitRec
  <2> DEFINE r1 == [q EXCEPT !.pc = "home"]
             r2 == [r1 EXCEPT !.answer = a]
  <2>2. r1 \in VisitRec
    BY ONLY q \in VisitRec DEF VisitRec
  <2> HIDE DEF r1
  <2>3. r2 \in VisitRec
    BY ONLY <2>2, a \in {"none", "redirect", "form", "empty_form", "json", "dropped", "bad_id"} DEF VisitRec
  <2> HIDE DEF r2
  <2>4. [r2 EXCEPT !.affected = n] \in VisitRec
    BY ONLY <2>3, n \in 0..MaxItem DEF VisitRec
  <2> QED
    BY <2>1, <2>4 DEF r1, r2
<1>4. VisitOK(r) /\ FoundOK(r)
  BY <1>1, <1>3 DEF VisitOK, FoundOK
<1> QED
  BY <1>2, <1>3, <1>4 DEF Answered

LEMMA DropsFailedIs ==
  ASSUME CrudIInv, NEW v \in Visitor, DropsFailed(v)
  PROVE  \E r \in VisitRec : Answered(v, r) /\ r.pc = "home"
<1>1. PICK q \in VisitRec : q = visit[v]
  BY DEF CrudIInv
<1> DEFINE r == [q EXCEPT !.pc = "home", !.answer = "dropped", !.failed = TRUE]
           r1 == [q EXCEPT !.pc = "home"]
           r2 == [r1 EXCEPT !.answer = "dropped"]
<1>2. r1 \in VisitRec /\ r1.pc = "home"
  BY ONLY q \in VisitRec DEF VisitRec
<1> HIDE DEF r1
<1>3. r2 \in VisitRec /\ r2.pc = "home"
  BY ONLY <1>2 DEF VisitRec
<1> HIDE DEF r2
<1>4. LET s == [r2 EXCEPT !.failed = TRUE]
      IN s \in VisitRec /\ s.pc = "home" /\ s.failed = TRUE
  BY ONLY <1>3 DEF VisitRec
<1>5. r \in VisitRec /\ r.pc = "home" /\ r.failed
  BY <1>4 DEF r1, r2
<1>6. visit' = [visit EXCEPT ![v] = r]
  BY <1>1 DEF CrudIInv, DropsFailed
<1> HIDE DEF r
<1>7. Answered(v, r)
  BY <1>5, <1>6 DEF Answered, VisitOK, FoundOK
<1> QED
  BY <1>5, <1>7

(* What was carried out is answered, or its answer is lost.                *)
LEMMA ReportsIs ==
  ASSUME CrudIInv, NEW v \in Visitor, NEW n \in 0..MaxItem,
         NEW a \in {"redirect", "json"}, Reports(v, a, n)
  PROVE  Counted /\ \E r \in VisitRec : Answered(v, r) /\ r.pc = "home"
<1>1. CASE Replied(v, a, n) /\ UNCHANGED crudFaults
  BY <1>1, RepliedIs DEF Counted
<1>2. CASE QueryFails /\ DropsFailed(v)
  BY <1>2, DropsFailedIs DEF QueryFails, Counted
<1> QED
  BY <1>1, <1>2 DEF Reports

LEMMA VisitsKept ==
  ASSUME CrudIInv, NEW v \in Visitor, NEW r, Answered(v, r), backend' = backend
  PROVE  visit' \in [Visitor -> VisitRec] /\ \A w \in Visitor : VisitOK(visit[w])'
BY DEF CrudIInv, Answered, VisitOK

(* An item that was found stays, or the step says that it was overtaken.   *)
LEMMA FoundKept ==
  ASSUME CrudIInv, NEW v \in Visitor, NEW r, Answered(v, r), overtaken' = overtaken,
         \A j \in ItemId : Has(j) => Has(j)'
  PROVE  \A w \in Visitor : FoundOK(visit[w])'
<1> SUFFICES ASSUME NEW w \in Visitor PROVE FoundOK(visit[w])'
  OBVIOUS
<1>1. \A j : Has(j) => Has(j)'
  BY DEF Has
<1>2. PICK q : q = visit'[w] /\ FoundOK(q)
  BY DEF CrudIInv, Answered
<1> QED
  BY <1>1, <1>2 DEF FoundOK

(* What a step leaves alone when it only answers or goes on to a query. *)
LEMMA OnlyVisits ==
  ASSUME CrudIInv, NEW v \in Visitor, NEW r, Answered(v, r),
         UNCHANGED <<backend, items, lastItem, born, killed, buried, overtaken>>, Counted
  PROVE  CrudIInv'
<1>1. visit' \in [Visitor -> VisitRec] /\ \A w \in Visitor : VisitOK(visit[w])'
  BY VisitsKept
<1>2. \A j : Has(j)' <=> Has(j)
  BY DEF Has
<1>3. \A w \in Visitor : FoundOK(visit[w])'
  BY <1>2, FoundKept
<1>4. crudFaults' \in Nat /\ AnswersAddUp'
  BY <1>2 DEF CrudIInv, AnswersAddUp, Counted
<1> QED
  BY <1>1, <1>2, <1>3, <1>4 DEF CrudIInv, BuriedStaysBuried

(* A new item has an id no Delete has answered for, or it is one that gorm *)
(* makes again.                                                            *)
LEMMA CreatesKeeps ==
  ASSUME CrudIInv, NEW v \in Visitor, NEW i \in ItemId, ~Has(i), NEW u \in BOOLEAN, Creates(v, i, u),
         UNCHANGED <<backend, killed, buried, overtaken>>,
         i \in buried => backend = "gorm" /\ u /\ i \in overtaken
  PROVE  CrudIInv'
<1>1. /\ items' = [items EXCEPT ![i] = [by |-> v, updated |-> u]]
      /\ born' = [born EXCEPT ![i] = @ + 1] /\ lastItem' = LastInsert(i) /\ Reports(v, "redirect", 1)
  BY DEF Creates
<1>2. PICK r : Answered(v, r) /\ Counted
  <2>1. 1 \in 0..MaxItem
    BY CrudAssumption
  <2> QED
    BY <1>1, <2>1, ReportsIs
<1>3. visit' \in [Visitor -> VisitRec] /\ \A w \in Visitor : VisitOK(visit[w])'
  BY <1>2, VisitsKept
<1>4. /\ items' \in [ItemId -> Item] /\ items'[i] = [by |-> v, updated |-> u]
      /\ \A j \in ItemId \ {i} : items'[j] = items[j]
  BY <1>1 DEF CrudIInv, Item
<1>5. items'[i] # NoItem /\ items'[i].updated = u
  <2>1. v # "nobody"
    BY CrudAssumption
  <2>2. [by |-> v, updated |-> u].by = v /\ NoItem.by = "nobody"
    BY DEF NoItem
  <2> QED
    BY <1>4, <2>1, <2>2
<1>6. Has(i)' /\ \A j \in ItemId \ {i} : Has(j)' <=> Has(j)
  BY <1>4, <1>5 DEF Has
<1>7. born' \in [ItemId -> Nat] /\ born'[i] = born[i] + 1 /\ \A j \in ItemId \ {i} : born'[j] = born[j]
  BY <1>1 DEF CrudIInv
<1>8. lastItem' \in 0..MaxItem /\ lastItem' >= lastItem /\ lastItem' >= i
  BY <1>1, CrudAssumption DEF LastInsert, CrudIInv, ItemId
<1>9. \A j \in ItemId : Has(j)' => j <= lastItem'
  BY <1>6, <1>8, CrudAssumption DEF CrudIInv, ItemId
<1>10. \A j \in buried' : j <= lastItem'
  BY <1>8, CrudAssumption DEF CrudIInv, ItemId
<1>11. crudFaults' \in Nat /\ AnswersAddUp'
  BY <1>2, <1>6, <1>7 DEF CrudIInv, AnswersAddUp, Counted
<1>12. BuriedStaysBuried'
  BY <1>4, <1>5, <1>6 DEF CrudIInv, BuriedStaysBuried
<1>13. \A w \in Visitor : FoundOK(visit[w])'
  BY <1>2, <1>6, FoundKept
<1> QED
  BY <1>3, <1>4, <1>7, <1>8, <1>9, <1>10, <1>11, <1>12, <1>13 DEF CrudIInv

LEMMA UpdateOnlyKeeps ==
  ASSUME CrudIInv, NEW v \in Visitor, NEW i, UpdateOnly(v, i),
         UNCHANGED <<backend, killed, buried, overtaken>>
  PROVE  CrudIInv'
<1>1. PICK r : Answered(v, r) /\ Counted
  <2>1. (IF Has(i) THEN 1 ELSE 0) \in 0..MaxItem
    BY CrudAssumption
  <2> QED
    BY <2>1, ReportsIs DEF UpdateOnly
<1>2. CASE ~Has(i)
  BY <1>1, <1>2, OnlyVisits DEF UpdateOnly
<1>3. CASE Has(i)
  <2>1. i \in ItemId /\ items' = [items EXCEPT ![i] = [by |-> v, updated |-> TRUE]] /\ UNCHANGED <<lastItem, born>>
    BY <1>3 DEF UpdateOnly, Has
  <2>2. visit' \in [Visitor -> VisitRec] /\ \A w \in Visitor : VisitOK(visit[w])'
    BY <1>1, VisitsKept
  <2>3. /\ items' \in [ItemId -> Item] /\ items'[i] = [by |-> v, updated |-> TRUE]
        /\ \A j \in ItemId \ {i} : items'[j] = items[j]
    BY <2>1 DEF CrudIInv, Item
  <2>4. items'[i] # NoItem /\ items'[i].updated
    <3>1. v # "nobody"
      BY CrudAssumption
    <3>2. [by |-> v, updated |-> TRUE].by = v /\ NoItem.by = "nobody"
      BY DEF NoItem
    <3> QED
      BY <2>3, <3>1, <3>2
  <2>5. \A j \in ItemId : Has(j)' <=> Has(j)
    BY <1>3, <2>3, <2>4 DEF Has
  <2>6. crudFaults' \in Nat /\ AnswersAddUp'
    BY <1>1, <2>1, <2>5 DEF CrudIInv, AnswersAddUp, Counted
  <2>7. BuriedStaysBuried'
    BY <2>1, <2>3, <2>4, <2>5, <1>3 DEF CrudIInv, BuriedStaysBuried
  <2>8. \A w \in Visitor : FoundOK(visit[w])'
    BY <1>1, <2>5, FoundKept
  <2> QED
    BY <2>1, <2>2, <2>3, <2>5, <2>6, <2>7, <2>8 DEF CrudIInv
<1> QED
  BY <1>2, <1>3

LEMMA VisitKeeps ==
  ASSUME CrudIInv, NEW v \in Visitor, Visit(v) PROVE CrudIInv'
<1>1. UNCHANGED <<backend, items, lastItem, born, killed, buried, overtaken>> /\ Counted
  BY Zenon DEF Visit, Counted
<1>2. CASE visit' = [visit EXCEPT ![v] = [AtHome EXCEPT !.pc = "add", !.op = "add"]]
  <2> DEFINE r == [AtHome EXCEPT !.pc = "add", !.op = "add"]
  <2>1. r \in VisitRec /\ r.pc = "add" /\ r.answer = "none"
    BY ONLY AtHomeIs DEF VisitRec
  <2> HIDE DEF r
  <2>2. Answered(v, r)
    BY <1>2, <2>1 DEF Answered, VisitOK, FoundOK, r
  <2> QED
    BY <1>1, <2>2, OnlyVisits
<1>3. ASSUME NEW op \in {"edit", "update", "delete"}, NEW i \in UrlId,
             visit' = [visit EXCEPT ![v] = [AtHome EXCEPT !.pc = op, !.op = op, !.id = i]]
      PROVE  CrudIInv'
  <2> DEFINE r == [AtHome EXCEPT !.pc = op, !.op = op, !.id = i]
             r1 == [AtHome EXCEPT !.pc = op, !.op = op]
  <2>1. r1 \in VisitRec /\ r1.pc = op /\ r1.op = op /\ r1.answer = "none" /\ r1.post = 0
    BY ONLY AtHomeIs, op \in {"edit", "update", "delete"} DEF VisitRec
  <2> HIDE DEF r1
  <2>2. [r1 EXCEPT !.id = i] \in VisitRec
    BY ONLY <2>1, i \in UrlId DEF VisitRec
  <2>3. r \in VisitRec /\ r.pc = op /\ r.op = op /\ r.answer = "none" /\ r.post = 0
    BY ONLY <2>1, <2>2 DEF r1, VisitRec
  <2> HIDE DEF r
  <2>4. Answered(v, r)
    BY <1>3, <2>3 DEF Answered, VisitOK, FoundOK, r
  <2> QED
    BY <1>1, <2>4, OnlyVisits
<1>4. ASSUME NEW op \in {"edit", "update", "delete"},
             visit' = [visit EXCEPT ![v] = [AtHome EXCEPT !.op = op, !.id = NotAnId, !.answer = BadId]]
      PROVE  CrudIInv'
  <2> DEFINE r == [AtHome EXCEPT !.op = op, !.id = NotAnId, !.answer = BadId]
             r1 == [AtHome EXCEPT !.op = op]
             r2 == [r1 EXCEPT !.id = NotAnId]
  <2>1. BadId \in {"dropped", "bad_id"} /\ (BadId = "dropped" => backend # "mongodb")
    BY DEF BadId
  <2>2. r1 \in VisitRec /\ r1.pc = "home"
    BY ONLY AtHomeIs, op \in {"edit", "update", "delete"} DEF VisitRec
  <2> HIDE DEF r1
  <2>3. r2 \in VisitRec /\ r2.pc = "home" /\ r2.id = NotAnId
    BY ONLY <2>2 DEF VisitRec
  <2> HIDE DEF r2
  <2>4. LET q == [r2 EXCEPT !.answer = BadId]
        IN q \in VisitRec /\ q.pc = "home" /\ q.id = NotAnId /\ q.answer = BadId
    BY ONLY <2>1, <2>3 DEF VisitRec
  <2>5. r \in VisitRec /\ r.pc = "home" /\ r.id = NotAnId /\ r.answer = BadId
    BY <2>4 DEF r1, r2
  <2> HIDE DEF r
  <2>6. Answered(v, r)
    BY <1>4, <2>1, <2>5 DEF Answered, VisitOK, FoundOK, r
  <2> QED
    BY <1>1, <2>6, OnlyVisits
<1> QED
  BY <1>2, <1>3, <1>4, Zenon DEF Visit

LEMMA AddKeeps ==
  ASSUME CrudIInv, NEW v \in Visitor, Add(v) PROVE CrudIInv'
<1>1. PICK i \in ItemId : Fresh(i) /\ Creates(v, i, FALSE)
  BY DEF Add
<1>2. ~Has(i) /\ i \notin buried
  BY <1>1, CrudAssumption DEF Fresh, NextItem, CrudIInv, ItemId
<1> QED
  BY <1>1, <1>2, CreatesKeeps DEF Add

LEMMA EditKeeps ==
  ASSUME CrudIInv, NEW v \in Visitor, Edit(v) PROVE CrudIInv'
<1>1. visit[v].op = "edit" /\ 0 \in 0..MaxItem
  BY CrudAssumption DEF Edit, CrudIInv, VisitOK
<1>2. PICK r : Answered(v, r)
  <2>1. CASE backend = "mysql"
    BY <1>1, <2>1, RepliedIs DEF Edit, FormOrPanic, Drops
  <2>2. CASE backend # "mysql"
    BY <1>1, <2>2, RepliedIs DEF Edit, FormAnyway
  <2> QED
    BY <2>1, <2>2
<1> QED
  BY <1>2, OnlyVisits DEF Edit, Counted

(* A step to one of gorm's queries, or the end of a query that failed.     *)
LEMMA GoesOn ==
  ASSUME CrudIInv, NEW v \in Visitor, NEW r, NEW pc \in {"home", "save", "first"},
         r \in VisitRec, r.pc = pc, r.id = visit[v].id, r.op = visit[v].op,
         r.answer = visit[v].answer \/ r.answer = "none" \/ r.failed, visit[v].failed => r.failed,
         pc # "home" => backend = "gorm", pc = "first" => r.post # 0, FoundOK(r),
         visit' = [visit EXCEPT ![v] = r]
  PROVE  Answered(v, r)
<1>1. VisitOK(visit[v])
  BY DEF CrudIInv
<1> QED
  BY <1>1 DEF Answered, VisitOK

LEMMA FindKeeps ==
  ASSUME CrudIInv, NEW v \in Visitor, Find(v) PROVE CrudIInv'
<1>1. PICK q \in VisitRec : q = visit[v]
  BY DEF CrudIInv
<1>2. /\ backend = "gorm" /\ UNCHANGED <<backend, items, lastItem, born, killed, buried, overtaken>>
      /\ Counted /\ q.post = 0
  BY <1>1 DEF Find, QueryFails, Counted, CrudIInv, VisitOK
<1>3. ASSUME NEW p \in 0..MaxItem, p = 0 \/ Has(p), visit' = [visit EXCEPT ![v].pc = "save", ![v].post = p]
      PROVE  \E r : Answered(v, r)
  <2> DEFINE r == [q EXCEPT !.pc = "save", !.post = p]
             r1 == [q EXCEPT !.pc = "save"]
  <2>1. r1 \in VisitRec /\ r1.pc = "save" /\ r1.id = q.id /\ r1.op = q.op /\ r1.answer = q.answer /\ r1.failed = q.failed
    BY ONLY q \in VisitRec DEF VisitRec
  <2> HIDE DEF r1
  <2>2. LET s == [r1 EXCEPT !.post = p]
        IN  /\ s \in VisitRec /\ s.pc = "save" /\ s.id = q.id /\ s.op = q.op
            /\ s.answer = q.answer /\ s.failed = q.failed /\ s.post = p
    BY ONLY <2>1, p \in 0..MaxItem DEF VisitRec
  <2>3. /\ r \in VisitRec /\ r.pc = "save" /\ r.id = q.id /\ r.op = q.op
        /\ r.answer = q.answer /\ r.failed = q.failed /\ r.post = p
    BY <2>2 DEF r1
  <2>4. visit' = [visit EXCEPT ![v] = r]
    BY <1>1, <1>3 DEF CrudIInv
  <2> HIDE DEF r
  <2> QED
    BY <1>1, <1>2, <1>3, <2>3, <2>4, GoesOn DEF FoundOK
<1>4. ASSUME visit' = [visit EXCEPT ![v].pc = "save", ![v].failed = TRUE]
      PROVE  \E r : Answered(v, r)
  <2> DEFINE r == [q EXCEPT !.pc = "save", !.failed = TRUE]
  <2>1. /\ r \in VisitRec /\ r.pc = "save" /\ r.id = q.id /\ r.op = q.op
        /\ r.answer = q.answer /\ r.failed /\ r.post = q.post
    BY ONLY q \in VisitRec DEF VisitRec
  <2>2. visit' = [visit EXCEPT ![v] = r]
    BY <1>1, <1>4 DEF CrudIInv
  <2> HIDE DEF r
  <2> QED
    BY <1>1, <1>2, <2>1, <2>2, GoesOn DEF FoundOK
<1> DEFINE p == IF Has(visit[v].id) THEN visit[v].id ELSE 0
<1>5. p \in 0..MaxItem /\ (p = 0 \/ Has(p))
  BY CrudAssumption DEF Has, ItemId
<1> QED
  BY <1>2, <1>3, <1>4, <1>5, OnlyVisits DEF Find

LEMMA SaveKeeps ==
  ASSUME CrudIInv, NEW v \in Visitor, Save(v) PROVE CrudIInv'
<1> DEFINE i == visit[v].post
<1>1. backend = "gorm" /\ UNCHANGED <<backend, killed, buried, overtaken>>
  BY DEF Save, CrudIInv, VisitOK
<1>2. ASSUME NEW j \in ItemId, Fresh(j), Creates(v, j, TRUE) PROVE CrudIInv'
  <2>1. ~Has(j) /\ j \notin buried
    BY <1>2, CrudAssumption DEF Fresh, NextItem, CrudIInv, ItemId
  <2> QED
    BY <1>1, <1>2, <2>1, CreatesKeeps
<1>3. CASE UpdateOnly(v, i)
  BY <1>1, <1>3, UpdateOnlyKeeps
<1>4. CASE /\ i # 0 /\ visit' = [visit EXCEPT ![v].pc = "first"]
           /\ UNCHANGED <<items, lastItem, born, crudFaults>>
  <2>1. PICK q \in VisitRec : q = visit[v]
    BY DEF CrudIInv
  <2> DEFINE r == [q EXCEPT !.pc = "first"]
  <2>2. /\ r \in VisitRec /\ r.pc = "first" /\ r.id = q.id /\ r.op = q.op
        /\ r.answer = q.answer /\ r.failed = q.failed /\ r.post = q.post
    BY ONLY q \in VisitRec DEF VisitRec
  <2>3. visit' = [visit EXCEPT ![v] = r]
    BY <1>4, <2>1 DEF CrudIInv
  <2> HIDE DEF r
  <2>4. VisitOK(q) /\ FoundOK(q) /\ q.pc = "save" /\ q.post # 0
    BY <1>4, <2>1 DEF CrudIInv, Save
  <2>5. VisitOK(r) /\ FoundOK(r)
    BY <1>1, <2>2, <2>4 DEF VisitOK, FoundOK
  <2>6. Answered(v, r)
    BY <2>2, <2>3, <2>5 DEF Answered
  <2> QED
    BY <1>1, <1>4, <2>6, OnlyVisits DEF Counted
<1> QED
  BY <1>2, <1>3, <1>4 DEF Save

LEMMA FirstOrCreateKeeps ==
  ASSUME CrudIInv, NEW v \in Visitor, FirstOrCreate(v) PROVE CrudIInv'
<1> DEFINE i == visit[v].post
<1>1. /\ backend = "gorm" /\ UNCHANGED <<backend, killed, buried, overtaken>> /\ i \in ItemId
      /\ Has(i) \/ i \in overtaken
  <2>1. VisitOK(visit[v]) /\ FoundOK(visit[v]) /\ visit[v] \in VisitRec /\ visit[v].pc = "first"
    BY DEF FirstOrCreate, CrudIInv
  <2>2. i # 0 /\ i \in 0..MaxItem
    BY <2>1 DEF VisitOK, VisitRec
  <2> QED
    BY <2>1, <2>2, CrudAssumption DEF VisitOK, FoundOK, FirstOrCreate, ItemId
<1>2. CASE Replied(v, "redirect", 0) /\ UNCHANGED <<items, lastItem, born, crudFaults>>
  <2>1. 0 \in 0..MaxItem
    BY CrudAssumption
  <2>2. PICK r : Answered(v, r)
    BY <1>2, <2>1, RepliedIs
  <2> QED
    BY <1>1, <1>2, <2>2, OnlyVisits DEF Counted
<1>3. CASE ~Has(i) /\ Creates(v, i, TRUE)
  BY <1>1, <1>3, CreatesKeeps
<1> QED
  BY <1>2, <1>3 DEF FirstOrCreate

(* A Delete takes items that are there, and none but its own id's when it  *)
(* says so.                                                                *)
LEMMA TakenIs ==
  ASSUME CrudIInv, NEW i
  PROVE  /\ \A j \in Taken(i) : j \in ItemId /\ Has(j)
         /\ Affected(Taken(i)) \in 0..MaxItem
         /\ \A j \in ItemId : j = i /\ Affected(Taken(i)) > 0 => j \in Taken(i)
<1>1. \A j \in Taken(i) : j \in ItemId /\ Has(j)
  BY DEF Taken, Has
<1>2. IsFiniteSet(ItemId) /\ Cardinality(ItemId) = MaxItem
  <2>1. 1 \in Int /\ MaxItem \in Int /\ MaxItem - 1 + 1 = MaxItem /\ ~(1 > MaxItem)
    BY CrudAssumption
  <2> QED
    BY <2>1, FS_Interval DEF ItemId
<1>3. Affected(Taken(i)) \in 0..MaxItem
  <2>1. Taken(i) \subseteq ItemId
    BY <1>1
  <2>2. IsFiniteSet(Taken(i)) /\ Cardinality(Taken(i)) <= MaxItem
    BY <1>2, <2>1, FS_Subset
  <2> QED
    BY <2>2, FS_CardinalityType, CrudAssumption DEF Affected
<1>4. ASSUME NEW j \in ItemId, j = i, Affected(Taken(i)) > 0 PROVE j \in Taken(i)
  <2>1. Taken(i) # {}
    BY <1>4, FS_EmptySet DEF Affected
  <2>2. i # 0
    BY <1>4, CrudAssumption DEF ItemId
  <2> QED
    BY <1>4, <2>1, <2>2 DEF Taken
<1> QED
  BY <1>1, <1>3, <1>4

LEMMA DeleteKeeps ==
  ASSUME CrudIInv, NEW v \in Visitor, Delete(v) PROVE CrudIInv'
<1> DEFINE i == visit[v].id
           taken == Taken(i)
           found == {visit[u].post : u \in {w \in Visitor : visit[w].pc \in {"save", "first"}}}
<1>1. /\ items' = [j \in ItemId |-> IF j \in taken THEN NoItem ELSE items[j]]
      /\ Reports(v, "json", Affected(taken))
      /\ killed' = [j \in ItemId |->
           killed[j] + IF Said(j, i, taken) /\ crudFaults' = crudFaults THEN 1 ELSE 0]
      /\ buried' = buried \cup taken /\ overtaken' = overtaken \cup (taken \cap found)
      /\ UNCHANGED <<backend, lastItem, born>>
  BY DEF Delete
<1>2. /\ \A j \in taken : j \in ItemId /\ Has(j)
      /\ Affected(taken) \in 0..MaxItem
      /\ \A j \in ItemId : Said(j, i, taken) <=> j \in taken
  BY TakenIs DEF Said
<1>3. \A w \in Visitor : visit[w].pc \in {"save", "first"} => visit[w].post \in found
  OBVIOUS
<1> HIDE DEF taken, found
<1>4. PICK r : Answered(v, r) /\ r.pc = "home" /\ Counted
  BY <1>1, <1>2, ReportsIs
<1>5. visit' \in [Visitor -> VisitRec] /\ \A w \in Visitor : VisitOK(visit[w])'
  BY <1>1, <1>4, VisitsKept
<1>6. NoItem \in Item
  BY DEF NoItem, Item
<1>7. /\ items' \in [ItemId -> Item]
      /\ \A j \in ItemId : items'[j] = IF j \in taken THEN NoItem ELSE items[j]
  BY <1>1, <1>6 DEF CrudIInv
<1>8. \A j : Has(j)' <=> Has(j) /\ j \notin taken
  BY <1>7 DEF Has
<1>9. \A j \in ItemId :
        killed'[j] = killed[j] + (IF j \in taken /\ crudFaults' = crudFaults THEN 1 ELSE 0)
  BY <1>1, <1>2
<1>10. killed' \in [ItemId -> Nat]
  <2>1. killed' = [j \in ItemId |-> killed'[j]]
    BY <1>1
  <2>2. \A j \in ItemId : killed'[j] \in Nat
    BY <1>9 DEF CrudIInv
  <2> QED
    BY <2>1, <2>2
<1>11. \A j \in ItemId : /\ Has(j)' => j <= lastItem'
                         /\ j \in buried' => j <= lastItem'
  BY <1>1, <1>2, <1>8 DEF CrudIInv
<1>12. crudFaults' \in Nat /\ AnswersAddUp'
  <2> SUFFICES ASSUME NEW j \in ItemId
               PROVE  (born[j] - (IF Has(j)' THEN 1 ELSE 0)) - killed'[j] \in 0..crudFaults'
    BY <1>1, <1>4 DEF CrudIInv, Counted, AnswersAddUp
  <2>1. /\ born[j] \in Nat /\ killed[j] \in Nat /\ crudFaults \in Nat
        /\ (born[j] - (IF Has(j) THEN 1 ELSE 0)) - killed[j] \in 0..crudFaults
    BY DEF CrudIInv, AnswersAddUp
  <2>2. CASE j \notin taken
    BY <1>4, <1>8, <1>9, <2>1, <2>2 DEF Counted
  <2>3. CASE j \in taken
    BY <1>2, <1>4, <1>8, <1>9, <2>1, <2>3 DEF Counted
  <2> QED
    BY <2>2, <2>3
<1>13. BuriedStaysBuried'
  BY <1>1, <1>2, <1>7, <1>8 DEF CrudIInv, BuriedStaysBuried
<1>14. buried' \subseteq ItemId
  BY <1>1, <1>2 DEF CrudIInv
<1>15. \A w \in Visitor : FoundOK(visit[w])'
  <2> SUFFICES ASSUME NEW w \in Visitor PROVE FoundOK(visit[w])'
    OBVIOUS
  <2>1. CASE w = v
    BY <1>4, <2>1 DEF FoundOK, Answered, CrudIInv
  <2>2. CASE w # v
    <3>1. visit'[w] = visit[w] /\ FoundOK(visit[w])
      BY <1>4, <2>2 DEF Answered, CrudIInv
    <3> QED
      BY <1>1, <1>3, <1>8, <3>1 DEF FoundOK
  <2> QED
    BY <2>1, <2>2
<1> QED
  BY <1>1, <1>5, <1>7, <1>10, <1>11, <1>12, <1>13, <1>14, <1>15 DEF CrudIInv

LEMMA StatementFailsKeeps ==
  ASSUME CrudIInv, NEW v \in Visitor, StatementFails(v) PROVE CrudIInv'
<1>1. /\ UNCHANGED <<backend, items, lastItem, born, killed, buried, overtaken>>
      /\ StatementPanics(v) /\ Counted
  BY DEF StatementFails, QueryFails, Counted
<1>2. PICK r : Answered(v, r)
  <2>1. CASE Replied(v, "empty_form", 0)
    <3>1. 0 \in 0..MaxItem
      BY CrudAssumption
    <3> QED
      BY <2>1, <3>1, RepliedIs
  <2>2. CASE DropsFailed(v)
    BY <2>2, DropsFailedIs
  <2> QED
    BY <1>1, <2>1, <2>2 DEF StatementPanics
<1> QED
  BY <1>1, <1>2, OnlyVisits

LEMMA OutOfIdsKeeps ==
  ASSUME CrudIInv, NEW v \in Visitor, OutOfIds(v) PROVE CrudIInv'
<1>1. Answered(v, AtHome)
  BY AtHomeIs DEF Answered, VisitOK, FoundOK, OutOfIds
<1> QED
  BY <1>1, OnlyVisits DEF OutOfIds, Counted

LEMMA InitCrudIInv == CrudInit => CrudIInv
<1> SUFFICES ASSUME CrudInit PROVE CrudIInv
  OBVIOUS
<1> USE DEF CrudInit
<1>1. NoItem \in Item /\ seed \in Item /\ seed # NoItem
  <2>1. seed.by = "seed" /\ NoItem.by = "nobody"
    BY DEF seed, NoItem
  <2> QED
    BY <2>1 DEF seed, NoItem, Item
<1>2. items \in [ItemId -> Item] /\ \A i \in ItemId : Has(i) <=> i <= 2
  BY <1>1 DEF Has
<1>3. visit \in [Visitor -> VisitRec] /\ \A v \in Visitor : VisitOK(visit[v]) /\ FoundOK(visit[v])
  BY AtHomeIs DEF VisitOK, FoundOK
<1>4. lastItem \in 0..MaxItem /\ \A i \in ItemId : Has(i) => i <= lastItem
  BY <1>2, CrudAssumption
<1>5. born \in [ItemId -> Nat] /\ killed \in [ItemId -> Nat] /\ crudFaults \in Nat /\ AnswersAddUp
  BY <1>2 DEF AnswersAddUp
<1> QED
  BY <1>2, <1>3, <1>4, <1>5 DEF CrudIInv, BuriedStaysBuried

LEMMA NextCrudIInv == CrudIInv /\ [CrudNext]_crudVars => CrudIInv'
<1> SUFFICES ASSUME CrudIInv, [CrudNext]_crudVars PROVE CrudIInv'
  OBVIOUS
<1>1. ASSUME NEW v \in Visitor, Visit(v) \/ VisitStep(v) \/ StatementFails(v) PROVE CrudIInv'
  <2>1. CASE UpdateItem(v)
    BY <2>1, UpdateOnlyKeeps DEF UpdateItem
  <2>2. CASE Visit(v) \/ Add(v) \/ Edit(v) \/ Find(v) \/ Save(v)
    BY <2>2, VisitKeeps, AddKeeps, EditKeeps, FindKeeps, SaveKeeps
  <2>3. CASE FirstOrCreate(v) \/ Delete(v) \/ StatementFails(v) \/ OutOfIds(v)
    BY <2>3, FirstOrCreateKeeps, DeleteKeeps, StatementFailsKeeps, OutOfIdsKeeps
  <2> QED
    BY <1>1, <2>1, <2>2, <2>3 DEF VisitStep
<1>2. CASE UNCHANGED crudVars
  BY <1>2 DEF crudVars, CrudIInv, Has, AnswersAddUp, BuriedStaysBuried, VisitOK, FoundOK
<1> QED
  BY <1>1, <1>2 DEF CrudNext

(* crud/main.go, gorm/main.go, mongodb/main.go: however many requests      *)
(* interleave, and whatever queries fail, before they are carried out or   *)
(* after it, the items that were made and are not there are the ones that  *)
(* the Deletes said they removed, but for at most one for each query that  *)
(* failed, and never fewer; an item that a Delete took does not come back, *)
(* but over gorm by an Update that had found it before the Delete and      *)
(* saved it after; and a connection is dropped for a failed query, a bad   *)
(* id or a form for no item only.                                          *)
THEOREM TheItemsAreKept == CrudSpec => []ItemsKept
<1>1. CrudIInv => ItemsKept
  <2> SUFFICES ASSUME CrudIInv PROVE ItemsKept
    OBVIOUS
  <2>1. CrudTypeOK
    BY DEF CrudIInv, CrudTypeOK, Item, VisitRec
  <2>2. DroppedForAReason
    BY DEF CrudIInv, VisitOK, DroppedForAReason
  <2> QED
    BY <2>1, <2>2 DEF CrudIInv, ItemsKept
<1> QED
  BY InitCrudIInv, NextCrudIInv, <1>1, PTL DEF CrudSpec

(***************************************************************************)
(* The middleware.                                                         *)
(***************************************************************************)
Middleware ==
  {"panicMiddleware", "accessLogMiddleware", "adminAuthMiddleware", "timingMiddleware"}
PageName ==
  {"none", "redirect", "hello", "Welcome", "need_login", "admin_main", "done", "500", "dropped"}
PathName == {"root", "login", "logout", "admin", "admin_panic"}
HitRec ==
  [pc : {"out", "down", "work", "up", "panic"}, path : PathName, chain : Seq(Middleware),
   depth : Nat, cookie : BOOLEAN, next : Nat, real : Nat, page : PageName, logged : Nat,
   tracked : Nat, real_time : Nat]
Timing == [WorkName -> [count : Nat, duration : Nat]]
Timed == {"timing", "metrics"}
Done(m, n) == {k \in 1..m - 1 : Works[k] = n}

(* Where accessLogMiddleware stands in the chain. *)
AccessAt == IF site = "middleware" THEN 2 ELSE 1

(* The works up to the one that is next, and nothing else, have been       *)
(* counted and timed; and once, the Sleep.                                 *)
Tally(h, t, w) ==
  /\ Total(t) = w /\ h.real = w + (IF h.next > SleepBefore THEN 1 ELSE 0)
  /\ \A n \in WorkName : t[n].count = Cardinality(Done(h.next, n))

(* A request that has come all the way back. *)
Over(h, t, w) ==
  /\ h.page # "none"
  /\ site \notin Timed =>
       /\ h.page # "dropped" /\ (h.page = "500" <=> h.path = "admin_panic" /\ h.cookie)
       /\ h.logged = IF h.page = "500" THEN 0 ELSE 1
  /\ site \in Timed =>
       /\ h.next = Len(Works) + 1 /\ Tally(h, t, w)
       /\ site = "timing" => h.tracked = w /\ h.real_time = w + 1
       /\ site = "metrics" => h.tracked = w + 1 /\ h.real_time = w

(* A request that is on its way back, and has not panicked. *)
Coming(h, t, w) ==
  /\ h.page # "none"
  /\ site \notin Timed =>
       /\ h.page \notin {"dropped", "500"} /\ ~(h.path = "admin_panic" /\ h.cookie)
       /\ h.logged = IF h.depth < AccessAt THEN 1 ELSE 0
  /\ site \in Timed => h.next = Len(Works) + 1 /\ Tally(h, t, w)

HitOK(h, t, w) ==
  /\ h.pc # "out" => /\ h.path \in Routes(site) /\ h.chain = Chain(site, h.path)
                     /\ h.depth <= Len(h.chain)
  /\ h.pc = "down" => /\ h.page = "none" /\ h.logged = 0 /\ h.next = 1 /\ h.real = 0
                      /\ h.depth = 3 => h.cookie
                      /\ site \in Timed /\ h.depth = 1 => Tally(h, t, w)
  /\ h.pc = "work" => site \in Timed /\ h.depth = 1 /\ h.next \in 1..Len(Works) + 1 /\ Tally(h, t, w)
  /\ h.pc = "up" => IF h.depth = 0 THEN Over(h, t, w) ELSE Coming(h, t, w)
  /\ h.pc = "panic" => /\ site = "middleware" /\ h.path = "admin_panic" /\ h.cookie
                       /\ h.depth # 0 /\ h.logged = 0
  /\ h.pc = "out" => h.page = "none" \/ Over(h, t, w)

SiteIInv ==
  /\ site \in {"middleware", "logging", "timing", "metrics"} /\ jar \in BOOLEAN
  /\ hit \in [Client -> HitRec] /\ timings \in [Client -> Timing] /\ worked \in [Client -> Nat]
  /\ \A c \in Client : HitOK(hit[c], timings[c], worked[c])

(* A step of one request, which leaves the others' alone. *)
LEMMA OneRequest ==
  ASSUME SiteIInv, NEW c \in Client, NEW h \in HitRec, NEW t \in Timing, NEW w \in Nat,
         hit' = [hit EXCEPT ![c] = h], timings' = [timings EXCEPT ![c] = t],
         worked' = [worked EXCEPT ![c] = w], site' = site, jar' \in BOOLEAN, HitOK(h, t, w)
  PROVE  SiteIInv'
BY DEF SiteIInv, HitOK, Over, Coming, AccessAt, Tally

(* A step that leaves the timings alone too. *)
LEMMA OnlyRequest ==
  ASSUME SiteIInv, NEW c \in Client, NEW h \in HitRec, hit' = [hit EXCEPT ![c] = h],
         UNCHANGED <<site, timings, worked>>, jar' \in BOOLEAN, HitOK(h, timings[c], worked[c])
  PROVE  SiteIInv'
<1>1. /\ timings[c] \in Timing /\ worked[c] \in Nat
      /\ timings' = [timings EXCEPT ![c] = timings[c]] /\ worked' = [worked EXCEPT ![c] = worked[c]]
  BY DEF SiteIInv
<1> QED
  BY <1>1, OneRequest

(* The chains. *)
LEMMA ShortChains ==
  ASSUME NEW a \in Middleware, NEW b \in Middleware
  PROVE  /\ <<a>> \in Seq(Middleware) /\ Len(<<a>>) = 1 /\ <<a>>[1] = a
         /\ <<a, b>> \in Seq(Middleware) /\ Len(<<a, b>>) = 2 /\ <<a, b>>[1] = a /\ <<a, b>>[2] = b
OBVIOUS

LEMMA LongChain ==
  ASSUME NEW a \in Middleware, NEW b \in Middleware, NEW d \in Middleware,
         NEW s, s = Append(<<a, b>>, d)
  PROVE  s \in Seq(Middleware) /\ Len(s) = 3 /\ s[1] = a /\ s[2] = b /\ s[3] = d
OBVIOUS

LEMMA ChainIs ==
  ASSUME NEW path \in Routes(site), site \in {"middleware", "logging", "timing", "metrics"}
  PROVE  /\ Chain(site, path) \in Seq(Middleware) /\ path \in PathName
         /\ site = "middleware" =>
              /\ Chain(site, path)[1] = "panicMiddleware" /\ Chain(site, path)[2] = "accessLogMiddleware"
              /\ path \in {"admin", "admin_panic"} =>
                   Len(Chain(site, path)) = 3 /\ Chain(site, path)[3] = "adminAuthMiddleware"
              /\ path \notin {"admin", "admin_panic"} => Len(Chain(site, path)) = 2
         /\ site # "middleware" =>
              /\ Len(Chain(site, path)) = 1 /\ path = "root"
              /\ Chain(site, path)[1] = IF site = "logging" THEN "accessLogMiddleware" ELSE "timingMiddleware"
<1>1. /\ "panicMiddleware" \in Middleware /\ "accessLogMiddleware" \in Middleware
      /\ "adminAuthMiddleware" \in Middleware /\ "timingMiddleware" \in Middleware
  BY DEF Middleware
<1>2. path \in PathName /\ (site # "middleware" => path = "root")
  BY DEF PathName, Routes
<1>3. CASE site = "middleware" /\ path \in {"admin", "admin_panic"}
  <2>1. Chain(site, path) = Append(<<"panicMiddleware", "accessLogMiddleware">>, "adminAuthMiddleware")
    BY <1>3 DEF Chain, MainChain
  <2>2. PICK a \in Middleware, b \in Middleware, d \in Middleware :
          a = "panicMiddleware" /\ b = "accessLogMiddleware" /\ d = "adminAuthMiddleware"
    BY ONLY <1>1, Zenon
  <2>3. PICK s : s = Chain(site, path)
    OBVIOUS
  <2>4. s \in Seq(Middleware) /\ Len(s) = 3 /\ s[1] = a /\ s[2] = b /\ s[3] = d
    BY <2>1, <2>2, <2>3, LongChain
  <2> QED
    BY ONLY <1>2, <1>3, <2>2, <2>3, <2>4, Zenon
<1>4. CASE site = "middleware" /\ path \notin {"admin", "admin_panic"}
  <2>1. Chain(site, path) = <<"panicMiddleware", "accessLogMiddleware">>
    BY <1>4 DEF Chain, MainChain
  <2>2. LET s == <<"panicMiddleware", "accessLogMiddleware">>
        IN  /\ s \in Seq(Middleware) /\ Len(s) = 2 /\ s[1] = "panicMiddleware"
            /\ s[2] = "accessLogMiddleware"
    BY ONLY <1>1, ShortChains, Zenon
  <2> QED
    BY ONLY <1>2, <1>4, <2>1, <2>2, Zenon
<1>5. CASE site = "logging"
  <2>1. Chain(site, path) = <<"accessLogMiddleware">>
    BY <1>5 DEF Chain
  <2>2. LET s == <<"accessLogMiddleware">> IN s \in Seq(Middleware) /\ Len(s) = 1 /\ s[1] = "accessLogMiddleware"
    BY ONLY <1>1, ShortChains, Zenon
  <2>3. site # "middleware" /\ (site = "logging" <=> "accessLogMiddleware" = "accessLogMiddleware")
    BY <1>5
  <2> QED
    BY ONLY <1>2, <1>5, <2>1, <2>2, <2>3, Zenon
<1>6. CASE site \notin {"middleware", "logging"}
  <2>1. Chain(site, path) = <<"timingMiddleware">>
    BY <1>6 DEF Chain
  <2>2. LET s == <<"timingMiddleware">> IN s \in Seq(Middleware) /\ Len(s) = 1 /\ s[1] = "timingMiddleware"
    BY ONLY <1>1, ShortChains, Zenon
  <2>3. site # "middleware" /\ (site = "logging" <=> "timingMiddleware" = "accessLogMiddleware")
    BY <1>6
  <2> QED
    BY ONLY <1>2, <1>6, <2>1, <2>2, <2>3, Zenon
<1> QED
  BY <1>3, <1>4, <1>5, <1>6

LEMMA OutIs ==
  /\ Out \in HitRec /\ Out.pc = "out" /\ Out.path = "root" /\ Out.chain = <<>> /\ Out.depth = 0
  /\ Out.next = 1 /\ Out.real = 0 /\ Out.page = "none" /\ Out.logged = 0
BY DEF Out, HitRec, PageName, PathName

LEMMA NoTimings ==
  LET t == [n \in WorkName |-> NoTiming]
  IN  t \in Timing /\ Total(t) = 0 /\ \A n \in WorkName : t[n].count = Cardinality(Done(1, n))
<1>1. \A n : Cardinality(Done(1, n)) = 0
  BY FS_EmptySet DEF Done
<1> QED
  BY <1>1 DEF Timing, NoTiming, Total, WorkName

(* A request's record after a change of one field. *)
LEMMA Puts ==
  ASSUME NEW h \in HitRec
  PROVE  /\ \A x \in {"out", "down", "work", "up", "panic"} : [h EXCEPT !.pc = x] \in HitRec
         /\ \A x \in PageName : [h EXCEPT !.page = x] \in HitRec
         /\ \A x \in PathName : [h EXCEPT !.path = x] \in HitRec
         /\ \A x \in Seq(Middleware) : [h EXCEPT !.chain = x] \in HitRec
         /\ \A x \in BOOLEAN : [h EXCEPT !.cookie = x] \in HitRec
         /\ \A x \in Nat : /\ [h EXCEPT !.depth = x] \in HitRec /\ [h EXCEPT !.next = x] \in HitRec
                           /\ [h EXCEPT !.real = x] \in HitRec /\ [h EXCEPT !.logged = x] \in HitRec
                           /\ [h EXCEPT !.tracked = x] \in HitRec /\ [h EXCEPT !.real_time = x] \in HitRec
BY DEF HitRec

LEMMA HitKeeps ==
  ASSUME SiteIInv, NEW c \in Client, Hit(c) PROVE SiteIInv'
<1>1. PICK path \in Routes(site) :
        hit' = [hit EXCEPT ![c] = [Out EXCEPT !.pc = "down", !.path = path, !.chain = Chain(site, path),
                                            !.cookie = jar]]
  BY Zenon DEF Hit
<1>2. UNCHANGED <<site, timings, worked>> /\ jar' \in BOOLEAN /\ jar \in BOOLEAN
  BY DEF Hit, SiteIInv
<1>3. Chain(site, path) \in Seq(Middleware) /\ path \in PathName /\ Len(Chain(site, path)) \in 1..3
  <2>1. site \in {"middleware", "logging", "timing", "metrics"}
    BY DEF SiteIInv
  <2> QED
    BY <2>1, ChainIs
<1> DEFINE h1 == [Out EXCEPT !.pc = "down"]
           h2 == [h1 EXCEPT !.path = path]
           h3 == [h2 EXCEPT !.chain = Chain(site, path)]
           h == [h3 EXCEPT !.cookie = jar]
<1>4. /\ h1 \in HitRec /\ h1.pc = "down" /\ h1.depth = 0
      /\ h1.next = 1 /\ h1.real = 0 /\ h1.page = "none" /\ h1.logged = 0
  BY ONLY OutIs DEF HitRec
<1>5. hit' = [hit EXCEPT ![c] = h]
  BY <1>1
<1> HIDE DEF h1
<1>6. /\ h2 \in HitRec /\ h2.pc = "down" /\ h2.depth = 0 /\ h2.path = path
      /\ h2.next = 1 /\ h2.real = 0 /\ h2.page = "none" /\ h2.logged = 0
  BY ONLY <1>3, <1>4 DEF HitRec
<1> HIDE DEF h2
<1>7. /\ h3 \in HitRec /\ h3.pc = "down" /\ h3.depth = 0 /\ h3.path = path /\ h3.chain = Chain(site, path)
      /\ h3.next = 1 /\ h3.real = 0 /\ h3.page = "none" /\ h3.logged = 0
  BY ONLY <1>3, <1>6 DEF HitRec
<1> HIDE DEF h3
<1>8. /\ h \in HitRec /\ h.pc = "down" /\ h.depth = 0 /\ h.path = path /\ h.chain = Chain(site, path)
      /\ h.next = 1 /\ h.real = 0 /\ h.page = "none" /\ h.logged = 0
  BY ONLY <1>2, <1>7 DEF HitRec
<1> HIDE DEF h
<1>9. HitOK(h, timings[c], worked[c])
  BY <1>3, <1>8 DEF HitOK
<1> QED
  BY <1>2, <1>5, <1>8, <1>9, OnlyRequest

LEMMA WorkedKeeps ==
  ASSUME SiteIInv, NEW c \in Client, Worked(c) PROVE SiteIInv'
<1>1. PICK q \in HitRec : q = hit[c]
  BY DEF SiteIInv
<1>2. /\ q.pc = "work" /\ q.next > Len(Works) /\ UNCHANGED <<site, timings, jar, worked>>
      /\ hit' = [hit EXCEPT ![c].pc = "up", ![c].page = "done"]
  BY <1>1 DEF Worked, Here
<1> DEFINE h == [q EXCEPT !.pc = "up", !.page = "done"]
<1>3. /\ h \in HitRec /\ h.pc = "up" /\ h.page = "done" /\ h.depth = q.depth /\ h.path = q.path
      /\ h.chain = q.chain /\ h.next = q.next /\ h.real = q.real
  BY ONLY q \in HitRec DEF HitRec, PageName
<1>4. hit' = [hit EXCEPT ![c] = h]
  BY <1>1, <1>2 DEF SiteIInv
<1> HIDE DEF h
<1>5. HitOK(q, timings[c], worked[c]) /\ jar' \in BOOLEAN
  BY <1>1, <1>2 DEF SiteIInv
<1>6. Len(Works) = 6
  BY DEF Works
<1>7. q.next = 7 /\ site \in Timed /\ q.depth = 1 /\ Tally(q, timings[c], worked[c])
  BY <1>2, <1>5, <1>6 DEF HitOK
<1>8. Tally(h, timings[c], worked[c])
  BY <1>3, <1>7 DEF Tally
<1>9. HitOK(h, timings[c], worked[c])
  BY <1>2, <1>3, <1>5, <1>6, <1>7, <1>8 DEF HitOK, Coming
<1> QED
  BY <1>2, <1>3, <1>4, <1>5, <1>9, OnlyRequest

(* A request on its way: its chain, and where it is in it. *)
LEMMA OnItsWay ==
  ASSUME SiteIInv, NEW c \in Client, NEW h \in HitRec, h = hit[c], h.pc # "out"
  PROVE  /\ h.path \in Routes(site) /\ h.path \in PathName
         /\ h.depth \in Nat /\ h.depth <= Len(h.chain) /\ Len(h.chain) \in 1..3
         /\ site = "middleware" =>
              /\ h.chain[1] = "panicMiddleware" /\ h.chain[2] = "accessLogMiddleware"
              /\ Len(h.chain) = 3 => h.chain[3] = "adminAuthMiddleware"
              /\ Len(h.chain) = IF h.path \in {"admin", "admin_panic"} THEN 3 ELSE 2
         /\ site # "middleware" =>
              /\ Len(h.chain) = 1 /\ h.path = "root"
              /\ h.chain[1] = IF site = "logging" THEN "accessLogMiddleware" ELSE "timingMiddleware"
<1>1. h.path \in Routes(site) /\ h.chain = Chain(site, h.path) /\ h.depth <= Len(h.chain)
  BY DEF SiteIInv, HitOK
<1>2. h.depth \in Nat /\ site \in {"middleware", "logging", "timing", "metrics"}
  BY DEF HitRec, SiteIInv
<1>3. PICK path \in Routes(site) : path = h.path
  BY <1>1
<1>4. PICK s : s = Chain(site, path)
  OBVIOUS
<1>5. /\ path \in PathName
      /\ site = "middleware" =>
           /\ s[1] = "panicMiddleware" /\ s[2] = "accessLogMiddleware"
           /\ path \in {"admin", "admin_panic"} => Len(s) = 3 /\ s[3] = "adminAuthMiddleware"
           /\ path \notin {"admin", "admin_panic"} => Len(s) = 2
      /\ site # "middleware" =>
           /\ Len(s) = 1 /\ path = "root"
           /\ s[1] = IF site = "logging" THEN "accessLogMiddleware" ELSE "timingMiddleware"
  BY ONLY <1>2, <1>4, ChainIs, Zenon
<1>6. h.chain = s /\ h.path = path
  BY <1>1, <1>3, <1>4
<1> QED
  BY ONLY <1>1, <1>2, <1>5, <1>6

LEMMA EnterKeeps ==
  ASSUME SiteIInv, NEW c \in Client, Enter(c) PROVE SiteIInv'
<1>1. PICK q \in HitRec : q = hit[c]
  BY DEF SiteIInv
<1> DEFINE m == q.chain[q.depth + 1]
<1>2. /\ q.pc = "down" /\ q.depth < Len(q.chain) /\ UNCHANGED <<site, jar, hits>>
      /\ IF m = "adminAuthMiddleware" /\ ~q.cookie
         THEN hit' = [hit EXCEPT ![c].pc = "up", ![c].page = "redirect"]
         ELSE hit' = [hit EXCEPT ![c].depth = @ + 1]
      /\ timings' = IF m = "timingMiddleware" THEN NewTimings(c) ELSE timings
      /\ worked' = IF m = "timingMiddleware" THEN [worked EXCEPT ![c] = 0] ELSE worked
  BY <1>1 DEF Enter, Here
<1>3. /\ HitOK(q, timings[c], worked[c]) /\ jar' \in BOOLEAN /\ timings \in [Client -> Timing]
      /\ hit \in [Client -> HitRec] /\ site \in {"middleware", "logging", "timing", "metrics"}
  BY <1>1, <1>2 DEF SiteIInv
<1>4. /\ q.path \in Routes(site) /\ q.depth \in Nat /\ Len(q.chain) \in 1..3 /\ q.chain = Chain(site, q.path)
      /\ site = "middleware" =>
           /\ q.chain[1] = "panicMiddleware" /\ q.chain[2] = "accessLogMiddleware"
           /\ Len(q.chain) = 3 => q.chain[3] = "adminAuthMiddleware"
      /\ site # "middleware" =>
           /\ Len(q.chain) = 1
           /\ q.chain[1] = IF site = "logging" THEN "accessLogMiddleware" ELSE "timingMiddleware"
  BY <1>1, <1>2, <1>3, OnItsWay DEF HitOK
<1>5. q.page = "none" /\ q.logged = 0 /\ q.next = 1 /\ q.real = 0
  BY <1>2, <1>3 DEF HitOK
<1>6. CASE m = "adminAuthMiddleware" /\ ~q.cookie
  <2>1. site = "middleware" /\ q.depth = 2
    BY <1>2, <1>4, <1>6
  <2> DEFINE h == [q EXCEPT !.pc = "up", !.page = "redirect"]
  <2>2. /\ h \in HitRec /\ h.pc = "up" /\ h.page = "redirect" /\ h.depth = q.depth /\ h.path = q.path
        /\ h.chain = q.chain /\ h.cookie = q.cookie /\ h.logged = q.logged
    BY ONLY q \in HitRec DEF HitRec, PageName
  <2>3. hit' = [hit EXCEPT ![c] = h]
    BY <1>1, <1>2, <1>3, <1>6
  <2> HIDE DEF h
  <2>4. Coming(h, timings[c], worked[c])
    BY <1>5, <1>6, <2>1, <2>2 DEF Coming, Timed, AccessAt
  <2>5. HitOK(h, timings[c], worked[c])
    BY <1>2, <1>4, <2>1, <2>2, <2>4 DEF HitOK
  <2>6. UNCHANGED <<site, timings, worked>>
    BY <1>2, <1>6
  <2> QED
    BY <1>3, <2>2, <2>3, <2>5, <2>6, OnlyRequest
<1>7. CASE ~(m = "adminAuthMiddleware" /\ ~q.cookie)
  <2> DEFINE h == [q EXCEPT !.depth = @ + 1]
  <2>1. /\ h \in HitRec /\ h.pc = q.pc /\ h.page = q.page /\ h.depth = q.depth + 1 /\ h.path = q.path
        /\ h.chain = q.chain /\ h.cookie = q.cookie /\ h.logged = q.logged /\ h.next = q.next /\ h.real = q.real
    BY ONLY q \in HitRec DEF HitRec
  <2>2. hit' = [hit EXCEPT ![c] = h]
    BY <1>1, <1>2, <1>3, <1>7
  <2> HIDE DEF h
  <2>3. h.depth = 3 => h.cookie
    BY <1>4, <1>2, <1>7, <2>1
  <2>4. CASE site \notin Timed
    <3>1. m # "timingMiddleware"
      BY <1>2, <1>3, <1>4, <2>4 DEF Timed
    <3>2. UNCHANGED <<site, timings, worked>>
      BY <1>2, <3>1
    <3>3. HitOK(h, timings[c], worked[c])
      BY <1>2, <1>4, <1>5, <2>1, <2>3, <2>4 DEF HitOK
    <3> QED
      BY <1>3, <2>1, <2>2, <3>2, <3>3, OnlyRequest
  <2>5. CASE site \in Timed
    <3> DEFINE t == [n \in WorkName |-> NoTiming]
    <3>1. m = "timingMiddleware"
      BY <1>2, <1>3, <1>4, <2>5 DEF Timed
    <3>2. timings' = [timings EXCEPT ![c] = t] /\ worked' = [worked EXCEPT ![c] = 0]
      BY <1>2, <3>1 DEF NewTimings
    <3>3. t \in Timing /\ Total(t) = 0 /\ \A n \in WorkName : t[n].count = Cardinality(Done(1, n))
      BY NoTimings
    <3> HIDE DEF t
    <3>4. Tally(h, t, 0)
      BY <1>5, <2>1, <3>3 DEF Tally, SleepBefore
    <3>5. HitOK(h, t, 0)
      BY <1>2, <1>4, <1>5, <2>1, <2>3, <3>4 DEF HitOK
    <3>6. site' = site /\ jar' \in BOOLEAN /\ 0 \in Nat
      BY <1>2, <1>3
    <3> QED
      BY ONLY SiteIInv, c \in Client, <2>1, <2>2, <3>2, <3>3, <3>5, <3>6, OneRequest, Zenon
  <2> QED
    BY <2>4, <2>5
<1> QED
  BY <1>6, <1>7

LEMMA HandleHitKeeps ==
  ASSUME SiteIInv, NEW c \in Client, HandleHit(c) PROVE SiteIInv'
<1>1. PICK q \in HitRec : q = hit[c]
  BY DEF SiteIInv
<1>2. /\ HitOK(q, timings[c], worked[c]) /\ jar \in BOOLEAN /\ hit \in [Client -> HitRec]
      /\ site \in {"middleware", "logging", "timing", "metrics"}
  BY <1>1 DEF SiteIInv
<1> DEFINE page == IF site = "logging" THEN "hello"
                   ELSE CASE hit[c].path = "root" -> IF hit[c].cookie THEN "Welcome" ELSE "need_login"
                          [] hit[c].path = "admin" -> "admin_main"
                          [] OTHER -> "redirect"
<1>3. q.pc = "down" /\ q.depth = Len(q.chain) /\ UNCHANGED <<site, timings, jar, worked>>
  <2>1. Here(c, "down") /\ hit[c].depth = Len(hit[c].chain) /\ UNCHANGED <<site, timings, jar, hits, worked>>
    BY Zenon DEF HandleHit
  <2> QED
    BY <1>1, <2>1 DEF Here
<1>4. /\ page \in PageName \ {"none", "500", "dropped"}
      /\ hit' = [hit EXCEPT ![c].page = IF q.path = "admin_panic" THEN @ ELSE page,
                            ![c].pc = CASE q.path = "admin_panic" -> "panic"
                                        [] site \in {"timing", "metrics"} -> "work"
                                        [] OTHER -> "up"]
  <2>1. page \in PageName \ {"none", "500", "dropped"}
    BY DEF PageName
  <2>2. hit' = [hit EXCEPT ![c].page = IF hit[c].path = "admin_panic" THEN @ ELSE page,
                           ![c].pc = CASE hit[c].path = "admin_panic" -> "panic"
                                       [] site \in {"timing", "metrics"} -> "work"
                                       [] OTHER -> "up"]
    BY Zenon DEF HandleHit
  <2> HIDE DEF page
  <2> QED
    BY <1>1, <2>1, <2>2, Zenon
<1> HIDE DEF page
<1>5. /\ q.path \in Routes(site) /\ q.depth \in Nat /\ Len(q.chain) \in 1..3 /\ q.chain = Chain(site, q.path)
      /\ site = "middleware" => Len(q.chain) = IF q.path \in {"admin", "admin_panic"} THEN 3 ELSE 2
      /\ site # "middleware" => Len(q.chain) = 1 /\ q.path = "root"
  BY <1>1, <1>2, <1>3, OnItsWay DEF HitOK
<1>6. PICK pg \in PageName : pg = IF q.path = "admin_panic" THEN q.page ELSE page
  BY <1>4 DEF HitRec
<1>7. PICK pc \in {"panic", "work", "up"} :
        pc = IF q.path = "admin_panic" THEN "panic" ELSE IF site \in Timed THEN "work" ELSE "up"
  OBVIOUS
<1> DEFINE h == [q EXCEPT !.page = pg, !.pc = pc]
<1>8. /\ h \in HitRec /\ h.pc = pc /\ h.page = pg /\ h.depth = q.depth /\ h.path = q.path
      /\ h.chain = q.chain /\ h.cookie = q.cookie /\ h.logged = q.logged /\ h.next = q.next /\ h.real = q.real
  BY ONLY q \in HitRec, pg \in PageName, pc \in {"panic", "work", "up"} DEF HitRec
<1>9. hit' = [hit EXCEPT ![c] = h]
  <2>1. pc = CASE q.path = "admin_panic" -> "panic"
               [] site \in {"timing", "metrics"} -> "work"
               [] OTHER -> "up"
    BY <1>5, <1>7 DEF Timed
  <2>2. hit' = [hit EXCEPT ![c].page = IF q.path = "admin_panic" THEN @ ELSE page, ![c].pc = pc]
    BY <1>4, <2>1, Zenon
  <2>3. hit' = [hit EXCEPT ![c].page = pg, ![c].pc = pc]
    BY <1>1, <1>2, <1>6, <2>2
  <2> QED
    BY <1>1, <1>2, <2>3
<1> HIDE DEF h
<1>10. HitOK(h, timings[c], worked[c])
  <2>1. q.page = "none" /\ q.logged = 0 /\ q.next = 1 /\ q.real = 0 /\ (q.depth = 3 => q.cookie)
        /\ (site \in Timed /\ q.depth = 1 => Tally(q, timings[c], worked[c]))
    BY <1>2, <1>3 DEF HitOK
  <2>2. CASE q.path = "admin_panic"
    <3>1. site = "middleware" /\ q.depth = 3
      BY <1>3, <1>5, <2>2
    <3> QED
      BY <1>3, <1>5, <1>7, <1>8, <2>1, <2>2, <3>1 DEF HitOK
  <2>3. CASE q.path # "admin_panic" /\ site \in Timed
    <3>1. q.depth = 1 /\ Len(Works) = 6
      BY <1>3, <1>5, <2>3 DEF Timed, Works
    <3>2. Tally(h, timings[c], worked[c])
      BY <1>8, <2>1, <2>3, <3>1 DEF Tally
    <3> QED
      BY <1>3, <1>5, <1>7, <1>8, <2>1, <2>3, <3>1, <3>2 DEF HitOK
  <2>4. CASE q.path # "admin_panic" /\ site \notin Timed
    <3>1. q.depth # 0 /\ ~(q.depth < AccessAt)
      <4>1. q.depth \in 1..3 /\ (site = "middleware" => q.depth = 2 \/ q.depth = 3)
        BY <1>3, <1>5
      <4> QED
        BY <4>1 DEF AccessAt
    <3>2. Coming(h, timings[c], worked[c])
      BY <1>4, <1>6, <1>8, <2>1, <2>4, <3>1 DEF Coming
    <3> QED
      BY <1>3, <1>5, <1>7, <1>8, <2>4, <3>1, <3>2 DEF HitOK
  <2> QED
    BY <2>2, <2>3, <2>4
<1> QED
  BY <1>2, <1>3, <1>8, <1>9, <1>10, OnlyRequest

(* One more work is counted, under its own name. *)
LEMMA DoneNext ==
  ASSUME NEW m \in 1..Len(Works), NEW n \in WorkName
  PROVE  /\ Cardinality(Done(m, n)) \in Nat
         /\ Cardinality(Done(m + 1, n)) = Cardinality(Done(m, n)) + (IF Works[m] = n THEN 1 ELSE 0)
<1>1. Len(Works) = 6 /\ m \in 1..6
  BY DEF Works
<1>2. IsFiniteSet(Done(m, n)) /\ m \notin Done(m, n)
  <2>1. Done(m, n) \subseteq 1..m - 1 /\ m - 1 \in Int /\ 1 \in Int
    BY <1>1 DEF Done
  <2>2. IsFiniteSet(1..m - 1)
    BY <2>1, FS_Interval
  <2> QED
    BY <1>1, <2>1, <2>2, FS_Subset
<1>3. Done(m + 1, n) = IF Works[m] = n THEN Done(m, n) \cup {m} ELSE Done(m, n)
  <2>1. \A k \in 1..m + 1 - 1 : k = m \/ k \in 1..m - 1
    BY <1>1
  <2>2. m \in 1..m + 1 - 1 /\ \A k \in 1..m - 1 : k \in 1..m + 1 - 1
    BY <1>1
  <2> QED
    BY <2>1, <2>2 DEF Done
<1> QED
  BY <1>2, <1>3, FS_AddElement, FS_CardinalityType

LEMMA WorkIs ==
  ASSUME NEW m \in 1..Len(Works) PROVE Works[m] \in WorkName
<1>1. m \in {1, 2, 3, 4, 5, 6}
  BY DEF Works
<1> QED
  BY <1>1 DEF Works, WorkName

LEMMA TotalIs ==
  ASSUME NEW t \in Timing, NEW n \in WorkName, NEW e \in Nat, NEW u \in Timing,
         u = [t EXCEPT ![n] = Added(@, e)]
  PROVE  /\ Total(u) = Total(t) + e /\ Total(t) \in Nat
         /\ \A k \in WorkName : u[k].count = t[k].count + (IF k = n THEN 1 ELSE 0)
<1>1. \A k \in WorkName : t[k].count \in Nat /\ t[k].duration \in Nat
  BY DEF Timing
<1>2. /\ u[n].count = t[n].count + 1 /\ u[n].duration = t[n].duration + e
      /\ \A k \in WorkName \ {n} : u[k] = t[k]
  BY DEF Timing, Added
<1>3. "checkCache" \in WorkName /\ "loadPosts" \in WorkName /\ "loadSidebar" \in WorkName /\ "loadComments" \in WorkName
  BY DEF WorkName
<1>4. n \in {"checkCache", "loadPosts", "loadSidebar", "loadComments"}
  BY DEF WorkName
<1>5. Total(u) = Total(t) + e /\ Total(t) \in Nat
  BY ONLY <1>1, <1>2, <1>3, <1>4, e \in Nat DEF Total
<1> QED
  BY <1>1, <1>2, <1>5

LEMMA emulateWorkKeeps ==
  ASSUME SiteIInv, NEW c \in Client, emulateWork(c) PROVE SiteIInv'
<1>1. PICK q \in HitRec : q = hit[c]
  BY DEF SiteIInv
<1>2. PICK e \in 0..MaxWork :
        /\ timings' = [d \in Client |-> IF d \in ContextOf(c)
                         THEN [timings[d] EXCEPT ![Works[q.next]] = Added(@, e)]
                         ELSE timings[d]]
        /\ worked' = [worked EXCEPT ![c] = @ + e]
        /\ hit' = [hit EXCEPT ![c].real = @ + e + IF q.next = SleepBefore THEN 1 ELSE 0,
                              ![c].next = @ + 1]
  BY <1>1 DEF emulateWork
<1>3. /\ q.pc = "work" /\ q.next <= Len(Works) /\ site' = site /\ jar' \in BOOLEAN /\ e \in Nat
      /\ hit \in [Client -> HitRec] /\ timings \in [Client -> Timing] /\ worked \in [Client -> Nat]
      /\ HitOK(q, timings[c], worked[c]) /\ q.next \in Nat /\ q.real \in Nat
  BY <1>1, SiteAssumption DEF emulateWork, Here, SiteIInv, HitRec
<1>4. /\ site \in Timed /\ q.depth = 1 /\ q.next \in 1..Len(Works) /\ Tally(q, timings[c], worked[c])
      /\ Len(Works) = 6
  BY <1>3 DEF HitOK, Works
<1>31. PICK t0 \in Timing : t0 = timings[c]
  BY <1>3
<1>32. PICK m \in Nat : m = q.next + 1
  BY <1>3
<1> DEFINE w == worked[c] + e
           n == Works[q.next]
           t == [t0 EXCEPT ![n] = Added(@, e)]
           r == q.real + e + IF q.next = SleepBefore THEN 1 ELSE 0
           h1 == [q EXCEPT !.real = r]
           h == [h1 EXCEPT !.next = m]
<1>5. n \in WorkName /\ w \in Nat /\ worked' = [worked EXCEPT ![c] = w] /\ r \in Nat
  BY <1>2, <1>3, <1>4, WorkIs
<1>6. hit' = [hit EXCEPT ![c] = h]
  BY <1>1, <1>2, <1>3, <1>32
<1>7. timings' = [timings EXCEPT ![c] = t]
  BY <1>2, <1>3, <1>31 DEF ContextOf
<1> HIDE DEF n
<1>8. t \in Timing
  <2>1. Added(t0[n], e) \in [count : Nat, duration : Nat]
    BY ONLY <1>5, e \in Nat, t0 \in Timing DEF Timing, Added
  <2> QED
    BY <1>3, <1>5, <2>1 DEF Timing
<1> HIDE DEF r
<1>9. h1 \in HitRec /\ h1.real = r /\ h1.pc = q.pc /\ h1.path = q.path /\ h1.chain = q.chain /\ h1.depth = q.depth
      /\ h1.next = q.next
  BY ONLY <1>5, q \in HitRec DEF HitRec
<1> HIDE DEF h1
<1>10. h \in HitRec /\ h.real = r /\ h.pc = q.pc /\ h.path = q.path /\ h.chain = q.chain /\ h.depth = q.depth
       /\ h.next = q.next + 1
  <2>1. /\ h \in HitRec /\ h.real = h1.real /\ h.pc = h1.pc /\ h.path = h1.path /\ h.chain = h1.chain
        /\ h.depth = h1.depth /\ h.next = m
    BY ONLY <1>9, m \in Nat DEF HitRec
  <2> QED
    BY <1>9, <1>32, <2>1
<1>33. t = [t0 EXCEPT ![n] = Added(@, e)] /\ e \in Nat
  BY <1>3
<1> HIDE DEF t, h
<1>11. /\ Total(t) = Total(timings[c]) + e
       /\ \A k \in WorkName : t[k].count = timings[c][k].count + (IF k = n THEN 1 ELSE 0)
  BY <1>31, <1>5, <1>8, <1>33, TotalIs
<1>12. Tally(h, t, w)
  <2>1. Total(t) = w
    BY <1>4, <1>11 DEF Tally
  <2>2. h.real = w + (IF h.next > SleepBefore THEN 1 ELSE 0)
    <3>1. worked[c] \in Nat /\ q.real = worked[c] + (IF q.next > 5 THEN 1 ELSE 0)
      BY <1>3, <1>4 DEF Tally, SleepBefore
    <3> QED
      BY <1>3, <1>4, <1>10, <3>1 DEF r, SleepBefore
  <2>3. ASSUME NEW k \in WorkName PROVE t[k].count = Cardinality(Done(h.next, k))
    <3>1. /\ Cardinality(Done(q.next + 1, k)) = Cardinality(Done(q.next, k)) + (IF n = k THEN 1 ELSE 0)
          /\ timings[c][k].count = Cardinality(Done(q.next, k))
      BY <1>4, DoneNext DEF Tally, n
    <3> QED
      BY <1>10, <1>11, <3>1
  <2> QED
    BY <2>1, <2>2, <2>3 DEF Tally
<1>13. HitOK(h, t, w)
  <2>1. q.path \in Routes(site) /\ q.chain = Chain(site, q.path) /\ q.depth <= Len(q.chain)
    BY <1>3 DEF HitOK
  <2>2. h.pc = "work" /\ h.next \in 1..Len(Works) + 1
    BY <1>3, <1>4, <1>10
  <2> QED
    BY ONLY <1>4, <1>10, <1>12, <2>1, <2>2 DEF HitOK
<1> QED
  BY ONLY SiteIInv, c \in Client, <1>3, <1>5, <1>6, <1>7, <1>8, <1>10, <1>13, OneRequest, Zenon

(* The way back through panicMiddleware, with the panic. *)
LEMMA PanicUpKeeps ==
  ASSUME SiteIInv, NEW c \in Client, Up(c), Here(c, "panic") PROVE SiteIInv'
<1>1. PICK q \in HitRec : q = hit[c]
  BY DEF SiteIInv
<1>2. /\ q.pc = "panic" /\ HitOK(q, timings[c], worked[c]) /\ hit \in [Client -> HitRec]
      /\ UNCHANGED <<site, timings, jar, worked>> /\ jar' \in BOOLEAN
  BY <1>1 DEF SiteIInv, Up, Here
<1>3. /\ site = "middleware" /\ q.path = "admin_panic" /\ q.cookie /\ q.logged = 0 /\ q.depth \in 1..3
      /\ q.chain[1] = "panicMiddleware" /\ q.chain[2] = "accessLogMiddleware" /\ Len(q.chain) = 3
      /\ q.chain[3] = "adminAuthMiddleware"
      /\ q.path \in Routes(site) /\ q.chain = Chain(site, q.path)
  <2>1. /\ site = "middleware" /\ q.path = "admin_panic" /\ q.cookie /\ q.logged = 0 /\ q.depth # 0
        /\ q.path \in Routes(site) /\ q.chain = Chain(site, q.path) /\ q.pc # "out"
    BY <1>2 DEF HitOK
  <2>2. /\ q.depth \in Nat /\ q.depth <= Len(q.chain) /\ Len(q.chain) \in 1..3
        /\ q.chain[1] = "panicMiddleware" /\ q.chain[2] = "accessLogMiddleware"
        /\ Len(q.chain) = 3 => q.chain[3] = "adminAuthMiddleware"
        /\ Len(q.chain) = IF q.path \in {"admin", "admin_panic"} THEN 3 ELSE 2
    BY ONLY SiteIInv, c \in Client, q \in HitRec, <1>1, <2>1, OnItsWay
  <2>3. Len(q.chain) = 3
    BY ONLY <2>1, <2>2
  <2>4. q.chain[3] = "adminAuthMiddleware"
    BY ONLY <2>2, <2>3, Zenon
  <2>5. q.depth \in Nat /\ q.depth # 0 /\ q.depth <= 3
    BY ONLY <2>1, <2>2, <2>3, Zenon
  <2>6. q.depth \in 1..3
    BY ONLY <2>5
  <2> QED
    BY ONLY <2>1, <2>2, <2>3, <2>4, <2>6, Zenon
<1>4. PICK d \in Nat : d = q.depth - 1
  BY <1>3
<1> DEFINE h == [q EXCEPT !.depth = d]
<1>5. /\ h \in HitRec /\ h.pc = "panic" /\ h.depth = d /\ h.path = q.path /\ h.chain = q.chain
      /\ h.cookie = q.cookie /\ h.logged = q.logged /\ h.page = q.page
  BY ONLY <1>2, d \in Nat, q \in HitRec DEF HitRec
<1>6. q.chain[q.depth] # "timingMiddleware" /\ (q.chain[q.depth] = "panicMiddleware" <=> q.depth = 1)
  BY <1>3
<1>7. CASE q.depth = 1
  <2> DEFINE h1 == [h EXCEPT !.pc = "up"]
             h2 == [h1 EXCEPT !.page = "500"]
  <2>1. hit' = [hit EXCEPT ![c] = h2]
    BY <1>1, <1>2, <1>4, <1>6, <1>7 DEF Up, Here, This
  <2> HIDE DEF h
  <2>2. h1 \in HitRec /\ h1.pc = "up" /\ h1.depth = d /\ h1.path = h.path /\ h1.chain = h.chain
        /\ h1.cookie = h.cookie /\ h1.logged = h.logged
    BY ONLY <1>5 DEF HitRec
  <2> HIDE DEF h1
  <2>3. h2 \in HitRec /\ h2.pc = "up" /\ h2.depth = d /\ h2.path = h.path /\ h2.chain = h.chain
        /\ h2.cookie = h.cookie /\ h2.logged = h.logged /\ h2.page = "500"
    BY ONLY <2>2 DEF HitRec, PageName
  <2> HIDE DEF h2
  <2>4. Over(h2, timings[c], worked[c])
    BY <1>3, <1>5, <2>3 DEF Over, Timed
  <2>5. HitOK(h2, timings[c], worked[c])
    BY <1>3, <1>4, <1>5, <1>7, <2>3, <2>4 DEF HitOK
  <2> QED
    BY <1>2, <2>1, <2>3, <2>5, OnlyRequest
<1>8. CASE q.depth # 1
  <2>1. hit' = [hit EXCEPT ![c] = h]
    BY <1>1, <1>2, <1>4, <1>6, <1>8 DEF Up, Here, This
  <2> HIDE DEF h
  <2>2. HitOK(h, timings[c], worked[c])
    BY <1>3, <1>4, <1>5, <1>8 DEF HitOK
  <2> QED
    BY <1>2, <1>5, <2>1, <2>2, OnlyRequest
<1> QED
  BY <1>7, <1>8

(* The way back through a middleware, without one. *)
LEMMA ReturnKeeps ==
  ASSUME SiteIInv, NEW c \in Client, Up(c), Here(c, "up") PROVE SiteIInv'
<1>1. PICK q \in HitRec : q = hit[c]
  BY DEF SiteIInv
<1>2. /\ q.pc = "up" /\ q.depth > 0 /\ HitOK(q, timings[c], worked[c]) /\ hit \in [Client -> HitRec]
      /\ UNCHANGED <<site, timings, jar, worked>> /\ jar' \in BOOLEAN
      /\ site \in {"middleware", "logging", "timing", "metrics"}
  BY <1>1 DEF SiteIInv, Up, Here
<1>3. /\ q.depth \in Nat /\ q.depth <= Len(q.chain) /\ Len(q.chain) \in 1..3
      /\ site = "middleware" =>
           /\ q.chain[1] = "panicMiddleware" /\ q.chain[2] = "accessLogMiddleware"
           /\ Len(q.chain) = 3 => q.chain[3] = "adminAuthMiddleware"
           /\ Len(q.chain) = IF q.path \in {"admin", "admin_panic"} THEN 3 ELSE 2
      /\ site # "middleware" =>
           /\ Len(q.chain) = 1
           /\ q.chain[1] = IF site = "logging" THEN "accessLogMiddleware" ELSE "timingMiddleware"
  <2>1. q.pc # "out"
    BY <1>2
  <2> QED
    BY ONLY SiteIInv, c \in Client, q \in HitRec, <1>1, <2>1, OnItsWay
<1>4. /\ Coming(q, timings[c], worked[c]) /\ q.logged \in Nat
      /\ q.path \in Routes(site) /\ q.chain = Chain(site, q.path)
  BY <1>2 DEF HitOK, HitRec
<1>5. PICK d \in Nat : d = q.depth - 1
  BY <1>2, <1>3
<1> DEFINE h == [q EXCEPT !.depth = d]
<1>6. /\ h \in HitRec /\ h.pc = "up" /\ h.depth = d /\ h.path = q.path /\ h.chain = q.chain
      /\ h.cookie = q.cookie /\ h.logged = q.logged /\ h.page = q.page /\ h.next = q.next /\ h.real = q.real
  BY ONLY <1>2, d \in Nat, q \in HitRec DEF HitRec
<1>7. CASE q.chain[q.depth] = "accessLogMiddleware"
  <2>1. site \notin Timed /\ q.depth = AccessAt
    BY <1>2, <1>3, <1>7 DEF AccessAt, Timed
  <2> DEFINE h1 == AccessLogged(h)
  <2>2. hit' = [hit EXCEPT ![c] = h1]
    BY <1>1, <1>2, <1>5, <1>7 DEF Up, Here, This
  <2> HIDE DEF h
  <2>3. PICK l \in Nat : l = h.logged + 1
    BY <1>4, <1>6
  <2>4. h1 = [h EXCEPT !.logged = l]
    BY <2>3 DEF AccessLogged
  <2> HIDE DEF h1
  <2>5. h1 \in HitRec /\ h1.pc = h.pc /\ h1.depth = h.depth /\ h1.path = h.path /\ h1.chain = h.chain
        /\ h1.cookie = h.cookie /\ h1.logged = l /\ h1.page = h.page
    BY ONLY <1>6, <2>4, l \in Nat DEF HitRec
  <2>6. h1.logged = 1 /\ h1.page \notin {"none", "dropped", "500"} /\ ~(h1.path = "admin_panic" /\ h1.cookie)
    <3>1. q.logged = 0
      BY <1>3, <1>4, <2>1 DEF Coming, AccessAt
    <3> QED
      BY <1>4, <1>6, <2>1, <2>3, <2>5, <3>1 DEF Coming
  <2>7. d < AccessAt
    BY <1>5, <2>1 DEF AccessAt
  <2>8. Over(h1, timings[c], worked[c]) /\ Coming(h1, timings[c], worked[c])
    BY ONLY <1>6, <2>1, <2>5, <2>6, <2>7 DEF Over, Coming
  <2>9. HitOK(h1, timings[c], worked[c])
    BY <1>3, <1>4, <1>5, <1>6, <2>5, <2>8 DEF HitOK
  <2> QED
    BY <1>2, <2>2, <2>5, <2>9, OnlyRequest
<1>8. CASE q.chain[q.depth] \notin {"accessLogMiddleware", "timingMiddleware"}
  <2>1. site = "middleware" /\ (q.depth = 1 \/ q.depth = 3) /\ site \notin Timed
    BY <1>2, <1>3, <1>8 DEF Timed
  <2>2. hit' = [hit EXCEPT ![c] = h]
    BY <1>1, <1>2, <1>5, <1>8 DEF Up, Here, This
  <2> HIDE DEF h
  <2>3. h.logged = IF q.depth = 1 THEN 1 ELSE 0
    BY <1>4, <1>6, <2>1 DEF Coming, AccessAt
  <2>4. h.page \notin {"none", "dropped", "500"} /\ ~(h.path = "admin_panic" /\ h.cookie)
    BY <1>4, <1>6, <2>1 DEF Coming
  <2>5. IF d = 0 THEN Over(h, timings[c], worked[c]) ELSE Coming(h, timings[c], worked[c])
    BY <1>5, <1>6, <2>1, <2>3, <2>4 DEF Over, Coming, AccessAt
  <2>6. HitOK(h, timings[c], worked[c])
    BY <1>3, <1>4, <1>5, <1>6, <2>5 DEF HitOK
  <2> QED
    BY <1>2, <1>6, <2>2, <2>6, OnlyRequest
<1>9. CASE q.chain[q.depth] = "timingMiddleware"
  <2>0. site # "middleware"
    BY ONLY <1>2, <1>3, <1>9
  <2>1. site \in Timed /\ q.depth = 1 /\ d = 0
    BY ONLY <1>2, <1>3, <1>5, <1>9, <2>0 DEF Timed
  <2>2. /\ q.next = 7 /\ Len(Works) = 6 /\ Tally(q, timings[c], worked[c]) /\ q.page # "none"
        /\ worked[c] \in Nat
    BY <1>4, <2>1 DEF Coming, Works, SiteIInv
  <2>3. Total(timings[c]) = worked[c] /\ q.real = worked[c] + 1
    BY <2>2 DEF Tally, SleepBefore
  <2> DEFINE report == Reported(c, Total(timings[c]), q.real)
  <2>4. PICK x \in Nat, y \in Nat :
          /\ x = report.tracked /\ y = report.real_time
          /\ site = "timing" => x = worked[c] /\ y = worked[c] + 1
          /\ site = "metrics" => x = worked[c] + 1 /\ y = worked[c]
    BY <2>1, <2>2, <2>3 DEF Reported, Timed
  <2> DEFINE h1 == [h EXCEPT !.tracked = x]
             h2 == [h1 EXCEPT !.real_time = y]
  <2>5. hit' = [hit EXCEPT ![c] = h2]
    BY <1>1, <1>2, <1>5, <1>9, <2>4 DEF Up, Here, This
  <2> HIDE DEF h
  <2>6. h1 \in HitRec /\ h1.pc = "up" /\ h1.depth = d /\ h1.path = q.path /\ h1.chain = q.chain
        /\ h1.page = q.page /\ h1.next = q.next /\ h1.real = q.real /\ h1.tracked = x
    BY ONLY <1>6, x \in Nat DEF HitRec
  <2> HIDE DEF h1
  <2>7. h2 \in HitRec /\ h2.pc = "up" /\ h2.depth = d /\ h2.path = q.path /\ h2.chain = q.chain
        /\ h2.page = q.page /\ h2.next = q.next /\ h2.real = q.real /\ h2.tracked = x /\ h2.real_time = y
    BY ONLY <2>6, y \in Nat DEF HitRec
  <2> HIDE DEF h2
  <2>8. Tally(h2, timings[c], worked[c])
    BY <2>2, <2>7 DEF Tally
  <2>9. Over(h2, timings[c], worked[c])
    BY <2>1, <2>2, <2>4, <2>7, <2>8 DEF Over
  <2>10. HitOK(h2, timings[c], worked[c])
    BY <1>3, <1>4, <2>1, <2>7, <2>9 DEF HitOK
  <2> QED
    BY <1>2, <2>5, <2>7, <2>10, OnlyRequest
<1> QED
  BY <1>7, <1>8, <1>9

LEMMA RespondKeeps ==
  ASSUME SiteIInv, NEW c \in Client, Respond(c) PROVE SiteIInv'
<1>1. PICK q \in HitRec : q = hit[c]
  BY DEF SiteIInv
<1>2. /\ q.pc \in {"up", "panic"} /\ q.depth = 0 /\ HitOK(q, timings[c], worked[c]) /\ hit \in [Client -> HitRec]
      /\ UNCHANGED <<site, timings, worked>> /\ jar' \in BOOLEAN
  BY <1>1 DEF SiteIInv, Respond, Here
<1>3. q.pc = "up" /\ Over(q, timings[c], worked[c])
  BY <1>2 DEF HitOK
<1> DEFINE h == [q EXCEPT !.pc = "out"]
<1>4. /\ h \in HitRec /\ h.pc = "out" /\ h.page = q.page /\ h.path = q.path /\ h.cookie = q.cookie
      /\ h.logged = q.logged /\ h.next = q.next /\ h.real = q.real
      /\ h.tracked = q.tracked /\ h.real_time = q.real_time
  BY ONLY q \in HitRec DEF HitRec
<1>5. hit' = [hit EXCEPT ![c] = h]
  <2>1. hit' = [hit EXCEPT ![c].pc = "out", ![c].page = IF Here(c, "panic") THEN "dropped" ELSE @]
    BY DEF Respond, Leaves
  <2>2. hit' = [hit EXCEPT ![c] = [h EXCEPT !.page = q.page]]
    BY <1>1, <1>2, <1>3, <2>1 DEF Here
  <2>3. [h EXCEPT !.page = q.page] = h
    BY <1>4 DEF HitRec
  <2> QED
    BY <2>2, <2>3
<1> HIDE DEF h
<1>6. Over(h, timings[c], worked[c])
  BY <1>3, <1>4 DEF Over, Tally
<1>7. HitOK(h, timings[c], worked[c])
  BY <1>4, <1>6 DEF HitOK
<1> QED
  BY <1>2, <1>4, <1>5, <1>7, OnlyRequest

LEMMA InitSiteIInv == SiteInit => SiteIInv
<1> SUFFICES ASSUME SiteInit PROVE SiteIInv
  OBVIOUS
<1>1. timings \in [Client -> Timing]
  BY NoTimings DEF SiteInit
<1>2. hit \in [Client -> HitRec] /\ worked \in [Client -> Nat]
  BY OutIs DEF SiteInit
<1>3. \A c \in Client : HitOK(hit[c], timings[c], worked[c])
  BY OutIs DEF SiteInit, HitOK
<1> QED
  BY <1>1, <1>2, <1>3 DEF SiteInit, SiteIInv

LEMMA NextSiteIInv == SiteIInv /\ [SiteNext]_siteVars => SiteIInv'
<1> SUFFICES ASSUME SiteIInv, [SiteNext]_siteVars PROVE SiteIInv'
  OBVIOUS
<1>1. ASSUME NEW c \in Client, Hit(c) PROVE SiteIInv'
  BY <1>1, HitKeeps
<1>2. ASSUME NEW c \in Client, Enter(c) \/ HandleHit(c) \/ emulateWork(c) \/ Worked(c) PROVE SiteIInv'
  BY <1>2, EnterKeeps, HandleHitKeeps, emulateWorkKeeps, WorkedKeeps
<1>3. ASSUME NEW c \in Client, Up(c) PROVE SiteIInv'
  <2>1. Here(c, "up") \/ Here(c, "panic")
    BY <1>3 DEF Up, Here
  <2> QED
    BY <1>3, <2>1, PanicUpKeeps, ReturnKeeps
<1>4. ASSUME NEW c \in Client, Respond(c) PROVE SiteIInv'
  BY <1>4, RespondKeeps
<1>5. CASE UNCHANGED siteVars
  BY <1>5 DEF siteVars, SiteIInv, HitOK, Over, Coming, Tally, AccessAt
<1> QED
  BY <1>1, <1>2, <1>3, <1>4, <1>5 DEF SiteNext, SiteStep

LEMMA WhatIsReported == SiteIInv => ReportsAreTrue
<1> SUFFICES ASSUME SiteIInv, NEW c \in Client, Ended(c)
             PROVE  /\ site \in {"middleware", "logging"} =>
                         /\ hit[c].page # "dropped"
                         /\ hit[c].page = "500" <=> hit[c].path = "admin_panic" /\ hit[c].cookie
                         /\ hit[c].logged = IF hit[c].page = "500" THEN 0 ELSE 1
                    /\ site \in {"timing", "metrics"} =>
                         /\ \A n \in WorkName :
                              timings[c][n].count = Cardinality({k \in DOMAIN Works : Works[k] = n})
                         /\ worked[c] \in {hit[c].tracked, hit[c].real_time}
                    /\ site = "timing" => hit[c].tracked < hit[c].real_time
                    /\ site = "metrics" => hit[c].real_time < hit[c].tracked
  BY DEF ReportsAreTrue, OnlyPanicsUnlogged, ReportIsOwn, TrackedWithinReal, SiteIInv
<1>1. Over(hit[c], timings[c], worked[c]) /\ worked[c] \in Nat
  BY DEF SiteIInv, HitOK, Ended, Here
<1>2. Len(Works) + 1 = 7 /\ DOMAIN Works = 1..6 /\ 7 - 1 = 6
  BY DEF Works
<1>3. \A n : Done(7, n) = {k \in DOMAIN Works : Works[k] = n}
  BY <1>2 DEF Done
<1>4. site \in Timed => \A n \in WorkName :
        timings[c][n].count = Cardinality({k \in DOMAIN Works : Works[k] = n})
  <2> SUFFICES ASSUME site \in Timed, NEW n \in WorkName
               PROVE  timings[c][n].count = Cardinality({k \in DOMAIN Works : Works[k] = n})
    OBVIOUS
  <2>1. hit[c].next = Len(Works) + 1 /\ timings[c][n].count = Cardinality(Done(hit[c].next, n))
    BY <1>1 DEF Over, Tally
  <2>2. hit[c].next = 7
    BY <1>2, <2>1
  <2>3. Done(hit[c].next, n) = {k \in DOMAIN Works : Works[k] = n}
    BY <1>3, <2>2, Zenon
  <2> QED
    BY <2>1, <2>3, Zenon
<1> QED
  BY <1>1, <1>4 DEF Over, Timed

(* middleware.go, logging/main.go, context_value.go, metrics: however many *)
(* requests are on their way at once, a panic is answered with an error    *)
(* and is all that the access log misses, and a report of timings counts   *)
(* and sums the works of its own request, which took less than it took.    *)
THEOREM TheReportsAreTrue == SiteSpec => []ReportsAreTrue
BY InitSiteIInv, NextSiteIInv, WhatIsReported, PTL DEF SiteSpec

(***************************************************************************)
(* The sessions.                                                           *)
(***************************************************************************)

(* What the pairs have in common that the proofs need. *)
PairOK ==
  /\ Manager.store \in {"bare", "locked", "redis"}
  /\ Manager.absent \in {"nil", "error", EmptyLogin, StubLogin}
  /\ Frontend.created \in {"500", "panic"} /\ Frontend.checked \in {"500", "form", "printed"}
  /\ Manager.store = "redis" => Manager.absent = "nil" /\ Frontend.web /\ Frontend.created = "500"
  /\ Frontend.web \in BOOLEAN
  /\ Frontend.web => Frontend.script = <<>> /\ Manager.absent # StubLogin
  /\ ~Frontend.web => Frontend.created = "panic" /\ Frontend.script = IF Manager.absent = StubLogin THEN <<"check", "check">> ELSE FourCalls

Pc == {"idle", "create", "check", "delete", "write", "writing", "reading", "do", "receive", "reply", "panic"}
Result == Browser \cup {"none", "ok", "nil", "error", EmptyLogin, StubLogin}
Shown == Browser \cup {"none", "redirect", "form", "401", "500", "panic", "printed", EmptyLogin, StubLogin}
CallRec ==
  [pc : Pc, op : {"none", "create", "check", "delete"}, id : Id, res : Result, page : Shown,
   gone : BOOLEAN, failed : BOOLEAN]
OnConn == Browser \cup {"ok", "int", "nil"}
StoreOK ==
  /\ sessions \in [SessionId -> Browser \cup {"none"}] /\ conn \in Seq(OnConn)
  /\ drawn \in [SessionId -> SUBSET Browser] /\ again \subseteq SessionId /\ ended \subseteq SessionId
  /\ spoilt \subseteq {"race", "mixed", "fatal"}

(* Where a call is, and with what: only redis's can be told "error" of a   *)
(* session it stored.                                                      *)
CallAt(r) ==
  /\ r.pc \in {"create", "check", "delete"} => r.op = r.pc
  /\ r.pc \in {"write", "do"} => r.op = "create"
  /\ r.pc = "reading" => r.op = "check"
  /\ r.pc = "writing" => r.op \in {"create", "delete"}
  /\ r.pc \in {"receive", "reply"} => r.op # "none"
  /\ r.pc \in {"write", "writing", "reading"} => Manager.store # "redis"
  /\ r.pc \in {"do", "receive"} => Manager.store = "redis"
  /\ r.pc = "create" => r.id = NoId
  /\ r.id = NoId => r.pc \in {"idle", "create", "panic"}
  /\ r.pc = "reply" /\ r.op = "create" /\ Manager.store # "redis" => r.res = "ok"
  /\ r.pc \in {"reading", "reply"} /\ r.op = "check" => r.res \notin {"ok", "none"}
  /\ r.page = "panic" => r.failed
  /\ Manager.absent = StubLogin => r.op \in {"none", "check"} /\ r.pc \in {"idle", "check", "reply"}
  /\ r.op = "none" => r.id = NoId /\ r.pc = "idle"

(* A program that has had its id sends it: only its first call is Create.  *)
Scripted(t) ==
  ~Frontend.web /\ Manager.absent # StubLogin /\ done[t] > 0 =>
    Cookie(t) # NoId \/ (call[t].op = "create" /\ call[t].pc # "idle")

(* The mutex is held at the map; where the store is locked, only there.    *)
LocksOK ==
  /\ smu \in [w : SUBSET Tab, r : SUBSET Tab] /\ mapUse \in [w : SUBSET Tab, r : SUBSET Tab]
  /\ \A t \in smu.w : call[t].pc = "writing"
  /\ \A t \in smu.r : call[t].pc = "reading"
  /\ Manager.store = "locked" => mapUse.w \subseteq smu.w /\ mapUse.r \subseteq smu.r
  /\ "race" \in spoilt => Manager.store = "bare"

CallsIInv ==
  /\ PairOK /\ StoreOK /\ LocksOK
  /\ call \in [Tab -> CallRec] /\ cookie \in [Browser -> Id] /\ done \in [Tab -> Nat]
  /\ \A t \in Tab : CallAt(call[t]) /\ Scripted(t)

(* An id that has ended, unless it was drawn for somebody since; an id     *)
(* whose session is in the store, unless there is a reason.                *)
Gone(i) == i \in ended \cup again
Live(i) == sessions[i] # "none" \/ Gone(i) \/ spoilt # {}
Making(r) == r.op = "create" /\ r.pc \in {"write", "writing", "do"}

(* What Check may answer. *)
Fits(r, a) ==
  /\ a \in Browser \cup {"nil", "error", EmptyLogin, StubLogin}
  /\ a \in Browser => a \in drawn[r.id] \/ "mixed" \in spoilt
  /\ a \in Browser /\ r.gone => r.id \in again \/ spoilt # {}
  /\ a \notin Browser /\ Manager.absent # StubLogin => Gone(r.id) \/ spoilt # {}
  /\ a \in {EmptyLogin, StubLogin} => Manager.absent = a

CallIs(t, r) ==
  /\ r.id # NoId /\ Manager.absent # StubLogin => drawn[r.id] # {}
  /\ Making(r) => Login(t) \in drawn[r.id]
  /\ ~Making(r) /\ r.id # NoId /\ Manager.absent # StubLogin => Live(r.id)
  /\ r.gone => r.id # NoId /\ Gone(r.id)
  /\ r.op = "check" /\ r.pc \in {"reading", "reply"} => Fits(r, r.res)
  /\ r.op = "check" /\ r.pc = "idle" /\ r.id # NoId =>
       /\ r.page \in Browser => r.page \in drawn[r.id] \/ "mixed" \in spoilt
       /\ r.page \in Browser /\ r.gone => r.id \in again \/ spoilt # {}
       /\ r.page \in {EmptyLogin, StubLogin} => Manager.absent = r.page
       /\ r.page \notin Browser /\ Manager.absent # StubLogin => r.failed \/ Gone(r.id) \/ spoilt # {}

(* An id that is drawn once and not yet stored is nobody else's.           *)
Unwritten(t) ==
  Making(call[t]) /\ call[t].id \notin again =>
    /\ sessions[call[t].id] = "none" /\ call[t].id \notin ended
    /\ \A b \in Browser : cookie[b] # call[t].id
    /\ \A u \in Tab \ {t} : call[u].id # call[t].id

(* Until answers are mixed up one request at most waits for redis, and     *)
(* what waits on the connection is its answer.                             *)
Answers(r, a) ==
  /\ r.op = "create" => a = "ok"
  /\ r.op = "check" => Fits(r, a)
InTurn ==
  \/ conn = <<>> /\ \A t \in Tab : call[t].pc # "receive"
  \/ \E t \in Tab, a \in OnConn :
       /\ conn = <<a>> /\ call[t].pc = "receive" /\ Answers(call[t], a)
       /\ \A u \in Tab : call[u].pc = "receive" => u = t

CookiesOK == \A b \in Browser : cookie[b] # NoId => drawn[cookie[b]] # {} /\ Live(cookie[b])
IdsOK ==
  \A i \in SessionId :
    /\ sessions[i] # "none" => sessions[i] \in drawn[i]
    /\ Gone(i) /\ Manager.absent # StubLogin => drawn[i] # {}
    /\ i \in ended \ again /\ spoilt = {} => sessions[i] = "none"

SessionsIInv ==
  /\ \A t \in Tab : CallIs(t, call[t])
  /\ \A t \in Tab : Unwritten(t)
  /\ CookiesOK /\ IdsOK
  /\ "mixed" \notin spoilt => InTurn

(* What only grows. *)
Grown ==
  /\ pair' = pair /\ again \subseteq again' /\ spoilt \subseteq spoilt'
  /\ \A i \in SessionId :
       drawn[i] \subseteq drawn'[i] /\ (Gone(i) => Gone(i)') /\ (Live(i) => Live(i)')

LEMMA ManagersAre ==
  /\ \A m \in {service1, service1_lite, service2, service2_lite} : m.store = "bare" /\ m.absent = "nil"
  /\ \A m \in {net_rpc, grpc, grpc_2, gateway, grpc_lb_sd} : m.store = "locked"
  /\ net_rpc.absent = EmptyLogin /\ grpc_lb_sd.absent = StubLogin
  /\ \A m \in {grpc, grpc_2, gateway} : m.absent = "error"
  /\ redis.store = "redis" /\ redis.absent = "nil"
BY DEF service1, service1_lite, service2, service2_lite, Served, net_rpc, grpc, grpc_2, gateway,
       grpc_lb_sd, redis

LEMMA ClientsAre ==
  /\ \A c \in {service1_main, service2_main, grpc_client, net_rpc_client, redis_main} :
       c.web = TRUE /\ c.script = <<>> /\ c.created \in {"500", "panic"} /\ c.checked \in {"500", "form"}
  /\ redis_main.created = "500"
  /\ \A c \in {service1_client_lite, service2_client_lite, net_rpc_client_lite, grpc_client_lite,
               grpc_2_client, gateway_client_lite} :
       c.web = FALSE /\ c.script = FourCalls /\ c.created = "panic" /\ c.checked = "printed"
  /\ grpc_lb_sd_checks.web = FALSE /\ grpc_lb_sd_checks.script = <<"check", "check">>
  /\ grpc_lb_sd_checks.created = "panic" /\ grpc_lb_sd_checks.checked = "printed"
BY DEF service1_main, service2_main, grpc_client, net_rpc_client, redis_main, service1_client_lite,
       service2_client_lite, net_rpc_client_lite, grpc_client_lite, grpc_2_client,
       gateway_client_lite, grpc_lb_sd_checks, Web, Lite

LEMMA PairIs == ASSUME pair \in Managed PROVE PairOK
<1>1. pair \in Pairs
  BY SessionsAssumption
<1>2. EmptyLogin # StubLogin /\ StubLogin \notin {"nil", "error"}
  BY DEF EmptyLogin, StubLogin
<1>3. \A m, c : LET p == [manager |-> m, client |-> c] IN p.manager = m /\ p.client = c
  OBVIOUS
<1>4. CASE /\ Manager \in {service1, service2}
           /\ Frontend \in {service1_main, service2_main}
  <2>1. Manager.store = "bare" /\ Manager.absent = "nil"
    BY <1>4, ManagersAre, Zenon
  <2>2. Frontend.web = TRUE /\ Frontend.script = <<>>
    BY <1>4, ClientsAre, Zenon
  <2>3. Frontend.created \in {"500", "panic"} /\ Frontend.checked \in {"500", "form", "printed"}
    BY <1>4, ClientsAre
  <2> QED
    BY <1>2, <2>1, <2>2, <2>3 DEF PairOK
<1>5. CASE /\ Manager \in {service1_lite, service2_lite}
           /\ Frontend \in {service1_client_lite, service2_client_lite}
  <2>1. Manager.store = "bare" /\ Manager.absent = "nil"
    BY <1>5, ManagersAre, Zenon
  <2>2. Frontend.web = FALSE /\ Frontend.script = FourCalls
    BY <1>5, ClientsAre, Zenon
  <2>3. Frontend.created = "panic" /\ Frontend.checked = "printed"
    BY <1>5, ClientsAre, Zenon
  <2> QED
    BY <1>2, <2>1, <2>2, <2>3 DEF PairOK
<1>6. CASE Manager = net_rpc /\ Frontend \in {net_rpc_client, net_rpc_client_lite}
  <2>1. Manager.store = "locked" /\ Manager.absent = EmptyLogin
    BY <1>6, ManagersAre, Zenon
  <2>2. CASE Frontend = net_rpc_client
    <3>1. Frontend.web = TRUE /\ Frontend.script = <<>>
      BY <2>2, ClientsAre, Zenon
    <3>2. Frontend.created \in {"500", "panic"} /\ Frontend.checked \in {"500", "form"}
      BY <2>2, ClientsAre
    <3> QED
      BY ONLY <1>2, <2>1, <3>1, <3>2 DEF PairOK
  <2>3. CASE Frontend = net_rpc_client_lite
    <3>1. /\ Frontend.web = FALSE /\ Frontend.script = FourCalls /\ Frontend.created = "panic"
          /\ Frontend.checked = "printed"
      BY <2>3, ClientsAre, Zenon
    <3> QED
      BY ONLY <1>2, <2>1, <3>1 DEF PairOK
  <2> QED
    BY <1>6, <2>2, <2>3
<1>7. CASE /\ Manager \in {grpc, grpc_2, gateway}
           /\ Frontend \in {grpc_client, grpc_client_lite, grpc_2_client, gateway_client_lite}
  <2>1. Manager.store = "locked" /\ Manager.absent = "error"
    BY <1>7, ManagersAre, Zenon
  <2>2. CASE Frontend = grpc_client
    BY <1>2, <2>1, <2>2, ClientsAre DEF PairOK
  <2>3. CASE Frontend # grpc_client
    <3>1. /\ Frontend.web = FALSE /\ Frontend.script = FourCalls /\ Frontend.created = "panic"
          /\ Frontend.checked = "printed"
      BY <1>7, <2>3, ClientsAre, Zenon
    <3> QED
      BY ONLY <1>2, <2>1, <3>1 DEF PairOK
  <2> QED
    BY <2>2, <2>3
<1>8. CASE Manager = grpc_lb_sd /\ Frontend = grpc_lb_sd_checks
  BY <1>2, <1>8, ManagersAre, ClientsAre DEF PairOK
<1>9. CASE Manager = redis /\ Frontend = redis_main
  BY <1>2, <1>9, ManagersAre, ClientsAre DEF PairOK
<1> QED
  BY <1>1, <1>3, <1>4, <1>5, <1>6, <1>7, <1>8, <1>9 DEF Pairs, Manager, Frontend

LEMMA NowhereIs ==
  /\ Nowhere \in CallRec /\ Nowhere.pc = "idle" /\ Nowhere.op = "none" /\ Nowhere.id = NoId
  /\ Nowhere.res = "none" /\ Nowhere.page = "none" /\ Nowhere.gone = FALSE /\ Nowhere.failed = FALSE
BY DEF Nowhere, CallRec, Pc, Id, Result, Shown

(* How a call's record changes. *)
Moved(t, r, x, op, i, a, p, g, f) ==
  /\ r \in CallRec /\ call' = [call EXCEPT ![t] = r]
  /\ r.pc = x /\ r.op = op /\ r.id = i /\ r.res = a /\ r.page = p /\ r.gone = g /\ r.failed = f

LEMMA GoesTo ==
  ASSUME call \in [Tab -> CallRec], NEW t \in Tab, NEW x \in Pc, Goes(t, x)
  PROVE  \E r : Moved(t, r, x, call[t].op, call[t].id, call[t].res, call[t].page, call[t].gone, call[t].failed)
<1> DEFINE r == [call[t] EXCEPT !.pc = x]
<1>1. /\ r \in CallRec /\ r.pc = x /\ r.op = call[t].op /\ r.id = call[t].id
      /\ r.res = call[t].res /\ r.page = call[t].page /\ r.gone = call[t].gone
      /\ r.failed = call[t].failed
  BY DEF CallRec
<1>2. call' = [call EXCEPT ![t] = r]
  BY DEF Goes
<1> QED
  BY <1>1, <1>2 DEF Moved

LEMMA ExecutedTo ==
  ASSUME call \in [Tab -> CallRec], NEW t \in Tab, NEW x \in Pc, NEW a \in Result,
         call' = [call EXCEPT ![t].pc = x, ![t].res = a]
  PROVE  \E r : Moved(t, r, x, call[t].op, call[t].id, a, call[t].page, call[t].gone, call[t].failed)
<1> DEFINE q == [call[t] EXCEPT !.pc = x]
           r == [q EXCEPT !.res = a]
<1>1. /\ q \in CallRec /\ q.pc = x /\ q.op = call[t].op /\ q.id = call[t].id
      /\ q.page = call[t].page /\ q.gone = call[t].gone /\ q.failed = call[t].failed
  BY DEF CallRec
<1>2. call' = [call EXCEPT ![t] = r]
  OBVIOUS
<1> HIDE DEF q
<1>3. /\ r \in CallRec /\ r.pc = q.pc /\ r.op = q.op /\ r.id = q.id /\ r.res = a
      /\ r.page = q.page /\ r.gone = q.gone /\ r.failed = q.failed
  BY <1>1 DEF CallRec
<1> QED
  BY <1>1, <1>2, <1>3 DEF Moved

LEMMA DrawnTo ==
  ASSUME call \in [Tab -> CallRec], NEW t \in Tab, NEW x \in Pc, NEW i \in Id,
         call' = [call EXCEPT ![t].pc = x, ![t].id = i]
  PROVE  \E r : Moved(t, r, x, call[t].op, i, call[t].res, call[t].page, call[t].gone, call[t].failed)
<1> DEFINE q == [call[t] EXCEPT !.pc = x]
           r == [q EXCEPT !.id = i]
<1>1. /\ q \in CallRec /\ q.pc = x /\ q.op = call[t].op /\ q.res = call[t].res
      /\ q.page = call[t].page /\ q.gone = call[t].gone /\ q.failed = call[t].failed
  BY DEF CallRec
<1>2. call' = [call EXCEPT ![t] = r]
  OBVIOUS
<1> HIDE DEF q
<1>3. /\ r \in CallRec /\ r.pc = q.pc /\ r.op = q.op /\ r.id = i /\ r.res = q.res
      /\ r.page = q.page /\ r.gone = q.gone /\ r.failed = q.failed
  BY <1>1 DEF CallRec
<1> QED
  BY <1>1, <1>2, <1>3 DEF Moved

LEMMA ReturnedTo ==
  ASSUME call \in [Tab -> CallRec], NEW t \in Tab, NEW x \in Pc, NEW p \in Shown, NEW f \in BOOLEAN,
         call' = [call EXCEPT ![t].pc = x, ![t].page = p, ![t].failed = f]
  PROVE  \E r : Moved(t, r, x, call[t].op, call[t].id, call[t].res, p, call[t].gone, f)
<1> DEFINE q == [call[t] EXCEPT !.pc = x]
           s == [q EXCEPT !.page = p]
           r == [s EXCEPT !.failed = f]
<1>1. /\ q \in CallRec /\ q.pc = x /\ q.op = call[t].op /\ q.id = call[t].id
      /\ q.res = call[t].res /\ q.gone = call[t].gone
  BY DEF CallRec
<1>2. call' = [call EXCEPT ![t] = r]
  OBVIOUS
<1> HIDE DEF q
<1>3. /\ s \in CallRec /\ s.pc = q.pc /\ s.op = q.op /\ s.id = q.id /\ s.res = q.res
      /\ s.page = p /\ s.gone = q.gone
  BY <1>1 DEF CallRec
<1> HIDE DEF s
<1>4. /\ r \in CallRec /\ r.pc = s.pc /\ r.op = s.op /\ r.id = s.id /\ r.res = s.res
      /\ r.page = s.page /\ r.gone = s.gone /\ r.failed = f
  BY <1>3 DEF CallRec
<1> QED
  BY <1>1, <1>2, <1>3, <1>4 DEF Moved

LEMMA BegunTo ==
  ASSUME call \in [Tab -> CallRec], NEW t \in Tab, NEW op \in {"create", "check", "delete"}, NEW i \in Id,
         Begins(t, op, i)
  PROVE  \E r : Moved(t, r, op, op, i, "none", "none", i \in ended, FALSE)
<1>1. PICK q \in CallRec : q = Nowhere
  BY NowhereIs
<1>2. /\ q.res = "none" /\ q.page = "none" /\ q.failed = FALSE
  BY <1>1, NowhereIs
<1> DEFINE q1 == [q EXCEPT !.pc = op]
           q2 == [q1 EXCEPT !.op = op]
           q3 == [q2 EXCEPT !.id = i]
           r == [q3 EXCEPT !.gone = i \in ended]
<1>3. /\ q1 \in CallRec /\ q1.pc = op /\ q1.res = "none" /\ q1.page = "none" /\ q1.failed = FALSE
  BY ONLY <1>2, q \in CallRec, op \in {"create", "check", "delete"} DEF CallRec, Pc
<1>4. call' = [call EXCEPT ![t] = r]
  BY <1>1 DEF Begins
<1>8. (i \in ended) \in BOOLEAN
  OBVIOUS
<1> HIDE DEF q1
<1>5. /\ q2 \in CallRec /\ q2.pc = op /\ q2.op = op /\ q2.res = "none" /\ q2.page = "none" /\ q2.failed = FALSE
  BY ONLY <1>3, op \in {"create", "check", "delete"} DEF CallRec
<1> HIDE DEF q2
<1>6. /\ q3 \in CallRec /\ q3.pc = op /\ q3.op = op /\ q3.id = i /\ q3.res = "none"
      /\ q3.page = "none" /\ q3.failed = FALSE
  BY ONLY <1>5, i \in Id DEF CallRec
<1> HIDE DEF q3
<1>7. /\ r \in CallRec /\ r.pc = op /\ r.op = op /\ r.id = i /\ r.res = "none" /\ r.page = "none"
      /\ r.failed = FALSE /\ r.gone = (i \in ended)
  <2>1. PICK g \in BOOLEAN : g = (i \in ended)
    BY <1>8
  <2>2. LET h == [q3 EXCEPT !.gone = g]
        IN  /\ h \in CallRec /\ h.pc = op /\ h.op = op /\ h.id = i /\ h.res = "none" /\ h.page = "none"
            /\ h.failed = FALSE /\ h.gone = g
    BY ONLY <1>6, g \in BOOLEAN DEF CallRec
  <2> QED
    BY ONLY <2>1, <2>2, Zenon
<1> QED
  BY <1>4, <1>7 DEF Moved

LEMMA AnsweredTo ==
  ASSUME call \in [Tab -> CallRec], NEW t \in Tab, NEW op \in {"create", "check", "delete"}, NEW p \in Shown,
         AnsweredAtOnce(t, op, p)
  PROVE  \E r : Moved(t, r, "idle", op, NoId, "none", p, FALSE, FALSE)
<1>1. PICK q \in CallRec : q = Nowhere
  BY NowhereIs
<1>2. /\ q.pc = "idle" /\ q.id = NoId /\ q.res = "none" /\ q.gone = FALSE /\ q.failed = FALSE
  BY <1>1, NowhereIs
<1> DEFINE q1 == [q EXCEPT !.op = op]
           r == [q1 EXCEPT !.page = p]
<1>3. /\ q1 \in CallRec /\ q1.pc = "idle" /\ q1.op = op /\ q1.id = NoId /\ q1.res = "none"
      /\ q1.gone = FALSE /\ q1.failed = FALSE
  BY ONLY <1>2, q \in CallRec, op \in {"create", "check", "delete"} DEF CallRec
<1>4. call' = [call EXCEPT ![t] = r]
  BY <1>1 DEF AnsweredAtOnce
<1> HIDE DEF q1
<1>5. /\ r \in CallRec /\ r.pc = "idle" /\ r.op = op /\ r.id = NoId /\ r.res = "none" /\ r.page = p
      /\ r.gone = FALSE /\ r.failed = FALSE
  BY ONLY <1>3, p \in Shown DEF CallRec
<1> QED
  BY <1>4, <1>5 DEF Moved

(* A call that goes on: the cookie and the script are as they were. *)
LEMMA Proceeds ==
  ASSUME CallsIInv, NEW t \in Tab, NEW r \in CallRec, call' = [call EXCEPT ![t] = r],
         UNCHANGED <<pair, cookie, done>>, CallAt(r), r.op = call[t].op, r.pc # "idle",
         StoreOK', LocksOK'
  PROVE  CallsIInv'
<1>1. PairOK' /\ call' \in [Tab -> CallRec] /\ cookie' \in [Browser -> Id] /\ done' \in [Tab -> Nat]
  BY DEF CallsIInv, PairOK, Manager, Frontend
<1>2. ASSUME NEW u \in Tab PROVE CallAt(call[u])' /\ Scripted(u)'
  <2>1. call'[u] = IF u = t THEN r ELSE call[u]
    BY DEF CallsIInv
  <2>2. CallAt(call[u]) /\ Scripted(u)
    BY DEF CallsIInv
  <2> QED
    BY <2>1, <2>2 DEF CallAt, Scripted, Manager, Frontend, Cookie
<1> QED
  BY <1>1, <1>2 DEF CallsIInv

(* It is not at the map, before or after. *)
LEMMA LocksAlone ==
  ASSUME CallsIInv, NEW t \in Tab, NEW r \in CallRec, call' = [call EXCEPT ![t] = r],
         call[t].pc \notin {"writing", "reading"}, UNCHANGED <<pair, smu, mapUse>>,
         "race" \in spoilt' => "race" \in spoilt
  PROVE  LocksOK'
<1>1. \A u \in Tab : call'[u] = IF u = t THEN r ELSE call[u]
  BY DEF CallsIInv
<1>2. LocksOK
  BY DEF CallsIInv
<1> QED
  BY <1>1, <1>2 DEF LocksOK, Manager

LEMMA DrawKeeps ==
  ASSUME CallsIInv, NEW t \in Tab, Draw(t) PROVE CallsIInv'
<1>0. /\ At(t, "create") /\ UNCHANGED <<pair, sessions, smu, mapUse, conn, cookie, done, ended, spoilt>>
      /\ call \in [Tab -> CallRec] /\ CallAt(call[t]) /\ StoreOK
  BY DEF Draw, CallsIInv
<1>1. PICK i \in SessionId :
        /\ call' = [call EXCEPT ![t].pc = IF Manager.store = "redis" THEN "do" ELSE "write", ![t].id = i]
        /\ drawn' = [drawn EXCEPT ![i] = @ \cup {Login(t)}]
        /\ again' = IF drawn[i] # {} THEN again \cup {i} ELSE again
  BY Zenon DEF Draw
<1>2. PICK x \in Pc : x = IF Manager.store = "redis" THEN "do" ELSE "write"
  BY DEF Pc
<1>3. i \in Id /\ i # NoId
  BY SessionsAssumption DEF Id
<1>4. PICK r : Moved(t, r, x, call[t].op, i, call[t].res, call[t].page, call[t].gone, call[t].failed)
  <2>1. call' = [call EXCEPT ![t].pc = x, ![t].id = i]
    BY <1>1, <1>2, Zenon
  <2> QED
    BY <1>0, <1>3, <2>1, DrawnTo, Zenon
<1>5. CallAt(r)
  BY <1>0, <1>2, <1>3, <1>4 DEF CallAt, At, Moved
<1>6. StoreOK'
  <2>1. Login(t) \in Browser
    BY DEF Login, Browser
  <2> QED
    BY <1>0, <1>1, <2>1 DEF StoreOK
<1>7. LocksOK'
  BY <1>0, <1>4, LocksAlone DEF At, Moved
<1> QED
  BY <1>0, <1>2, <1>4, <1>5, <1>6, <1>7, Proceeds DEF Moved, At, CallAt

LEMMA BeginWriteKeeps ==
  ASSUME CallsIInv, NEW t \in Tab, BeginWrite(t) PROVE CallsIInv'
<1>0. /\ Manager.store # "redis" /\ At(t, IF call[t].op = "delete" THEN "delete" ELSE "write")
      /\ Locks(t) => NobodyHolds
      /\ smu' = IF Locks(t) THEN [smu EXCEPT !.w = {t}] ELSE smu
      /\ Touches(mapUse.w \cup mapUse.r) /\ mapUse' = [mapUse EXCEPT !.w = @ \cup {t}]
      /\ Goes(t, "writing") /\ UNCHANGED <<pair, sessions, conn, cookie, done, drawn, again, ended>>
      /\ call \in [Tab -> CallRec] /\ CallAt(call[t]) /\ StoreOK /\ LocksOK /\ PairOK
  BY DEF BeginWrite, CallsIInv
<1>1. PICK r : Moved(t, r, "writing", call[t].op, call[t].id, call[t].res, call[t].page, call[t].gone, call[t].failed)
  <2>1. "writing" \in Pc
    BY DEF Pc
  <2> QED
    BY <1>0, <2>1, GoesTo, Zenon
<1>2. CallAt(r)
  BY <1>0, <1>1 DEF CallAt, At, Moved
<1>3. spoilt' \subseteq spoilt \cup {"race", "fatal"}
  BY <1>0 DEF Touches
<1>4. StoreOK'
  BY <1>0, <1>3 DEF StoreOK
<1>5. LocksOK'
  <2>1. \A u \in Tab : call'[u] = IF u = t THEN r ELSE call[u]
    BY <1>0, <1>1 DEF Moved
  <2>2. "race" \in spoilt' => Manager.store = "bare"
    <3>1. CASE Manager.store = "bare"
      BY <3>1
    <3>2. CASE Manager.store = "locked"
      <4>1. smu.w = {} /\ smu.r = {}
        BY <1>0, <3>2 DEF Locks, NobodyHolds
      <4>2. mapUse.w \cup mapUse.r = {}
        BY <1>0, <3>2, <4>1 DEF LocksOK
      <4> QED
        BY <1>0, <4>2 DEF Touches, LocksOK
    <3> QED
      BY <1>0, <3>1, <3>2 DEF PairOK
  <2>3. smu'.w \subseteq smu.w \cup {t} /\ smu'.r = smu.r /\ (smu'.r # {} => t \notin smu.r)
    BY <1>0 DEF LocksOK, NobodyHolds, At
  <2>4. smu' \in [w : SUBSET Tab, r : SUBSET Tab]
    BY <1>0 DEF LocksOK
  <2>5. /\ mapUse' \in [w : SUBSET Tab, r : SUBSET Tab]
        /\ mapUse'.w = mapUse.w \cup {t} /\ mapUse'.r = mapUse.r
    BY <1>0 DEF LocksOK
  <2>6. Manager.store = "locked" => mapUse'.w \subseteq smu'.w /\ mapUse'.r \subseteq smu'.r
    <3> SUFFICES ASSUME Manager.store = "locked" PROVE mapUse'.w \subseteq smu'.w /\ mapUse'.r \subseteq smu'.r
      OBVIOUS
    <3>1. smu.w = {} /\ smu.r = {} /\ smu'.w = {t}
      BY <1>0 DEF Locks, NobodyHolds, LocksOK
    <3> QED
      BY <1>0, <2>3, <2>5, <3>1 DEF LocksOK
  <2> QED
    BY <1>0, <1>1, <2>1, <2>2, <2>3, <2>4, <2>5, <2>6 DEF LocksOK, Manager, Moved
<1> QED
  BY <1>0, <1>1, <1>2, <1>4, <1>5, Proceeds DEF Moved

LEMMA EndWriteKeeps ==
  ASSUME CallsIInv, NEW t \in Tab, EndWrite(t) PROVE CallsIInv'
<1>0. /\ At(t, "writing") /\ (sessions' = Written(t) \/ UNCHANGED sessions) /\ ended' = EndedNow(t)
      /\ mapUse' = [mapUse EXCEPT !.w = @ \ {t}] /\ smu' = [smu EXCEPT !.w = Released(t)]
      /\ Executed(t, "ok") /\ UNCHANGED <<pair, conn, cookie, done, drawn, again, spoilt>>
      /\ call \in [Tab -> CallRec] /\ CallAt(call[t]) /\ StoreOK /\ LocksOK
  BY DEF EndWrite, CallsIInv
<1>1. PICK r : Moved(t, r, "reply", call[t].op, call[t].id, "ok", call[t].page, call[t].gone, call[t].failed)
  <2>1. "reply" \in Pc /\ "ok" \in Result
    BY DEF Pc, Result
  <2>2. call' = [call EXCEPT ![t].pc = "reply", ![t].res = "ok"]
    BY <1>0 DEF Executed
  <2> QED
    BY <1>0, <2>1, <2>2, ExecutedTo, Zenon
<1>2. CallAt(r)
  BY <1>0, <1>1 DEF CallAt, At, Moved
<1>3. call[t].id \in SessionId
  BY <1>0 DEF CallAt, At, CallRec, Id
<1>4. StoreOK'
  <2>1. Login(t) \in Browser
    BY DEF Login, Browser
  <2> QED
    BY <1>0, <1>3, <2>1 DEF StoreOK, Written, With, EndedNow
<1>5. LocksOK'
  <2>1. \A u \in Tab : call'[u] = IF u = t THEN r ELSE call[u]
    BY <1>0, <1>1 DEF Moved
  <2>2. /\ smu' \in [w : SUBSET Tab, r : SUBSET Tab] /\ smu'.w = smu.w \ {t} /\ smu'.r = smu.r
        /\ mapUse' \in [w : SUBSET Tab, r : SUBSET Tab] /\ mapUse'.w = mapUse.w \ {t} /\ mapUse'.r = mapUse.r
    BY <1>0 DEF LocksOK, Released
  <2>3. t \notin smu.r
    BY <1>0 DEF LocksOK, At
  <2> QED
    BY <1>0, <2>1, <2>2, <2>3 DEF LocksOK, Manager, Moved
<1> QED
  BY <1>0, <1>1, <1>2, <1>4, <1>5, Proceeds DEF Moved

LEMMA BeginReadKeeps ==
  ASSUME CallsIInv, NEW t \in Tab, BeginRead(t) PROVE CallsIInv'
<1>0. /\ Manager.store # "redis" /\ At(t, "check") /\ Manager.absent # StubLogin /\ smu.w = {}
      /\ smu' = [smu EXCEPT !.r = @ \cup {t}] /\ Touches(mapUse.w)
      /\ mapUse' = [mapUse EXCEPT !.r = @ \cup {t}]
      /\ call' = [call EXCEPT ![t].pc = "reading", ![t].res = Found(call[t].id)]
      /\ UNCHANGED <<pair, sessions, conn, cookie, done, drawn, again, ended>>
      /\ call \in [Tab -> CallRec] /\ CallAt(call[t]) /\ StoreOK /\ LocksOK /\ PairOK
  BY DEF BeginRead, CallsIInv
<1>1. call[t].id \in SessionId
  BY <1>0 DEF CallAt, At, CallRec, Id
<1>2. PICK a \in Result : a = Found(call[t].id) /\ a \notin {"ok", "none"}
  <2>1. sessions[call[t].id] \in Browser \cup {"none"} /\ "ok" \notin Browser
    BY <1>0, <1>1, SessionsAssumption DEF StoreOK, Word
  <2> QED
    BY <1>0, <2>1 DEF Found, Result, PairOK, EmptyLogin, StubLogin
<1>3. PICK r : Moved(t, r, "reading", call[t].op, call[t].id, a, call[t].page, call[t].gone, call[t].failed)
  <2>1. "reading" \in Pc
    BY DEF Pc
  <2>2. call' = [call EXCEPT ![t].pc = "reading", ![t].res = a]
    BY <1>0, <1>2, Zenon
  <2> QED
    BY <1>0, <2>1, <2>2, ExecutedTo, Zenon
<1>4. CallAt(r)
  BY <1>0, <1>2, <1>3 DEF CallAt, At, Moved
<1>5. spoilt' \subseteq spoilt \cup {"race", "fatal"}
  BY <1>0 DEF Touches
<1>6. StoreOK'
  BY <1>0, <1>5 DEF StoreOK
<1>7. LocksOK'
  <2>1. \A u \in Tab : call'[u] = IF u = t THEN r ELSE call[u]
    BY <1>0, <1>3 DEF Moved
  <2>2. "race" \in spoilt' => Manager.store = "bare"
    <3>1. CASE Manager.store = "bare"
      BY <3>1
    <3>2. CASE Manager.store = "locked"
      <4>1. mapUse.w = {}
        BY <1>0, <3>2 DEF LocksOK
      <4> QED
        BY <1>0, <4>1 DEF Touches, LocksOK
    <3> QED
      BY <1>0, <3>1, <3>2 DEF PairOK
  <2>3. /\ smu' \in [w : SUBSET Tab, r : SUBSET Tab] /\ smu'.w = smu.w /\ smu'.r = smu.r \cup {t}
        /\ mapUse' \in [w : SUBSET Tab, r : SUBSET Tab] /\ mapUse'.w = mapUse.w /\ mapUse'.r = mapUse.r \cup {t}
    BY <1>0 DEF LocksOK
  <2> QED
    BY <1>0, <1>3, <2>1, <2>2, <2>3 DEF LocksOK, Manager, Moved
<1> QED
  BY <1>0, <1>3, <1>4, <1>6, <1>7, Proceeds DEF Moved

LEMMA EndReadKeeps ==
  ASSUME CallsIInv, NEW t \in Tab, EndRead(t) PROVE CallsIInv'
<1>0. /\ At(t, "reading") /\ Goes(t, "reply")
      /\ mapUse' = [mapUse EXCEPT !.r = @ \ {t}] /\ smu' = [smu EXCEPT !.r = @ \ {t}]
      /\ UNCHANGED <<pair, sessions, conn, cookie, done, drawn, again, ended, spoilt>>
      /\ call \in [Tab -> CallRec] /\ CallAt(call[t]) /\ StoreOK /\ LocksOK
  BY DEF EndRead, CallsIInv
<1>1. PICK r : Moved(t, r, "reply", call[t].op, call[t].id, call[t].res, call[t].page, call[t].gone, call[t].failed)
  <2>1. "reply" \in Pc
    BY DEF Pc
  <2> QED
    BY <1>0, <2>1, GoesTo, Zenon
<1>2. CallAt(r)
  BY <1>0, <1>1 DEF CallAt, At, Moved
<1>3. StoreOK'
  BY <1>0 DEF StoreOK
<1>4. LocksOK'
  <2>1. \A u \in Tab : call'[u] = IF u = t THEN r ELSE call[u]
    BY <1>0, <1>1 DEF Moved
  <2>2. /\ smu' \in [w : SUBSET Tab, r : SUBSET Tab] /\ smu'.w = smu.w /\ smu'.r = smu.r \ {t}
        /\ mapUse' \in [w : SUBSET Tab, r : SUBSET Tab] /\ mapUse'.w = mapUse.w /\ mapUse'.r = mapUse.r \ {t}
    BY <1>0 DEF LocksOK
  <2>3. t \notin smu.w
    BY <1>0 DEF LocksOK, At
  <2> QED
    BY <1>0, <2>1, <2>2, <2>3 DEF LocksOK, Manager, Moved
<1> QED
  BY <1>0, <1>1, <1>2, <1>3, <1>4, Proceeds DEF Moved

LEMMA StubKeeps ==
  ASSUME CallsIInv, NEW t \in Tab, Stub(t) PROVE CallsIInv'
<1>0. /\ At(t, "check") /\ Manager.absent = StubLogin /\ Executed(t, StubLogin)
      /\ UNCHANGED <<pair, sessions, smu, mapUse, conn, cookie, done, drawn, again, ended, spoilt>>
      /\ call \in [Tab -> CallRec] /\ CallAt(call[t]) /\ StoreOK
  BY DEF Stub, CallsIInv
<1>1. PICK r : Moved(t, r, "reply", call[t].op, call[t].id, StubLogin, call[t].page, call[t].gone, call[t].failed)
  <2>1. "reply" \in Pc /\ StubLogin \in Result
    BY DEF Pc, Result
  <2>2. call' = [call EXCEPT ![t].pc = "reply", ![t].res = StubLogin]
    BY <1>0 DEF Executed
  <2> QED
    BY <1>0, <2>1, <2>2, ExecutedTo, Zenon
<1>2. CallAt(r)
  BY <1>0, <1>1 DEF CallAt, At, Moved, StubLogin
<1>3. StoreOK'
  BY <1>0 DEF StoreOK
<1>4. LocksOK'
  BY <1>0, <1>1, LocksAlone DEF At, Moved
<1> QED
  BY <1>0, <1>1, <1>2, <1>3, <1>4, Proceeds DEF Moved

LEMMA DoKeeps ==
  ASSUME CallsIInv, NEW t \in Tab, Do(t) PROVE CallsIInv'
<1>0. /\ Manager.store = "redis" /\ At(t, IF call[t].op = "create" THEN "do" ELSE call[t].op)
      /\ conn' = Append(conn, CASE call[t].op = "create" -> "ok"
                                [] call[t].op = "check" -> Found(call[t].id) [] OTHER -> "int")
      /\ sessions' = IF call[t].op = "check" THEN sessions ELSE Written(t)
      /\ ended' = IF call[t].op = "check" THEN ended ELSE EndedNow(t)
      /\ spoilt' = IF conn = <<>> THEN spoilt ELSE spoilt \cup {"mixed"}
      /\ Goes(t, "receive")
      /\ UNCHANGED <<pair, smu, mapUse, cookie, done, drawn, again>>
      /\ call \in [Tab -> CallRec] /\ CallAt(call[t]) /\ StoreOK /\ PairOK
  BY DEF Do, CallsIInv
<1>1. call[t].id \in SessionId /\ call[t].op \in {"create", "check", "delete"}
  BY <1>0 DEF CallAt, At, CallRec, Id
<1>2. PICK r : Moved(t, r, "receive", call[t].op, call[t].id, call[t].res, call[t].page, call[t].gone, call[t].failed)
  <2>1. "receive" \in Pc
    BY DEF Pc
  <2> QED
    BY <1>0, <2>1, GoesTo, Zenon
<1>3. CallAt(r)
  BY <1>0, <1>1, <1>2 DEF CallAt, At, Moved, PairOK, StubLogin
<1>4. StoreOK'
  <2>1. Login(t) \in Browser
    BY DEF Login, Browser
  <2>2. Found(call[t].id) \in OnConn
    BY <1>0, <1>1 DEF Found, StoreOK, OnConn, PairOK
  <2>3. PICK a \in OnConn : conn' = Append(conn, a)
    <3>1. "ok" \in OnConn /\ "int" \in OnConn
      BY DEF OnConn
    <3> QED
      BY <1>0, <1>1, <2>2, <3>1
  <2>4. conn' \in Seq(OnConn)
    BY <1>0, <2>3 DEF StoreOK
  <2>5. sessions' \in [SessionId -> Browser \cup {"none"}] /\ ended' \subseteq SessionId
    BY <1>0, <1>1, <2>1 DEF StoreOK, Written, With, EndedNow
  <2> QED
    BY <1>0, <2>4, <2>5 DEF StoreOK
<1>5. LocksOK'
  BY <1>0, <1>1, <1>2, LocksAlone DEF At, Moved
<1> QED
  BY <1>0, <1>2, <1>3, <1>4, <1>5, Proceeds DEF Moved

LEMMA UnderstoodIs ==
  ASSUME NEW op, NEW a \in OnConn
  PROVE  Understood(op, a) \in Result /\ (op = "check" => Understood(op, a) \notin {"ok", "none"})
<1>1. "none" \notin Browser /\ "ok" \notin Browser
  BY SessionsAssumption DEF Word
<1> QED
  BY <1>1 DEF Understood, Result, OnConn

LEMMA ReceiveKeeps ==
  ASSUME CallsIInv, NEW t \in Tab, Receive(t) PROVE CallsIInv'
<1>0. /\ At(t, "receive") /\ conn # <<>> /\ conn' = Tail(conn)
      /\ Executed(t, Understood(call[t].op, Head(conn)))
      /\ UNCHANGED <<pair, sessions, smu, mapUse, cookie, done, drawn, again, ended, spoilt>>
      /\ call \in [Tab -> CallRec] /\ CallAt(call[t]) /\ StoreOK /\ PairOK
  BY DEF Receive, CallsIInv
<1>1. Head(conn) \in OnConn /\ conn' \in Seq(OnConn)
  BY <1>0 DEF StoreOK
<1>2. PICK a \in Result :
        a = Understood(call[t].op, Head(conn)) /\ (call[t].op = "check" => a \notin {"ok", "none"})
  BY <1>1, UnderstoodIs
<1>3. PICK r : Moved(t, r, "reply", call[t].op, call[t].id, a, call[t].page, call[t].gone, call[t].failed)
  <2>1. "reply" \in Pc
    BY DEF Pc
  <2>2. call' = [call EXCEPT ![t].pc = "reply", ![t].res = a]
    BY <1>0, <1>2, Zenon DEF Executed
  <2> QED
    BY <1>0, <2>1, <2>2, ExecutedTo, Zenon
<1>4. CallAt(r)
  BY <1>0, <1>2, <1>3 DEF CallAt, At, Moved
<1>5. StoreOK'
  BY <1>0, <1>1 DEF StoreOK
<1>6. LocksOK'
  BY <1>0, <1>3, LocksAlone DEF At, Moved
<1> QED
  BY <1>0, <1>3, <1>4, <1>5, <1>6, Proceeds DEF Moved

LEMMA ExpireKeeps ==
  ASSUME CallsIInv, NEW i \in SessionId, Expire(i) PROVE CallsIInv'
BY DEF CallsIInv, Expire, PairOK, Manager, Frontend, StoreOK, With, LocksOK, CallAt, Scripted, Cookie

(* A call that begins or returns: nothing of the store changes. *)
LEMMA BeginsOrReturns ==
  ASSUME CallsIInv, NEW t \in Tab, NEW r \in CallRec, call' = [call EXCEPT ![t] = r],
         call[t].pc \notin {"writing", "reading"}, CallAt(r),
         UNCHANGED <<pair, sessions, smu, mapUse, conn, drawn, again, ended, spoilt>>,
         cookie' \in [Browser -> Id], done' \in [Tab -> Nat], \A u \in Tab : Scripted(u)'
  PROVE  CallsIInv'
<1>1. PairOK' /\ StoreOK' /\ call' \in [Tab -> CallRec]
  BY DEF CallsIInv, PairOK, StoreOK, Manager, Frontend
<1>2. LocksOK'
  BY LocksAlone
<1>3. ASSUME NEW u \in Tab PROVE CallAt(call[u])'
  BY DEF CallsIInv, CallAt, Manager
<1> QED
  BY <1>1, <1>2, <1>3 DEF CallsIInv

LEMMA RequestKeeps ==
  ASSUME CallsIInv, NEW t \in Tab, Request(t) PROVE CallsIInv'
<1>0. /\ At(t, "idle")
      /\ UNCHANGED <<pair, sessions, smu, mapUse, conn, cookie, drawn, again, ended, spoilt>>
      /\ call \in [Tab -> CallRec] /\ cookie \in [Browser -> Id] /\ done \in [Tab -> Nat] /\ PairOK
      /\ Cookie(t) \in Id /\ \A u \in Tab : Scripted(u)
  BY DEF Request, CallsIInv, Cookie, Browser
<1>1. {"form", "401", "redirect"} \subseteq Shown /\ NoId \in Id /\ NoId \notin SessionId
  BY SessionsAssumption DEF Shown, Id
<1>2. CASE /\ Frontend.web /\ (innerPage(t) \/ loginPage(t) \/ logoutPage(t))
           /\ UNCHANGED done
  <2>1. PICK r : /\ \/ \E op \in {"create", "check", "delete"}, p \in {"form", "401", "redirect"} :
                         Moved(t, r, "idle", op, NoId, "none", p, FALSE, FALSE)
                    \/ \E op \in {"create", "check", "delete"}, i \in Id :
                         /\ Moved(t, r, op, op, i, "none", "none", i \in ended, FALSE)
                         /\ i = NoId <=> op = "create"
    <3>1. CASE AnsweredAtOnce(t, "check", "form")
      BY <1>0, <1>1, <3>1, AnsweredTo
    <3>2. CASE AnsweredAtOnce(t, "create", "401")
      BY <1>0, <1>1, <3>2, AnsweredTo
    <3>3. CASE AnsweredAtOnce(t, "delete", "redirect")
      BY <1>0, <1>1, <3>3, AnsweredTo
    <3>4. CASE Cookie(t) # NoId /\ Begins(t, "check", Cookie(t))
      BY <1>0, <1>1, <3>4, BegunTo
    <3>5. CASE Begins(t, "create", NoId)
      BY <1>0, <1>1, <3>5, BegunTo
    <3>6. CASE Cookie(t) # NoId /\ Begins(t, "delete", Cookie(t))
      BY <1>0, <1>1, <3>6, BegunTo
    <3> QED
      BY <1>2, <3>1, <3>2, <3>3, <3>4, <3>5, <3>6 DEF innerPage, loginPage, logoutPage
  <2>2. CallAt(r) /\ r \in CallRec /\ call' = [call EXCEPT ![t] = r]
    BY <1>0, <1>2, <2>1 DEF CallAt, Moved, PairOK
  <2>3. \A u \in Tab : Scripted(u)'
    BY <1>0, <1>2 DEF Scripted, Manager, Frontend
  <2> QED
    BY <1>0, <1>2, <2>2, <2>3, BeginsOrReturns DEF At
<1>3. CASE ~Frontend.web
  <2>1. /\ done[t] < Len(Frontend.script)
        /\ done' = [done EXCEPT ![t] = @ + 1]
    BY <1>3 DEF Request
  <2>2. PICK i \in IF Cookie(t) = NoId THEN SessionId ELSE {Cookie(t)} :
          Begins(t, Frontend.script[done[t] + 1],
                 IF Frontend.script[done[t] + 1] = "create" THEN NoId ELSE i)
    BY <1>3, Zenon DEF Request
  <2>3. PICK n \in Nat : n = done[t]
    BY <1>0
  <2>4. PICK op \in {"create", "check", "delete"} :
          /\ op = Frontend.script[done[t] + 1]
          /\ op = "create" <=> n = 0 /\ Manager.absent # StubLogin
          /\ Manager.absent = StubLogin => op = "check"
    <3>1. CASE Manager.absent = StubLogin
      <4>1. Frontend.script = <<"check", "check">>
        BY <1>0, <1>3, <3>1 DEF PairOK
      <4>2. n + 1 \in {1, 2}
        BY <2>1, <2>3, <4>1
      <4> QED
        BY <2>3, <3>1, <4>1, <4>2
    <3>2. CASE Manager.absent # StubLogin
      <4>1. Frontend.script = <<"create", "check", "delete", "check">>
        BY <1>0, <1>3, <3>2 DEF PairOK, FourCalls
      <4>2. n + 1 \in {1, 2, 3, 4} /\ (n + 1 = 1 <=> n = 0)
        BY <2>1, <2>3, <4>1
      <4> QED
        BY <2>3, <3>2, <4>1, <4>2
    <3> QED
      BY <3>1, <3>2
  <2>5. i \in SessionId
    BY <1>0, <2>2 DEF Id
  <2>6. PICK j \in Id : j = (IF op = "create" THEN NoId ELSE i) /\ Begins(t, op, j)
    BY <2>2, <2>4, <2>5, Zenon DEF Id
  <2>7. PICK r : Moved(t, r, op, op, j, "none", "none", j \in ended, FALSE)
    BY <1>0, <2>6, BegunTo, Zenon
  <2>8. CallAt(r)
    BY <1>1, <2>4, <2>5, <2>6, <2>7 DEF CallAt, Moved
  <2>9. ASSUME NEW u \in Tab PROVE Scripted(u)'
    <3>1. CASE u # t
      BY <1>0, <2>1, <2>7, <3>1 DEF Scripted, Manager, Frontend, Moved, Cookie
    <3>2. CASE u = t /\ Manager.absent # StubLogin
      <4>1. call'[t] = r
        BY <1>0, <2>7 DEF Moved
      <4>2. CASE n = 0
        BY <2>4, <2>7, <3>2, <4>1, <4>2 DEF Scripted, Moved
      <4>3. CASE n # 0
        <5>1. Scripted(t) /\ n > 0
          BY <1>0, <2>3, <4>3
        <5> QED
          BY <1>0, <1>3, <2>3, <3>2, <5>1 DEF Scripted, At, Cookie
      <4> QED
        BY <4>2, <4>3
    <3>3. CASE u = t /\ Manager.absent = StubLogin
      BY <1>0, <3>3 DEF Scripted, Manager
    <3> QED
      BY <3>1, <3>2, <3>3
  <2>10. done' \in [Tab -> Nat]
    BY <1>0, <2>1
  <2> QED
    BY <1>0, <2>7, <2>8, <2>9, <2>10, BeginsOrReturns DEF At, Moved
<1>4. Frontend.web => ~(done[t] < Len(Frontend.script))
  BY <1>0 DEF PairOK
<1>5. \/ /\ Frontend.web /\ (innerPage(t) \/ loginPage(t) \/ logoutPage(t))
         /\ UNCHANGED done
      \/ done[t] < Len(Frontend.script)
  BY Zenon DEF Request
<1> QED
  BY <1>2, <1>3, <1>4, <1>5

LEMMA PageIs ==
  ASSUME PairOK, NEW op \in {"create", "check", "delete"}, NEW res \in Result,
         op = "check" => res \notin {"ok", "none"}
  PROVE  /\ Page(op, res) \in Shown
         /\ Page(op, res) = "panic" => op = "create" /\ res # "ok" /\ Manager.store # "redis"
         /\ op = "create" /\ res # "ok" /\ ~Frontend.web => Page(op, res) = "panic"
<1>1. "panic" \notin Browser
  BY SessionsAssumption DEF Word
<1>2. CASE op = "create"
  BY <1>2 DEF Page, Shown, PairOK
<1>3. CASE op = "check"
  BY <1>1, <1>3 DEF Page, Shown, PairOK, Result, EmptyLogin, StubLogin
<1>4. CASE op = "delete"
  BY <1>4 DEF Page, Shown
<1> QED
  BY <1>2, <1>3, <1>4

LEMMA ReturnsKeeps ==
  ASSUME CallsIInv, NEW t \in Tab, NEW res \in Result, NEW f \in BOOLEAN, Returns(t, res, f),
         call[t].pc \in {"create", "check", "delete", "reply"},
         call[t].op = "check" => res \notin {"ok", "none"},
         call[t].op = "create" /\ Manager.store # "redis" => f \/ res = "ok",
         call[t].op = "create" /\ res = "ok" => call[t].pc = "reply",
         UNCHANGED <<pair, sessions, smu, mapUse, conn, done, drawn, again, ended, spoilt>>
  PROVE  CallsIInv'
<1>0. /\ call \in [Tab -> CallRec] /\ cookie \in [Browser -> Id] /\ done \in [Tab -> Nat]
      /\ PairOK /\ CallAt(call[t]) /\ \A u \in Tab : Scripted(u)
  BY DEF CallsIInv
<1>1. call[t].op \in {"create", "check", "delete"} /\ call[t].id \in Id
  BY <1>0 DEF CallAt, CallRec
<1>2. PICK p \in Shown :
        /\ p = Page(call[t].op, res)
        /\ p = "panic" => call[t].op = "create" /\ f
        /\ call[t].op = "create" /\ res # "ok" /\ ~Frontend.web => p = "panic"
  BY <1>0, <1>1, PageIs
<1>3. PICK x \in Pc : x = IF p = "panic" /\ ~Frontend.web THEN "panic" ELSE "idle"
  BY DEF Pc
<1>4. PICK r : Moved(t, r, x, call[t].op, call[t].id, call[t].res, p, call[t].gone, f)
  <2>1. call' = [call EXCEPT ![t].pc = x, ![t].page = p, ![t].failed = f]
    BY <1>2, <1>3, Zenon DEF Returns
  <2> QED
    BY <1>0, <2>1, ReturnedTo, Zenon
<1>5. CallAt(r)
  BY <1>0, <1>1, <1>2, <1>3, <1>4 DEF CallAt, Moved, PairOK
<1>6. /\ call[t].op = "create" /\ res = "ok" =>
           cookie' = [cookie EXCEPT ![BrowserOf[t]] = call[t].id] /\ call[t].id # NoId
      /\ call[t].op = "delete" /\ Frontend.web => cookie' = [cookie EXCEPT ![BrowserOf[t]] = NoId]
      /\ (call[t].op = "create" => res # "ok") /\ (call[t].op = "delete" => ~Frontend.web) => cookie' = cookie
  BY <1>0, <1>1 DEF Returns, NewCookie, CallAt
<1>7. cookie' \in [Browser -> Id]
  BY <1>0, <1>1, <1>6 DEF Id, Browser
<1>8. ASSUME NEW u \in Tab PROVE Scripted(u)'
  <2>1. SUFFICES ASSUME ~Frontend.web, Manager.absent # StubLogin, done[u] > 0
                 PROVE  cookie'[BrowserOf[u]] # NoId \/ (call'[u].op = "create" /\ call'[u].pc # "idle")
    BY DEF Scripted, Manager, Frontend, Cookie
  <2>2. call'[u] = IF u = t THEN r ELSE call[u]
    BY <1>0, <1>4 DEF Moved
  <2>3. cookie[BrowserOf[u]] # NoId \/ (call[u].op = "create" /\ call[u].pc # "idle")
    BY <1>0, <2>1 DEF Scripted, Cookie
  <2>4. BrowserOf[u] \in Browser /\ BrowserOf[t] \in Browser
    BY DEF Browser
  <2>5. CASE cookie[BrowserOf[u]] # NoId
    BY <1>0, <1>6, <2>1, <2>4, <2>5
  <2>6. CASE u # t
    BY <2>2, <2>3, <2>5, <2>6
  <2>7. CASE u = t /\ call[t].op = "create"
    BY <1>0, <1>2, <1>3, <1>4, <1>6, <2>1, <2>2, <2>4, <2>7 DEF Moved
  <2> QED
    BY <2>3, <2>5, <2>6, <2>7
<1> QED
  BY <1>0, <1>4, <1>5, <1>7, <1>8, BeginsOrReturns DEF Moved

LEMMA ReplyKeeps ==
  ASSUME CallsIInv, NEW t \in Tab, Reply(t) PROVE CallsIInv'
<1>1. /\ At(t, "reply") /\ Returns(t, call[t].res, FALSE)
      /\ UNCHANGED <<pair, sessions, smu, mapUse, conn, done, drawn, again, ended, spoilt>>
      /\ CallAt(call[t]) /\ call[t] \in CallRec
  BY DEF Reply, CallsIInv
<1>2. /\ call[t].op = "check" => call[t].res \notin {"ok", "none"}
      /\ call[t].op = "create" /\ Manager.store # "redis" => call[t].res = "ok"
  BY <1>1 DEF At, CallAt
<1>3. PICK a \in Result : a = call[t].res
  BY <1>1 DEF CallRec
<1> QED
  BY <1>1, <1>2, <1>3, ReturnsKeeps DEF At

LEMMA CallFailsKeeps ==
  ASSUME CallsIInv, NEW t \in Tab, CallFails(t) PROVE CallsIInv'
<1>1. /\ Returns(t, "error", TRUE) /\ call[t].pc \in {"create", "check", "delete", "reply"}
      /\ UNCHANGED <<pair, sessions, smu, mapUse, conn, done, drawn, again, ended, spoilt>>
  BY DEF CallFails
<1>2. PICK a \in Result : a = "error"
  BY DEF Result
<1>3. a \notin {"ok", "none"} /\ Returns(t, a, TRUE)
  BY <1>1, <1>2
<1> QED
  BY <1>1, <1>3, ReturnsKeeps

LEMMA InitCallsIInv == SessionsInit => CallsIInv
<1> SUFFICES ASSUME SessionsInit PROVE CallsIInv
  OBVIOUS
<1>1. PairOK
  BY PairIs DEF SessionsInit
<1>2. StoreOK
  BY DEF SessionsInit, StoreOK
<1>3. call \in [Tab -> CallRec] /\ \A t \in Tab : call[t] = Nowhere
  BY NowhereIs DEF SessionsInit
<1>4. LocksOK
  BY DEF SessionsInit, LocksOK
<1>5. cookie \in [Browser -> Id] /\ done \in [Tab -> Nat] /\ \A t \in Tab : done[t] = 0
  BY DEF SessionsInit, Id
<1>6. ASSUME NEW t \in Tab PROVE CallAt(call[t]) /\ Scripted(t)
  BY <1>3, <1>5, NowhereIs DEF CallAt, Scripted
<1> QED
  BY <1>1, <1>2, <1>3, <1>4, <1>5, <1>6 DEF CallsIInv

LEMMA NextCallsIInv == CallsIInv /\ [SessionsNext]_sessionVars => CallsIInv'
<1> SUFFICES ASSUME CallsIInv, [SessionsNext]_sessionVars PROVE CallsIInv'
  OBVIOUS
<1>1. CASE UNCHANGED sessionVars
  BY <1>1 DEF sessionVars, CallsIInv, PairOK, Manager, Frontend, StoreOK, LocksOK, CallAt, Scripted, Cookie
<1>2. CASE SessionsNext
  <2>1. ASSUME NEW t \in Tab, Request(t) \/ SessionStep(t) \/ CallFails(t) PROVE CallsIInv'
    BY <2>1, RequestKeeps, DrawKeeps, BeginWriteKeeps, EndWriteKeeps, BeginReadKeeps, EndReadKeeps,
       StubKeeps, DoKeeps, ReceiveKeeps, ReplyKeeps, CallFailsKeeps DEF SessionStep
  <2>2. ASSUME NEW i \in SessionId, Expire(i) PROVE CallsIInv'
    BY <2>2, ExpireKeeps
  <2> QED
    BY <1>2, <2>1, <2>2 DEF SessionsNext
<1> QED
  BY <1>1, <1>2

LEMMA WhatHasACause == CallsIInv => FailuresExplained
BY DEF CallsIInv, LocksOK, CallAt, FailuresExplained, RaceNeedsBareStore, PanicNeedsFailure, NoLockLeft

(* The session managers and their clients: whichever calls fail, and in    *)
(* whatever order requests meet at the map, it is touched by two at once   *)
(* only where the store is outside the mutex; a request panics only when   *)
(* its own call has failed; and no request leaves the mutex held.          *)
THEOREM TheFailuresAreExplained == SessionsSpec => []FailuresExplained
BY InitCallsIInv, NextCallsIInv, WhatHasACause, PTL DEF SessionsSpec

(* What an answer or a call says stays true while the store grows. *)
LEMMA FitsOn ==
  ASSUME Grown, NEW r \in CallRec, r.id # NoId, NEW a, Fits(r, a) PROVE Fits(r, a)'
<1>1. r.id \in SessionId
  BY DEF CallRec, Id
<1>2. /\ drawn[r.id] \subseteq drawn'[r.id] /\ (Gone(r.id) => Gone(r.id)')
      /\ again \subseteq again' /\ spoilt \subseteq spoilt' /\ pair' = pair
  BY <1>1 DEF Grown
<1> QED
  BY <1>2 DEF Fits, Manager

LEMMA CallIsOn ==
  ASSUME Grown, NEW t \in Tab, NEW r \in CallRec, CallAt(r), CallIs(t, r) PROVE CallIs(t, r)'
<1>1. CASE r.id = NoId
  BY <1>1 DEF CallIs, CallAt, Making
<1>2. CASE r.id # NoId
  <2>1. r.id \in SessionId
    BY <1>2 DEF CallRec, Id
  <2>2. /\ drawn[r.id] \subseteq drawn'[r.id] /\ (Gone(r.id) => Gone(r.id)') /\ (Live(r.id) => Live(r.id)')
        /\ again \subseteq again' /\ spoilt \subseteq spoilt' /\ Manager' = Manager
    BY <2>1 DEF Grown, Manager
  <2>3. /\ r.id # NoId /\ Manager.absent # StubLogin => drawn[r.id] # {}
        /\ Making(r) => Login(t) \in drawn[r.id]
        /\ ~Making(r) /\ r.id # NoId /\ Manager.absent # StubLogin => Live(r.id)
        /\ r.gone => r.id # NoId /\ Gone(r.id)
    BY DEF CallIs
  <2>4. r.op = "check" /\ r.pc \in {"reading", "reply"} => Fits(r, r.res)'
    BY <1>2, FitsOn DEF CallIs
  <2>5. r.op = "check" /\ r.pc = "idle" /\ r.id # NoId =>
          /\ r.page \in Browser => r.page \in drawn'[r.id] \/ "mixed" \in spoilt'
          /\ r.page \in Browser /\ r.gone => r.id \in again' \/ spoilt' # {}
          /\ r.page \in {EmptyLogin, StubLogin} => Manager.absent = r.page
          /\ r.page \notin Browser /\ Manager.absent # StubLogin => r.failed \/ Gone(r.id)' \/ spoilt' # {}
    BY <2>2 DEF CallIs
  <2> HIDE DEF Gone, Live, Fits
  <2> QED
    BY <2>2, <2>3, <2>4, <2>5 DEF CallIs
<1> QED
  BY <1>1, <1>2

(* The step of one call, others going on as they were. *)
LEMMA CallsOn ==
  ASSUME CallsIInv, SessionsIInv, NEW t \in Tab, NEW r \in CallRec, call' = [call EXCEPT ![t] = r],
         Grown, CallIs(t, r)'
  PROVE  \A u \in Tab : CallIs(u, call[u])'
<1> TAKE u \in Tab
<1>1. CASE u = t
  <2>1. call'[u] = r
    BY <1>1 DEF CallsIInv
  <2> QED
    BY <1>1, <2>1 DEF CallIs, Making, Fits, Gone, Live
<1>2. CASE u # t
  <2>1. PICK q \in CallRec : q = call[u] /\ q = call'[u]
    BY <1>2 DEF CallsIInv
  <2>2. CallAt(q) /\ CallIs(u, q)
    BY <2>1 DEF CallsIInv, SessionsIInv
  <2>3. CallIs(u, q)'
    BY <2>2, CallIsOn
  <2> QED
    BY <2>1, <2>3 DEF CallIs, Making, Fits, Gone, Live
<1> QED
  BY <1>1, <1>2

LEMMA UnwrittenOn ==
  ASSUME CallsIInv, SessionsIInv, NEW t \in Tab, NEW r \in CallRec, call' = [call EXCEPT ![t] = r],
         again \subseteq again', Making(r) => Making(call[t]) /\ r.id = call[t].id,
         r.id \in {call[t].id, NoId} \/ \E b \in Browser : r.id = cookie[b],
         \A b \in Browser : \/ cookie'[b] \in {cookie[b], NoId}
                            \/ cookie'[b] = call[t].id /\ ~Making(call[t]),
         \A i \in SessionId : \/ sessions'[i] = sessions[i] /\ (i \in ended' => i \in ended)
                              \/ i = call[t].id /\ ~Making(r)
  PROVE  \A u \in Tab : Unwritten(u)'
<1> SUFFICES ASSUME NEW u \in Tab, Making(call'[u]), call'[u].id \notin again'
             PROVE  /\ sessions'[call'[u].id] = "none" /\ call'[u].id \notin ended'
                    /\ \A b \in Browser : cookie'[b] # call'[u].id
                    /\ \A v \in Tab \ {u} : call'[v].id # call'[u].id
  BY DEF Unwritten, Making
<1>1. \A v \in Tab : call'[v] = IF v = t THEN r ELSE call[v]
  BY DEF CallsIInv
<1>2. PICK i \in SessionId : i = call[u].id /\ i = call'[u].id /\ i \notin again /\ Making(call[u])
  <2>1. Making(call[u]) /\ call'[u].id = call[u].id
    BY <1>1
  <2>2. call[u].id # NoId /\ call[u].id \in Id
    BY <2>1 DEF CallsIInv, CallAt, Making, CallRec
  <2> QED
    BY <2>1, <2>2 DEF Id
<1>3. /\ sessions[i] = "none" /\ i \notin ended /\ \A b \in Browser : cookie[b] # i
      /\ \A v \in Tab \ {u} : call[v].id # i
  BY <1>2 DEF SessionsIInv, Unwritten
<1>4. NoId # i
  BY SessionsAssumption
<1>5. i # call[t].id \/ (u = t /\ Making(r) /\ Making(call[t]))
  BY <1>1, <1>3
<1>6. sessions'[i] = "none" /\ i \notin ended'
  BY <1>3, <1>5
<1>7. \A b \in Browser : cookie'[b] # i
  BY <1>3, <1>4, <1>5
<1>8. \A v \in Tab \ {u} : call'[v].id # i
  BY <1>1, <1>3, <1>4, <1>5
<1> QED
  BY <1>2, <1>6, <1>7, <1>8

(* Whoever waits for redis waits on. *)
LEMMA TurnAlone ==
  ASSUME CallsIInv, SessionsIInv, Grown, NEW t \in Tab, NEW r \in CallRec,
         call' = [call EXCEPT ![t] = r], conn' = conn, call[t].pc # "receive", r.pc # "receive"
  PROVE  "mixed" \notin spoilt' => InTurn'
<1> SUFFICES ASSUME "mixed" \notin spoilt' PROVE InTurn'
  OBVIOUS
<1>1. InTurn
  BY DEF Grown, SessionsIInv
<1>2. \A v \in Tab : call'[v] = IF v = t THEN r ELSE call[v]
  BY DEF CallsIInv
<1>3. CASE conn = <<>> /\ \A u \in Tab : call[u].pc # "receive"
  BY <1>2, <1>3 DEF InTurn
<1>4. CASE \E u \in Tab, a \in OnConn :
             /\ conn = <<a>> /\ call[u].pc = "receive" /\ Answers(call[u], a)
             /\ \A v \in Tab : call[v].pc = "receive" => v = u
  <2>1. PICK u \in Tab, a \in OnConn :
          /\ conn = <<a>> /\ call[u].pc = "receive" /\ Answers(call[u], a)
          /\ \A v \in Tab : call[v].pc = "receive" => v = u
    BY <1>4
  <2>2. PICK q \in CallRec : q = call[u] /\ q = call'[u] /\ q.id # NoId
    BY <1>2, <2>1 DEF CallsIInv, CallAt
  <2>3. q.op = "check" => Fits(q, a)'
    BY <2>1, <2>2, FitsOn DEF Answers
  <2>4. Answers(q, a)'
    BY <2>1, <2>2, <2>3 DEF Answers
  <2>5. Answers(call[u], a)'
    BY <2>2, <2>4 DEF Answers, Fits, Gone
  <2>6. \A v \in Tab : call'[v].pc = "receive" => v = u
    BY <1>2, <2>1
  <2> QED
    BY <2>1, <2>2, <2>5, <2>6 DEF InTurn
<1> QED
  BY <1>1, <1>3, <1>4 DEF InTurn

LEMMA CookiesOn ==
  ASSUME CallsIInv, SessionsIInv, Grown, UNCHANGED cookie PROVE CookiesOK'
<1> SUFFICES ASSUME NEW b \in Browser, cookie[b] # NoId
             PROVE  drawn'[cookie[b]] # {} /\ Live(cookie[b])'
  BY DEF CookiesOK, Live, Gone
<1>1. PICK i \in SessionId : i = cookie[b]
  BY DEF CallsIInv, Id
<1>2. drawn[i] # {} /\ Live(i)
  BY <1>1 DEF SessionsIInv, CookiesOK
<1>3. drawn'[i] # {} /\ Live(i)'
  BY <1>2 DEF Grown
<1> QED
  BY <1>1, <1>3 DEF Live, Gone

LEMMA SameIsGrown ==
  ASSUME UNCHANGED <<pair, sessions, drawn, again, ended>>, spoilt \subseteq spoilt', SessionsIInv
  PROVE  Grown /\ IdsOK'
<1>1. Grown
  BY DEF Grown, Gone, Live
<1>2. IdsOK
  BY DEF SessionsIInv
<1>3. spoilt' = {} => spoilt = {}
  OBVIOUS
<1> QED
  BY <1>1, <1>2, <1>3 DEF IdsOK, Gone, Manager

(* A step of a call that leaves the store, the cookies and its id alone.   *)
LEMMA QuietKeeps ==
  ASSUME CallsIInv, SessionsIInv, NEW t \in Tab, NEW r \in CallRec, call' = [call EXCEPT ![t] = r],
         UNCHANGED <<pair, sessions, cookie, drawn, again, ended>>, spoilt \subseteq spoilt',
         r.id = call[t].id, Making(r) => Making(call[t]), CallIs(t, r)',
         "mixed" \notin spoilt' => InTurn'
  PROVE  SessionsIInv'
<1>1. Grown /\ IdsOK'
  BY SameIsGrown
<1>2. \A u \in Tab : CallIs(u, call[u])'
  BY <1>1, CallsOn
<1>3. \A u \in Tab : Unwritten(u)'
  BY UnwrittenOn
<1>4. CookiesOK'
  BY <1>1, CookiesOn
<1> QED
  BY <1>1, <1>2, <1>3, <1>4 DEF SessionsIInv

LEMMA FoundFits ==
  ASSUME CallsIInv, SessionsIInv, NEW t \in Tab, At(t, "check"), Manager.absent # StubLogin,
         NEW r \in CallRec, r.id = call[t].id, r.gone = call[t].gone
  PROVE  Fits(r, Found(call[t].id))
<1>1. PICK q \in CallRec : q = call[t] /\ q.pc = "check" /\ q.op = "check" /\ q.id # NoId
  BY DEF CallsIInv, CallAt, At
<1>2. PICK i \in SessionId : i = q.id
  BY <1>1 DEF CallRec, Id
<1>3. CallIs(t, q) /\ PairOK /\ sessions[i] \in Browser \cup {"none"}
  BY <1>1, <1>2 DEF SessionsIInv, CallsIInv, StoreOK
<1>4. /\ sessions[i] # "none" => sessions[i] \in drawn[i]
      /\ i \in ended \ again /\ spoilt = {} => sessions[i] = "none"
  BY DEF SessionsIInv, IdsOK
<1>5. Live(i) /\ (r.gone => Gone(i))
  BY <1>1, <1>2, <1>3 DEF CallIs, Making
<1>6. Manager.absent \notin Browser /\ EmptyLogin \notin Browser /\ StubLogin \notin Browser
  BY <1>3, SessionsAssumption DEF PairOK, Word
<1>7. CASE sessions[i] = "none"
  <2>1. Found(i) = Manager.absent
    BY <1>7 DEF Found
  <2>2. Gone(i) \/ spoilt # {}
    BY <1>5, <1>7 DEF Live
  <2> QED
    BY <1>1, <1>2, <1>3, <1>6, <2>1, <2>2 DEF Fits, PairOK
<1>8. CASE sessions[i] # "none"
  <2>1. Found(i) = sessions[i] /\ Found(i) \in Browser
    BY <1>3, <1>8 DEF Found
  <2>2. r.gone => i \in again \/ spoilt # {}
    BY <1>4, <1>5, <1>8 DEF Gone
  <2> QED
    BY <1>1, <1>2, <1>4, <1>6, <1>8, <2>1, <2>2 DEF Fits
<1> QED
  BY <1>7, <1>8

LEMMA BeginWriteStays ==
  ASSUME CallsIInv, SessionsIInv, NEW t \in Tab, BeginWrite(t) PROVE SessionsIInv'
<1>0. /\ At(t, IF call[t].op = "delete" THEN "delete" ELSE "write")
      /\ Touches(mapUse.w \cup mapUse.r)
      /\ Goes(t, "writing") /\ UNCHANGED <<pair, sessions, conn, cookie, drawn, again, ended>>
      /\ call \in [Tab -> CallRec] /\ CallAt(call[t]) /\ CallIs(t, call[t])
  BY DEF BeginWrite, CallsIInv, SessionsIInv
<1>1. PICK r : Moved(t, r, "writing", call[t].op, call[t].id, call[t].res, call[t].page, call[t].gone, call[t].failed)
  <2>1. "writing" \in Pc
    BY DEF Pc
  <2> QED
    BY <1>0, <2>1, GoesTo, Zenon
<1>2. spoilt \subseteq spoilt'
  BY <1>0 DEF Touches
<1>3. Grown
  BY <1>0, <1>2, SameIsGrown
<1>4. (Making(r) <=> Making(call[t])) /\ r.op # "check" /\ CallAt(r)
  BY <1>0, <1>1 DEF Making, At, CallAt, Moved, BeginWrite
<1>5. CallIs(t, r)
  BY <1>0, <1>1, <1>4 DEF CallIs, Moved
<1>6. CallIs(t, r)'
  BY <1>1, <1>3, <1>4, <1>5, CallIsOn DEF Moved
<1>7. "mixed" \notin spoilt' => InTurn'
  BY <1>0, <1>1, <1>3, TurnAlone DEF Moved, At
<1> QED
  BY <1>0, <1>1, <1>2, <1>4, <1>6, <1>7, QuietKeeps DEF Moved

LEMMA BeginReadStays ==
  ASSUME CallsIInv, SessionsIInv, NEW t \in Tab, BeginRead(t) PROVE SessionsIInv'
<1>0. /\ At(t, "check") /\ Manager.absent # StubLogin /\ Manager.store # "redis"
      /\ Touches(mapUse.w) /\ call' = [call EXCEPT ![t].pc = "reading", ![t].res = Found(call[t].id)]
      /\ UNCHANGED <<pair, sessions, conn, cookie, drawn, again, ended>>
      /\ call \in [Tab -> CallRec] /\ CallAt(call[t]) /\ CallIs(t, call[t])
  BY DEF BeginRead, CallsIInv, SessionsIInv
<1>1. PICK a \in Result : a = Found(call[t].id)
  <2>1. call[t].id \in SessionId
    BY <1>0 DEF CallAt, At, CallRec, Id
  <2> QED
    BY <2>1 DEF Found, Result, CallsIInv, PairOK, StoreOK
<1>2. PICK r : Moved(t, r, "reading", call[t].op, call[t].id, a, call[t].page, call[t].gone, call[t].failed)
  <2>1. "reading" \in Pc
    BY DEF Pc
  <2>2. call' = [call EXCEPT ![t].pc = "reading", ![t].res = a]
    BY <1>0, <1>1, Zenon
  <2> QED
    BY <1>0, <2>1, <2>2, ExecutedTo, Zenon
<1>3. spoilt \subseteq spoilt'
  BY <1>0 DEF Touches
<1>4. Grown
  BY <1>0, <1>3, SameIsGrown
<1>5. Fits(r, a)
  BY <1>0, <1>1, <1>2, FoundFits DEF Moved
<1>6. r.op = "check" /\ r.id # NoId /\ ~Making(r) /\ ~Making(call[t])
  BY <1>0, <1>2 DEF Moved, At, CallAt, Making
<1>7. CallIs(t, r)
  BY <1>0, <1>2, <1>5, <1>6 DEF CallIs, Moved
<1>8. CallIs(t, r)'
  <2>1. CallAt(r)
    <3>1. a \notin {"ok", "none"}
      BY <1>5, SessionsAssumption DEF Fits, Word, EmptyLogin, StubLogin
    <3> QED
      BY <1>0, <1>2, <1>6, <3>1 DEF CallAt, At, Moved
  <2> QED
    BY <1>2, <1>4, <1>7, <2>1, CallIsOn DEF Moved
<1>9. "mixed" \notin spoilt' => InTurn'
  BY <1>0, <1>2, <1>4, TurnAlone DEF Moved, At
<1> QED
  BY <1>0, <1>2, <1>3, <1>6, <1>8, <1>9, QuietKeeps DEF Moved

LEMMA EndReadStays ==
  ASSUME CallsIInv, SessionsIInv, NEW t \in Tab, EndRead(t) PROVE SessionsIInv'
<1>0. /\ At(t, "reading") /\ Goes(t, "reply")
      /\ UNCHANGED <<pair, sessions, conn, cookie, drawn, again, ended, spoilt>>
      /\ call \in [Tab -> CallRec] /\ CallAt(call[t]) /\ CallIs(t, call[t])
  BY DEF EndRead, CallsIInv, SessionsIInv
<1>1. PICK r : Moved(t, r, "reply", call[t].op, call[t].id, call[t].res, call[t].page, call[t].gone, call[t].failed)
  <2>1. "reply" \in Pc
    BY DEF Pc
  <2> QED
    BY <1>0, <2>1, GoesTo, Zenon
<1>2. Grown
  BY <1>0, SameIsGrown
<1>3. ~Making(r) /\ ~Making(call[t]) /\ r.op = "check" /\ CallAt(r)
  BY <1>0, <1>1 DEF Making, At, CallAt, Moved
<1>4. CallIs(t, r)
  BY <1>0, <1>1, <1>3 DEF CallIs, Moved, At, Fits
<1>5. CallIs(t, r)'
  BY <1>1, <1>2, <1>3, <1>4, CallIsOn DEF Moved
<1>6. "mixed" \notin spoilt' => InTurn'
  BY <1>0, <1>1, <1>2, TurnAlone DEF Moved, At
<1> QED
  BY <1>0, <1>1, <1>3, <1>5, <1>6, QuietKeeps DEF Moved

LEMMA StubStays ==
  ASSUME CallsIInv, SessionsIInv, NEW t \in Tab, Stub(t) PROVE SessionsIInv'
<1>0. /\ At(t, "check") /\ Manager.absent = StubLogin /\ Executed(t, StubLogin)
      /\ UNCHANGED <<pair, sessions, conn, cookie, drawn, again, ended, spoilt>>
      /\ call \in [Tab -> CallRec] /\ CallAt(call[t]) /\ CallIs(t, call[t])
  BY DEF Stub, CallsIInv, SessionsIInv
<1>1. PICK r : Moved(t, r, "reply", call[t].op, call[t].id, StubLogin, call[t].page, call[t].gone, call[t].failed)
  <2>1. "reply" \in Pc /\ StubLogin \in Result
    BY DEF Pc, Result
  <2>2. call' = [call EXCEPT ![t].pc = "reply", ![t].res = StubLogin]
    BY <1>0 DEF Executed
  <2> QED
    BY <1>0, <2>1, <2>2, ExecutedTo, Zenon
<1>2. Grown
  BY <1>0, SameIsGrown
<1>3. ~Making(r) /\ ~Making(call[t]) /\ r.op = "check" /\ CallAt(r)
  BY <1>0, <1>1 DEF Making, At, CallAt, Moved, StubLogin
<1>4. Fits(r, StubLogin)
  BY <1>0, SessionsAssumption DEF Fits, Word
<1>5. CallIs(t, r)
  BY <1>0, <1>1, <1>3, <1>4 DEF CallIs, Moved
<1>6. CallIs(t, r)'
  BY <1>1, <1>2, <1>3, <1>5, CallIsOn DEF Moved
<1>7. "mixed" \notin spoilt' => InTurn'
  BY <1>0, <1>1, <1>2, TurnAlone DEF Moved, At
<1> QED
  BY <1>0, <1>1, <1>3, <1>6, <1>7, QuietKeeps DEF Moved

(* A session is stored or deleted, by the call that may. *)
LEMMA WrittenGrown ==
  ASSUME CallsIInv, SessionsIInv, NEW t \in Tab, call[t].id # NoId,
         Making(call[t]) \/ call[t].op = "delete",
         sessions' = Written(t) \/ (spoilt # {} /\ UNCHANGED sessions),
         ended' = EndedNow(t), spoilt \subseteq spoilt', UNCHANGED <<pair, drawn, again>>
  PROVE  /\ Grown /\ IdsOK'
         /\ \A i \in SessionId : i = call[t].id /\ Making(call[t]) => Live(i)'
         /\ \A i \in SessionId : \/ sessions'[i] = sessions[i] /\ (i \in ended' => i \in ended)
                                 \/ i = call[t].id
<1>1. PICK i \in SessionId : i = call[t].id
  BY DEF CallsIInv, CallRec, Id
<1>2. /\ sessions \in [SessionId -> Browser \cup {"none"}] /\ IdsOK /\ CallIs(t, call[t])
      /\ Unwritten(t) /\ Login(t) \in Browser /\ "none" \notin Browser
  BY SessionsAssumption DEF CallsIInv, StoreOK, SessionsIInv, Login, Browser, Word
<1>3. CASE Making(call[t])
  <2>1. call[t].op = "create"
    BY <1>3 DEF Making
  <2>2. /\ ended' = ended \ {i} /\ Login(t) \in drawn[i]
        /\ sessions' = [sessions EXCEPT ![i] = Login(t)] \/ (spoilt # {} /\ UNCHANGED sessions)
    BY <1>1, <1>2, <1>3, <2>1 DEF EndedNow, Written, With, CallIs
  <2>3. i \in again \/ i \notin ended
    BY <1>1, <1>2, <1>3 DEF Unwritten
  <2>4. ASSUME NEW j \in SessionId
        PROVE  /\ (Gone(j) => Gone(j)') /\ (Live(j) => Live(j)') /\ (j = i => Live(j)')
               /\ j # i => sessions'[j] = sessions[j] /\ (j \in ended' => j \in ended)
               /\ sessions'[j] # "none" => sessions'[j] \in drawn[j]
               /\ j \in ended' \ again /\ spoilt = {} => sessions'[j] = "none"
    BY <1>2, <2>2, <2>3 DEF Gone, Live, IdsOK
  <2>5. Grown
    BY <2>4 DEF Grown
  <2>6. IdsOK'
    BY <1>2, <2>2, <2>4 DEF IdsOK, Gone, Manager
  <2> HIDE DEF Gone, Live
  <2> QED
    BY <1>1, <2>4, <2>5, <2>6
<1>4. CASE call[t].op = "delete"
  <2>1. /\ ended' = ended \cup {i} /\ ~Making(call[t])
        /\ sessions' = [sessions EXCEPT ![i] = "none"] \/ (spoilt # {} /\ UNCHANGED sessions)
        /\ Manager.absent # StubLogin => drawn[i] # {}
    BY <1>1, <1>2, <1>4 DEF EndedNow, Written, With, CallIs, Making
  <2>2. ASSUME NEW j \in SessionId
        PROVE  /\ (Gone(j) => Gone(j)') /\ (Live(j) => Live(j)')
               /\ j # i => sessions'[j] = sessions[j] /\ (j \in ended' => j \in ended)
               /\ sessions'[j] # "none" => sessions'[j] \in drawn[j]
               /\ j \in ended' \ again /\ spoilt = {} => sessions'[j] = "none"
    BY <1>2, <2>1 DEF Gone, Live, IdsOK
  <2>3. Grown
    BY <2>2 DEF Grown
  <2>4. IdsOK'
    BY <1>2, <2>1, <2>2 DEF IdsOK, Gone, Manager
  <2> QED
    BY <1>1, <2>1, <2>2, <2>3, <2>4
<1> QED
  BY <1>3, <1>4

(* The call that has stored or deleted it goes on. *)
LEMMA WriterKeeps ==
  ASSUME CallsIInv, SessionsIInv, NEW t \in Tab, NEW r \in CallRec, call' = [call EXCEPT ![t] = r],
         call[t].id # NoId, Making(call[t]) \/ (call[t].op = "delete" /\ call[t].pc \in {"delete", "writing"}),
         sessions' = Written(t) \/ (spoilt # {} /\ UNCHANGED sessions),
         ended' = EndedNow(t), spoilt \subseteq spoilt', UNCHANGED <<pair, cookie, drawn, again>>,
         r.id = call[t].id, r.op = call[t].op, r.gone = call[t].gone, r.pc \in {"receive", "reply"},
         "mixed" \notin spoilt' => InTurn'
  PROVE  SessionsIInv'
<1>1. /\ Grown /\ IdsOK'
      /\ \A i \in SessionId : i = call[t].id /\ Making(call[t]) => Live(i)'
      /\ \A i \in SessionId : \/ sessions'[i] = sessions[i] /\ (i \in ended' => i \in ended)
                              \/ i = call[t].id
  BY WrittenGrown
<1>2. ~Making(r) /\ r.op # "check" /\ CallIs(t, call[t])
  BY DEF Making, SessionsIInv
<1>3. CallIs(t, r)'
  <2>1. r.id \in SessionId
    BY DEF CallRec, Id
  <2>2. /\ r.gone => Gone(r.id)
        /\ Manager.absent # StubLogin => drawn[r.id] # {}
    BY <1>2 DEF CallIs
  <2>3. Manager.absent # StubLogin => Live(r.id)'
    <3>1. CASE Making(call[t])
      BY <1>1, <2>1, <3>1
    <3>2. CASE ~Making(call[t]) /\ Manager.absent # StubLogin
      BY <1>1, <1>2, <2>1, <3>2 DEF CallIs, Grown
    <3> QED
      BY <3>1, <3>2
  <2>4. r.gone => Gone(r.id)'
    BY <1>1, <2>1, <2>2 DEF Grown
  <2> HIDE DEF Gone, Live
  <2> QED
    BY <1>2, <2>2, <2>3, <2>4 DEF CallIs, Manager, Making
<1>4. \A u \in Tab : CallIs(u, call[u])'
  BY <1>1, <1>3, CallsOn
<1>5. \A u \in Tab : Unwritten(u)'
  BY <1>1, <1>2, UnwrittenOn
<1>6. CookiesOK'
  BY <1>1, CookiesOn
<1> QED
  BY <1>1, <1>4, <1>5, <1>6 DEF SessionsIInv

LEMMA EndWriteStays ==
  ASSUME CallsIInv, SessionsIInv, NEW t \in Tab, EndWrite(t) PROVE SessionsIInv'
<1>0. /\ At(t, "writing") /\ (sessions' = Written(t) \/ (spoilt # {} /\ UNCHANGED sessions))
      /\ ended' = EndedNow(t) /\ Executed(t, "ok")
      /\ UNCHANGED <<pair, conn, cookie, drawn, again, spoilt>>
      /\ call \in [Tab -> CallRec] /\ CallAt(call[t])
  BY DEF EndWrite, CallsIInv
<1>1. PICK r : Moved(t, r, "reply", call[t].op, call[t].id, "ok", call[t].page, call[t].gone, call[t].failed)
  <2>1. "reply" \in Pc /\ "ok" \in Result
    BY DEF Pc, Result
  <2>2. call' = [call EXCEPT ![t].pc = "reply", ![t].res = "ok"]
    BY <1>0 DEF Executed
  <2> QED
    BY <1>0, <2>1, <2>2, ExecutedTo, Zenon
<1>2. call[t].id # NoId /\ (Making(call[t]) \/ (call[t].op = "delete" /\ call[t].pc \in {"delete", "writing"}))
  BY <1>0 DEF At, CallAt, Making
<1>3. Grown
  BY <1>0, <1>2, WrittenGrown
<1>4. "mixed" \notin spoilt' => InTurn'
  BY <1>0, <1>1, <1>3, TurnAlone DEF Moved, At
<1> QED
  BY <1>0, <1>1, <1>2, <1>4, WriterKeeps DEF Moved

LEMMA DoStays ==
  ASSUME CallsIInv, SessionsIInv, NEW t \in Tab, Do(t) PROVE SessionsIInv'
<1>0. /\ Manager.store = "redis" /\ At(t, IF call[t].op = "create" THEN "do" ELSE call[t].op)
      /\ conn' = Append(conn, CASE call[t].op = "create" -> "ok"
                                [] call[t].op = "check" -> Found(call[t].id) [] OTHER -> "int")
      /\ sessions' = IF call[t].op = "check" THEN sessions ELSE Written(t)
      /\ ended' = IF call[t].op = "check" THEN ended ELSE EndedNow(t)
      /\ spoilt' = IF conn = <<>> THEN spoilt ELSE spoilt \cup {"mixed"}
      /\ Goes(t, "receive")
      /\ UNCHANGED <<pair, cookie, drawn, again>>
      /\ call \in [Tab -> CallRec] /\ CallAt(call[t]) /\ CallIs(t, call[t]) /\ StoreOK /\ PairOK
  BY DEF Do, CallsIInv, SessionsIInv
<1>1. call[t].id \in SessionId /\ call[t].id # NoId /\ call[t].op \in {"create", "check", "delete"}
  BY <1>0 DEF CallAt, At, CallRec, Id
<1>2. PICK r : Moved(t, r, "receive", call[t].op, call[t].id, call[t].res, call[t].page, call[t].gone, call[t].failed)
  <2>1. "receive" \in Pc
    BY DEF Pc
  <2> QED
    BY <1>0, <2>1, GoesTo, Zenon
<1>3. spoilt \subseteq spoilt' /\ Manager.absent # StubLogin
  BY <1>0 DEF PairOK, StubLogin
<1>4. Grown
  <2>1. CASE call[t].op = "check"
    BY <1>0, <1>3, <2>1, SameIsGrown
  <2>2. CASE call[t].op # "check"
    BY <1>0, <1>1, <1>3, <2>2, WrittenGrown DEF Making, At
  <2> QED
    BY <2>1, <2>2
<1>5. PICK a \in OnConn : /\ conn' = Append(conn, a)
                          /\ call[t].op = "create" => a = "ok"
                          /\ call[t].op = "check" => a = Found(call[t].id)
  <2>1. Found(call[t].id) \in OnConn /\ "ok" \in OnConn /\ "int" \in OnConn
    BY <1>0, <1>1 DEF Found, StoreOK, OnConn, PairOK
  <2> QED
    BY <1>0, <1>1, <2>1
<1>6. "mixed" \notin spoilt' => InTurn'
  <2> SUFFICES ASSUME "mixed" \notin spoilt' PROVE InTurn'
    OBVIOUS
  <2>0. conn = <<>> /\ "mixed" \notin spoilt
    BY <1>0, <1>3
  <2>1. conn = <<>> /\ InTurn /\ conn' = <<a>>
    BY <1>5, <2>0 DEF SessionsIInv
  <2>2. \A u \in Tab : call[u].pc # "receive"
    BY <2>1 DEF InTurn
  <2>3. \A u \in Tab : call'[u] = IF u = t THEN r ELSE call[u]
    BY <1>0, <1>2 DEF Moved
  <2>4. r.op = "check" => Fits(r, a)'
    <3> SUFFICES ASSUME r.op = "check" PROVE Fits(r, a)'
      OBVIOUS
    <3>1. Fits(r, a)
      BY <1>0, <1>2, <1>3, <1>5, FoundFits DEF Moved, At
    <3> QED
      BY <1>1, <1>2, <1>4, <3>1, FitsOn DEF Moved
  <2>5. Answers(r, a)'
    BY <1>2, <1>5, <2>4 DEF Answers, Moved
  <2>6. Answers(call[t], a)'
    BY <2>3, <2>5 DEF Answers, Fits, Gone
  <2>7. call'[t].pc = "receive" /\ \A u \in Tab : call'[u].pc = "receive" => u = t
    BY <1>2, <2>2, <2>3 DEF Moved
  <2> QED
    BY <2>1, <2>6, <2>7 DEF InTurn
<1>7. CASE call[t].op = "check"
  <2>1. CallAt(r) /\ ~Making(r) /\ ~Making(call[t])
    BY <1>0, <1>1, <1>2, <1>7, <1>3 DEF CallAt, At, Moved, Making
  <2>2. CallIs(t, r)
    BY <1>0, <1>2, <1>7, <2>1 DEF CallIs, Moved
  <2>3. CallIs(t, r)'
    BY <1>2, <1>4, <2>1, <2>2, CallIsOn DEF Moved
  <2> QED
    BY <1>0, <1>2, <1>3, <1>6, <1>7, <2>1, <2>3, QuietKeeps DEF Moved
<1>8. CASE call[t].op # "check"
  <2>1. Making(call[t]) \/ (call[t].op = "delete" /\ call[t].pc \in {"delete", "writing"})
    BY <1>0, <1>1, <1>8 DEF Making, At
  <2> QED
    BY <1>0, <1>1, <1>2, <1>3, <1>6, <1>8, <2>1, WriterKeeps DEF Moved
<1> QED
  BY <1>7, <1>8

LEMMA ReceiveStays ==
  ASSUME CallsIInv, SessionsIInv, NEW t \in Tab, Receive(t) PROVE SessionsIInv'
<1>0. /\ At(t, "receive") /\ conn # <<>> /\ conn' = Tail(conn)
      /\ Executed(t, Understood(call[t].op, Head(conn)))
      /\ UNCHANGED <<pair, sessions, cookie, drawn, again, ended, spoilt>>
      /\ call \in [Tab -> CallRec] /\ CallAt(call[t]) /\ CallIs(t, call[t]) /\ StoreOK /\ PairOK
  BY DEF Receive, CallsIInv, SessionsIInv
<1>1. PICK h \in OnConn : h = Head(conn)
  BY <1>0 DEF StoreOK
<1>2. PICK a \in Result :
        a = Understood(call[t].op, h) /\ (call[t].op = "check" => a \notin {"ok", "none"})
  BY UnderstoodIs
<1>3. PICK r : Moved(t, r, "reply", call[t].op, call[t].id, a, call[t].page, call[t].gone, call[t].failed)
  <2>1. "reply" \in Pc
    BY DEF Pc
  <2>2. call' = [call EXCEPT ![t].pc = "reply", ![t].res = a]
    BY <1>0, <1>1, <1>2, Zenon DEF Executed
  <2> QED
    BY <1>0, <2>1, <2>2, ExecutedTo, Zenon
<1>4. Grown /\ Manager.absent = "nil" /\ Manager.store = "redis"
  BY <1>0, SameIsGrown DEF PairOK, CallAt, At
<1>5. "mixed" \notin spoilt =>
        /\ conn = <<h>> /\ Answers(call[t], h)
        /\ \A u \in Tab : call[u].pc = "receive" => u = t
  <2> SUFFICES ASSUME "mixed" \notin spoilt
               PROVE  /\ conn = <<h>> /\ Answers(call[t], h)
                      /\ \A u \in Tab : call[u].pc = "receive" => u = t
    OBVIOUS
  <2>1. PICK u \in Tab, b \in OnConn :
          /\ conn = <<b>> /\ Answers(call[u], b) /\ \A v \in Tab : call[v].pc = "receive" => v = u
    BY <1>0 DEF SessionsIInv, InTurn
  <2>2. u = t /\ b = h
    BY <1>0, <1>1, <2>1 DEF At
  <2> QED
    BY <2>1, <2>2
<1>6. CallAt(r) /\ ~Making(r) /\ ~Making(call[t]) /\ r.id # NoId
  BY <1>0, <1>2, <1>3, <1>4 DEF CallAt, At, Moved, Making
<1>7. r.op = "check" => Fits(r, a)
  <2> SUFFICES ASSUME r.op = "check" PROVE Fits(r, a)
    OBVIOUS
  <2>1. a = IF h \in {"ok", "int"} THEN "nil" ELSE h
    BY <1>2, <1>3 DEF Understood, Moved
  <2>2. CASE "mixed" \in spoilt
    <3>1. a \in Browser \cup {"nil"}
      BY <2>1 DEF OnConn
    <3>2. spoilt # {} /\ EmptyLogin \notin Browser \cup {"nil"} /\ StubLogin \notin Browser \cup {"nil"}
      BY <2>2, SessionsAssumption DEF Word, EmptyLogin, StubLogin
    <3> QED
      BY <2>2, <3>1, <3>2 DEF Fits
  <2>3. CASE "mixed" \notin spoilt
    <3>1. Fits(call[t], h)
      BY <1>3, <1>5, <2>3 DEF Answers, Moved
    <3>2. h \notin {"ok", "int"}
      BY <3>1, SessionsAssumption DEF Fits, Word, EmptyLogin, StubLogin
    <3> QED
      BY <1>3, <2>1, <3>1, <3>2 DEF Fits, Moved
  <2> QED
    BY <2>2, <2>3
<1>8. CallIs(t, r)
  BY <1>0, <1>3, <1>6, <1>7 DEF CallIs, Moved
<1>9. CallIs(t, r)'
  BY <1>3, <1>4, <1>6, <1>8, CallIsOn DEF Moved
<1>10. "mixed" \notin spoilt' => InTurn'
  <2> SUFFICES ASSUME "mixed" \notin spoilt PROVE InTurn'
    BY <1>0
  <2>1. conn' = <<>>
    <3>1. conn' = Tail(conn) /\ conn = <<h>>
      BY <1>0, <1>5
    <3>2. Tail(<<h>>) = <<>>
      OBVIOUS
    <3> QED
      BY <3>1, <3>2, Zenon
  <2>2. \A u \in Tab : call'[u] = IF u = t THEN r ELSE call[u]
    BY <1>0, <1>3 DEF Moved
  <2>3. \A u \in Tab : call'[u].pc # "receive"
    BY <1>3, <1>5, <2>2 DEF Moved
  <2> QED
    BY <2>1, <2>3 DEF InTurn
<1> QED
  BY <1>0, <1>3, <1>6, <1>9, <1>10, QuietKeeps DEF Moved

LEMMA ExpireStays ==
  ASSUME CallsIInv, SessionsIInv, NEW i \in SessionId, Expire(i) PROVE SessionsIInv'
<1>0. /\ Manager.store = "redis" /\ sessions[i] # "none" /\ sessions' = [sessions EXCEPT ![i] = "none"]
      /\ ended' = ended \cup {i} /\ UNCHANGED <<pair, conn, call, cookie, drawn, again, spoilt>>
      /\ sessions \in [SessionId -> Browser \cup {"none"}]
      /\ \A j \in SessionId :
           /\ sessions[j] # "none" => sessions[j] \in drawn[j]
           /\ Gone(j) /\ Manager.absent # StubLogin => drawn[j] # {}
           /\ j \in ended \ again /\ spoilt = {} => sessions[j] = "none"
  BY DEF Expire, With, CallsIInv, StoreOK, SessionsIInv, IdsOK
<1>1. ASSUME NEW j \in SessionId
      PROVE  /\ (Gone(j) => Gone(j)') /\ (Live(j) => Live(j)')
             /\ sessions'[j] # "none" => sessions'[j] \in drawn[j]
             /\ Gone(j)' /\ Manager.absent # StubLogin => drawn[j] # {}
             /\ j \in ended' \ again /\ spoilt = {} => sessions'[j] = "none"
  BY <1>0 DEF Gone, Live
<1>2. Grown
  BY <1>0, <1>1 DEF Grown
<1>3. IdsOK'
  BY <1>0, <1>1 DEF IdsOK, Manager, Gone
<1>4. ASSUME NEW t \in Tab PROVE CallIs(t, call[t])' /\ Unwritten(t)'
  <2>1. PICK q \in CallRec : q = call[t] /\ q = call'[t]
    BY <1>0 DEF CallsIInv
  <2>2. CallIs(t, q)'
    BY <1>2, <2>1, CallIsOn DEF CallsIInv, SessionsIInv
  <2>3. Unwritten(t)'
    <3>1. Unwritten(t)
      BY DEF SessionsIInv
    <3> QED
      BY <1>0, <3>1 DEF Unwritten, CallsIInv, CallAt, Making
  <2> QED
    BY <2>1, <2>2, <2>3 DEF CallIs, Making, Fits, Gone, Live
<1>5. CookiesOK'
  BY <1>0, <1>2, CookiesOn
<1>6. "mixed" \notin spoilt' => InTurn'
  <2> SUFFICES ASSUME "mixed" \notin spoilt' PROVE InTurn'
    OBVIOUS
  <2>1. InTurn
    BY <1>0 DEF SessionsIInv
  <2>2. CASE conn = <<>> /\ \A u \in Tab : call[u].pc # "receive"
    BY <1>0, <2>2 DEF InTurn
  <2>3. ASSUME NEW u \in Tab, NEW a \in OnConn, conn = <<a>>, call[u].pc = "receive", Answers(call[u], a),
               \A v \in Tab : call[v].pc = "receive" => v = u
        PROVE  InTurn'
    <3>1. PICK q \in CallRec : q = call[u] /\ q = call'[u] /\ q.id # NoId
      BY <1>0, <2>3 DEF CallsIInv, CallAt
    <3>2. q.op = "check" => Fits(q, a)'
      BY <1>2, <2>3, <3>1, FitsOn DEF Answers
    <3>3. Answers(q, a)'
      BY <2>3, <3>1, <3>2 DEF Answers
    <3>4. Answers(call[u], a)'
      BY <3>1, <3>3 DEF Answers, Fits, Gone
    <3> QED
      BY <1>0, <2>3, <3>4 DEF InTurn
  <2> QED
    BY <2>1, <2>2, <2>3 DEF InTurn
<1> QED
  BY <1>3, <1>4, <1>5, <1>6 DEF SessionsIInv

LEMMA DrawStays ==
  ASSUME CallsIInv, SessionsIInv, NEW t \in Tab, Draw(t) PROVE SessionsIInv'
<1>0. /\ At(t, "create") /\ UNCHANGED <<pair, sessions, conn, cookie, ended, spoilt>>
      /\ call \in [Tab -> CallRec] /\ CallAt(call[t]) /\ CallIs(t, call[t]) /\ StoreOK /\ IdsOK
      /\ \A u \in Tab : CallAt(call[u]) /\ CallIs(u, call[u]) /\ Unwritten(u)
  BY DEF Draw, CallsIInv, SessionsIInv
<1>1. PICK i \in SessionId :
        /\ call' = [call EXCEPT ![t].pc = IF Manager.store = "redis" THEN "do" ELSE "write", ![t].id = i]
        /\ drawn' = [drawn EXCEPT ![i] = @ \cup {Login(t)}]
        /\ again' = IF drawn[i] # {} THEN again \cup {i} ELSE again
  BY Zenon DEF Draw
<1>2. PICK x \in Pc : x = (IF Manager.store = "redis" THEN "do" ELSE "write") /\ x \in {"do", "write"}
  BY DEF Pc
<1>3. i \in Id /\ i # NoId
  BY SessionsAssumption DEF Id
<1>4. PICK r : Moved(t, r, x, call[t].op, i, call[t].res, call[t].page, call[t].gone, call[t].failed)
  <2>1. call' = [call EXCEPT ![t].pc = x, ![t].id = i]
    BY <1>1, <1>2, Zenon
  <2> QED
    BY <1>0, <1>3, <2>1, DrawnTo, Zenon
<1>5. again' = IF drawn[i] # {} THEN again \cup {i} ELSE again
  BY <1>1, Zenon
<1>6. /\ call[t].op = "create" /\ call[t].id = NoId /\ Manager.absent # StubLogin /\ ~call[t].gone
      /\ Making(r) /\ r.id = i /\ r.op = "create" /\ ~r.gone
  BY <1>0, <1>2, <1>4 DEF At, CallAt, CallIs, Moved, Making
<1>7. ASSUME NEW j \in SessionId
      PROVE  /\ drawn[j] \subseteq drawn'[j] /\ (Gone(j) => Gone(j)') /\ (Live(j) => Live(j)')
             /\ (j = i => Login(t) \in drawn'[j]) /\ (j # i => drawn'[j] = drawn[j])
             /\ (j \in again' => j \in again \/ (j = i /\ drawn[i] # {}))
  BY <1>0, <1>1 DEF Gone, Live, StoreOK
<1>8. Grown
  BY <1>0, <1>1, <1>7 DEF Grown
<1>9. CallIs(t, r)'
  BY <1>6, <1>7 DEF CallIs
<1>10. \A u \in Tab : CallIs(u, call[u])'
  BY <1>4, <1>8, <1>9, CallsOn DEF Moved
<1>11. IdsOK'
  <2> SUFFICES ASSUME NEW j \in SessionId
               PROVE  /\ sessions[j] # "none" => sessions[j] \in drawn'[j]
                      /\ j \in ended \cup again' => drawn'[j] # {}
                      /\ j \in ended \ again' /\ spoilt = {} => sessions[j] = "none"
    BY <1>0 DEF IdsOK, Gone, Manager
  <2>1. /\ sessions[j] # "none" => sessions[j] \in drawn[j]
        /\ j \in ended \cup again => drawn[j] # {}
        /\ j \in ended \ again /\ spoilt = {} => sessions[j] = "none"
    BY <1>0, <1>6 DEF IdsOK, Gone
  <2>2. again \subseteq again'
    BY <1>1
  <2> QED
    BY <1>7, <2>1, <2>2
<1>12. ASSUME NEW u \in Tab PROVE Unwritten(u)'
  <2> SUFFICES ASSUME Making(call'[u]), call'[u].id \notin again'
               PROVE  /\ sessions[call'[u].id] = "none" /\ call'[u].id \notin ended
                      /\ \A b \in Browser : cookie[b] # call'[u].id
                      /\ \A v \in Tab \ {u} : call'[v].id # call'[u].id
    BY <1>0 DEF Unwritten, Making
  <2>1. \A v \in Tab : call'[v] = IF v = t THEN r ELSE call[v]
    BY <1>0, <1>4 DEF Moved
  <2>2. CASE u = t
    <3>1. call'[u].id = i /\ drawn[i] = {}
      BY <1>6, <1>5, <2>1, <2>2
    <3>2. sessions[i] = "none" /\ i \notin ended
      BY <1>0, <1>6, <3>1 DEF IdsOK, Gone
    <3>3. \A b \in Browser : cookie[b] # i
      BY <1>3, <3>1 DEF SessionsIInv, CookiesOK
    <3>4. \A v \in Tab : call[v].id # i
      BY <1>0, <1>3, <1>6, <3>1 DEF CallIs
    <3> QED
      BY <2>1, <2>2, <3>1, <3>2, <3>3, <3>4
  <2>3. CASE u # t
    <3>1. call'[u] = call[u] /\ Making(call[u]) /\ call[u].id \notin again
      BY <1>5, <2>1, <2>3
    <3>2. Login(u) \in drawn[call[u].id]
      BY <1>0, <3>1 DEF CallIs
    <3>3. call[u].id # i
      BY <1>5, <3>1, <3>2
    <3>4. /\ sessions[call[u].id] = "none" /\ call[u].id \notin ended
          /\ \A b \in Browser : cookie[b] # call[u].id
          /\ \A v \in Tab \ {u} : call[v].id # call[u].id
      BY <1>0, <3>1 DEF Unwritten
    <3> QED
      BY <1>6, <2>1, <3>1, <3>3, <3>4
  <2> QED
    BY <2>2, <2>3
<1>13. CookiesOK'
  BY <1>0, <1>8, CookiesOn
<1>14. "mixed" \notin spoilt' => InTurn'
  BY <1>0, <1>2, <1>4, <1>8, TurnAlone DEF Moved, At
<1> QED
  BY <1>10, <1>11, <1>12, <1>13, <1>14 DEF SessionsIInv

(* A request brings the id of its cookie, if it brings one. *)
LEMMA Requested ==
  ASSUME CallsIInv, NEW t \in Tab, Request(t)
  PROVE  \E r \in CallRec :
           /\ call' = [call EXCEPT ![t] = r] /\ r.pc \in {"idle", "create", "check", "delete"}
           /\ r.pc = "idle" => r.id = NoId
           /\ r.gone => r.id \in ended
           /\ r.id \in {NoId, Cookie(t)} \/ Manager.absent = StubLogin
<1>0. /\ At(t, "idle") /\ call \in [Tab -> CallRec] /\ done \in [Tab -> Nat] /\ PairOK
      /\ Cookie(t) \in Id /\ Scripted(t) /\ NoId \in Id /\ {"form", "401", "redirect"} \subseteq Shown
  BY DEF Request, CallsIInv, Cookie, Browser, Id, Shown
<1>1. ASSUME NEW op \in {"create", "check", "delete"}, NEW p \in {"form", "401", "redirect"},
             AnsweredAtOnce(t, op, p)
      PROVE  \E r \in CallRec :
               /\ call' = [call EXCEPT ![t] = r] /\ r.pc = "idle" /\ r.id = NoId /\ ~r.gone
  <2>1. PICK r : Moved(t, r, "idle", op, NoId, "none", p, FALSE, FALSE)
    <3>1. p \in Shown
      BY <1>0
    <3> QED
      BY <1>0, <1>1, <3>1, AnsweredTo, Zenon
  <2> QED
    BY <2>1 DEF Moved
<1>2. ASSUME NEW op \in {"create", "check", "delete"}, NEW i \in Id, Begins(t, op, i)
      PROVE  \E r \in CallRec :
               /\ call' = [call EXCEPT ![t] = r] /\ r.pc = op /\ r.id = i /\ (r.gone => i \in ended)
  <2>1. PICK r : Moved(t, r, op, op, i, "none", "none", i \in ended, FALSE)
    BY <1>0, <1>2, BegunTo, Zenon
  <2> QED
    BY <2>1 DEF Moved
<1>3. CASE innerPage(t) \/ loginPage(t) \/ logoutPage(t)
  <2>1. CASE \/ AnsweredAtOnce(t, "check", "form") \/ AnsweredAtOnce(t, "create", "401")
             \/ AnsweredAtOnce(t, "delete", "redirect")
    <3>1. PICK r \in CallRec : call' = [call EXCEPT ![t] = r] /\ r.pc = "idle" /\ r.id = NoId /\ ~r.gone
      BY <1>1, <2>1
    <3> QED
      BY <3>1
  <2>2. CASE Begins(t, "check", Cookie(t)) \/ Begins(t, "create", NoId) \/ Begins(t, "delete", Cookie(t))
    <3>1. PICK op \in {"create", "check", "delete"}, i \in {NoId, Cookie(t)} : i \in Id /\ Begins(t, op, i)
      BY <1>0, <2>2
    <3>2. PICK r \in CallRec : call' = [call EXCEPT ![t] = r] /\ r.pc = op /\ r.id = i /\ (r.gone => i \in ended)
      BY <1>2, <3>1
    <3> QED
      BY <3>1, <3>2
  <2> QED
    BY <1>3, <2>1, <2>2 DEF innerPage, loginPage, logoutPage
<1>4. CASE done[t] < Len(Frontend.script)
  <2>1. ~Frontend.web
    BY <1>0, <1>4 DEF PairOK
  <2>2. PICK i \in IF Cookie(t) = NoId THEN SessionId ELSE {Cookie(t)} :
          Begins(t, Frontend.script[done[t] + 1],
                 IF Frontend.script[done[t] + 1] = "create" THEN NoId ELSE i)
    BY <2>1, Zenon DEF Request
  <2>3. PICK n \in Nat : n = done[t]
    BY <1>0
  <2>4. PICK op \in {"create", "check", "delete"} :
          /\ op = Frontend.script[done[t] + 1]
          /\ Manager.absent # StubLogin /\ n = 0 => op = "create"
    <3>1. CASE Manager.absent = StubLogin
      <4>1. Frontend.script = <<"check", "check">>
        BY <1>0, <2>1, <3>1 DEF PairOK
      <4>2. n + 1 \in {1, 2}
        BY <1>4, <2>3, <4>1
      <4> QED
        BY <2>3, <3>1, <4>1, <4>2
    <3>2. CASE Manager.absent # StubLogin
      <4>1. Frontend.script = <<"create", "check", "delete", "check">>
        BY <1>0, <2>1, <3>2 DEF PairOK, FourCalls
      <4>2. n + 1 \in {1, 2, 3, 4} /\ (n + 1 = 1 <=> n = 0)
        BY <1>4, <2>3, <4>1
      <4> QED
        BY <2>3, <3>2, <4>1, <4>2
    <3> QED
      BY <3>1, <3>2
  <2>5. Manager.absent # StubLogin /\ n # 0 => Cookie(t) # NoId
    <3>1. n # 0 => n > 0
      BY <2>3
    <3> QED
      BY <1>0, <2>1, <2>3, <3>1 DEF Scripted, At
  <2>6. PICK j \in Id : /\ j = (IF op = "create" THEN NoId ELSE i) /\ Begins(t, op, j)
    BY <1>0, <2>2, <2>4, Zenon DEF Id
  <2>7. j \in {NoId, Cookie(t)} \/ Manager.absent = StubLogin
    BY <2>4, <2>5, <2>6
  <2>8. PICK r \in CallRec : call' = [call EXCEPT ![t] = r] /\ r.pc = op /\ r.id = j /\ (r.gone => j \in ended)
    BY <1>2, <2>6
  <2> QED
    BY <2>7, <2>8
<1> QED
  BY <1>3, <1>4, Zenon DEF Request

LEMMA RequestStays ==
  ASSUME CallsIInv, SessionsIInv, NEW t \in Tab, Request(t) PROVE SessionsIInv'
<1>0. /\ At(t, "idle") /\ UNCHANGED <<pair, sessions, conn, cookie, drawn, again, ended, spoilt>>
      /\ ended \subseteq SessionId /\ NoId \notin SessionId /\ CookiesOK
      /\ BrowserOf[t] \in Browser
  BY SessionsAssumption DEF Request, CallsIInv, StoreOK, SessionsIInv, Browser
<1>1. PICK r \in CallRec :
        /\ call' = [call EXCEPT ![t] = r] /\ r.pc \in {"idle", "create", "check", "delete"}
        /\ r.pc = "idle" => r.id = NoId
        /\ r.gone => r.id \in ended
        /\ r.id \in {NoId, Cookie(t)} \/ Manager.absent = StubLogin
  BY Requested
<1>2. Grown /\ IdsOK'
  BY <1>0, SameIsGrown
<1>3. ~Making(r)
  BY <1>1 DEF Making
<1>4. CallIs(t, r)'
  <2>1. r.id # NoId /\ Manager.absent # StubLogin => drawn[r.id] # {} /\ Live(r.id)
    BY <1>0, <1>1 DEF CookiesOK, Cookie
  <2>2. r.gone => r.id # NoId /\ Gone(r.id)
    BY <1>0, <1>1 DEF Gone
  <2>3. CallIs(t, r)
    BY <1>1, <1>3, <2>1, <2>2 DEF CallIs
  <2> QED
    BY <1>0, <2>3 DEF CallIs, Making, Fits, Gone, Live, Manager
<1>5. \A u \in Tab : CallIs(u, call[u])'
  BY <1>1, <1>2, <1>4, CallsOn
<1>6. \A u \in Tab : Unwritten(u)'
  <2>1. CASE Manager.absent = StubLogin
    <3>1. \A u \in Tab : CallAt(call[u])' /\ Manager' = Manager
      BY <1>0, RequestKeeps DEF CallsIInv, Manager
    <3> QED
      BY <2>1, <3>1 DEF Unwritten, CallAt, Making
  <2>2. CASE Manager.absent # StubLogin
    <3>1. r.id \in {call[t].id, NoId} \/ \E b \in Browser : r.id = cookie[b]
      BY <1>0, <1>1, <2>2 DEF Cookie
    <3> QED
      BY <1>0, <1>1, <1>3, <3>1, UnwrittenOn
  <2> QED
    BY <2>1, <2>2
<1>7. CookiesOK'
  BY <1>0, <1>2, CookiesOn
<1>8. "mixed" \notin spoilt' => InTurn'
  BY <1>0, <1>1, <1>2, TurnAlone DEF At
<1> QED
  BY <1>2, <1>5, <1>6, <1>7, <1>8 DEF SessionsIInv

LEMMA ReturnsStays ==
  ASSUME CallsIInv, SessionsIInv, NEW t \in Tab, NEW res \in Result, NEW f \in BOOLEAN, Returns(t, res, f),
         call[t].pc \in {"create", "check", "delete", "reply"},
         (f /\ res = "error") \/ (call[t].pc = "reply" /\ res = call[t].res),
         UNCHANGED <<pair, sessions, conn, drawn, again, ended, spoilt>>
  PROVE  SessionsIInv'
<1>0. /\ call \in [Tab -> CallRec] /\ cookie \in [Browser -> Id] /\ PairOK
      /\ CallAt(call[t]) /\ CallIs(t, call[t]) /\ CookiesOK
  BY DEF CallsIInv, SessionsIInv
<1>1. /\ call[t].op \in {"create", "check", "delete"} /\ call[t].id \in Id
      /\ (call[t].op = "check" => res \notin {"ok", "none"} /\ call[t].id # NoId)
      /\ (call[t].op = "create" /\ res = "ok" => call[t].id # NoId)
      /\ ~Making(call[t])
  BY <1>0 DEF CallAt, CallRec, Making
<1>2. PICK p \in Shown : p = Page(call[t].op, res)
  BY <1>0, <1>1, PageIs
<1>3. PICK x \in Pc : x = (IF p = "panic" /\ ~Frontend.web THEN "panic" ELSE "idle") /\ x \in {"idle", "panic"}
  BY DEF Pc
<1>4. PICK r : Moved(t, r, x, call[t].op, call[t].id, call[t].res, p, call[t].gone, f)
  <2>1. call' = [call EXCEPT ![t].pc = x, ![t].page = p, ![t].failed = f]
    BY <1>2, <1>3, Zenon DEF Returns
  <2> QED
    BY <1>0, <2>1, ReturnedTo, Zenon
<1>5. Grown /\ IdsOK'
  BY SameIsGrown
<1>6. ~Making(r) /\ r.id = call[t].id
  BY <1>3, <1>4 DEF Making, Moved
<1>7. CallIs(t, r)
  <2>1. r.op = "check" =>
          /\ p \in Browser => p \in drawn[r.id] \/ "mixed" \in spoilt
          /\ p \in Browser /\ r.gone => r.id \in again \/ spoilt # {}
          /\ p \in {EmptyLogin, StubLogin} => Manager.absent = p
          /\ p \notin Browser /\ Manager.absent # StubLogin => f \/ Gone(r.id) \/ spoilt # {}
    <3> SUFFICES ASSUME call[t].op = "check"
                 PROVE  /\ p \in Browser => p \in drawn[call[t].id] \/ "mixed" \in spoilt
                        /\ p \in Browser /\ call[t].gone => call[t].id \in again \/ spoilt # {}
                        /\ p \in {EmptyLogin, StubLogin} => Manager.absent = p
                        /\ p \notin Browser /\ Manager.absent # StubLogin =>
                             f \/ Gone(call[t].id) \/ spoilt # {}
      BY <1>4 DEF Moved
    <3>1. p = IF res = "nil" THEN "form" ELSE IF res = "error" THEN Frontend.checked ELSE res
      BY <1>2 DEF Page
    <3>2. {"form", "500", "printed"} \cap (Browser \cup {EmptyLogin, StubLogin}) = {}
      BY SessionsAssumption DEF Word, EmptyLogin, StubLogin
    <3>3. {"nil", "error"} \cap Browser = {}
      BY SessionsAssumption DEF Word
    <3>4. CASE f /\ res = "error"
      BY <1>0, <3>1, <3>2, <3>4 DEF PairOK
    <3>5. CASE call[t].pc = "reply" /\ res = call[t].res
      <4>1. Fits(call[t], res)
        BY <1>0, <3>5 DEF CallIs
      <4>2. CASE res \in {"nil", "error"}
        <5>1. p \in {"form", "500", "printed"} /\ res \notin Browser
          BY <1>0, <3>1, <3>3, <4>2 DEF PairOK
        <5> QED
          BY <3>2, <4>1, <5>1 DEF Fits
      <4>3. CASE res \notin {"nil", "error"}
        BY <3>1, <4>1, <4>3 DEF Fits
      <4> QED
        BY <4>2, <4>3
    <3> QED
      BY <3>4, <3>5
  <2> QED
    BY <1>0, <1>1, <1>3, <1>4, <1>6, <2>1 DEF CallIs, Moved
<1>8. CallIs(t, r)'
  BY <1>7 DEF CallIs, Making, Fits, Gone, Live, Manager
<1>9. \A u \in Tab : CallIs(u, call[u])'
  BY <1>4, <1>5, <1>8, CallsOn DEF Moved
<1>10. /\ cookie' \in {cookie, [cookie EXCEPT ![BrowserOf[t]] = NoId]}
          \/ (cookie' = [cookie EXCEPT ![BrowserOf[t]] = call[t].id]
              /\ call[t].op = "create" /\ call[t].id # NoId)
  BY <1>1 DEF Returns, NewCookie
<1>11. ASSUME NEW b \in Browser
       PROVE  \/ cookie'[b] \in {cookie[b], NoId}
              \/ cookie'[b] = call[t].id /\ call[t].op = "create" /\ call[t].id # NoId
  BY <1>0, <1>10
<1>12. \A u \in Tab : Unwritten(u)'
  BY <1>1, <1>4, <1>6, <1>11, UnwrittenOn DEF Moved
<1>13. CookiesOK'
  <2> SUFFICES ASSUME NEW b \in Browser, cookie'[b] # NoId
               PROVE  drawn[cookie'[b]] # {} /\ (\/ sessions[cookie'[b]] # "none"
                                                \/ cookie'[b] \in ended \cup again \/ spoilt # {})
    BY DEF CookiesOK, Live, Gone
  <2>1. CASE cookie'[b] = cookie[b]
    BY <1>0, <2>1 DEF CookiesOK, Live, Gone
  <2>2. CASE cookie'[b] = call[t].id /\ call[t].op = "create" /\ call[t].id # NoId
    <3>1. Manager.absent # StubLogin
      BY <1>0, <2>2 DEF CallAt
    <3> QED
      BY <1>0, <1>1, <2>2, <3>1 DEF CallIs, Live, Gone
  <2> QED
    BY <1>11, <2>1, <2>2
<1>14. "mixed" \notin spoilt' => InTurn'
  BY <1>3, <1>4, <1>5, TurnAlone DEF Moved
<1> QED
  BY <1>5, <1>9, <1>12, <1>13, <1>14 DEF SessionsIInv

LEMMA ReplyStays ==
  ASSUME CallsIInv, SessionsIInv, NEW t \in Tab, Reply(t) PROVE SessionsIInv'
<1>1. /\ At(t, "reply") /\ Returns(t, call[t].res, FALSE)
      /\ UNCHANGED <<pair, sessions, conn, drawn, again, ended, spoilt>>
      /\ call[t] \in CallRec
  BY DEF Reply, CallsIInv
<1>2. PICK a \in Result : a = call[t].res
  BY <1>1 DEF CallRec
<1> QED
  BY <1>1, <1>2, ReturnsStays DEF At

LEMMA CallFailsStays ==
  ASSUME CallsIInv, SessionsIInv, NEW t \in Tab, CallFails(t) PROVE SessionsIInv'
<1>1. /\ Returns(t, "error", TRUE) /\ call[t].pc \in {"create", "check", "delete", "reply"}
      /\ UNCHANGED <<pair, sessions, conn, drawn, again, ended, spoilt>>
  BY DEF CallFails
<1>2. PICK a \in Result : a = "error"
  BY DEF Result
<1> QED
  BY <1>1, <1>2, ReturnsStays

LEMMA InitSessionsIInv == SessionsInit => SessionsIInv
<1> SUFFICES ASSUME SessionsInit PROVE SessionsIInv
  OBVIOUS
<1>1. \A t \in Tab : call[t] = Nowhere
  BY DEF SessionsInit
<1>2. ASSUME NEW t \in Tab PROVE CallIs(t, call[t]) /\ Unwritten(t) /\ call[t].pc # "receive"
  BY <1>1, NowhereIs DEF CallIs, Unwritten, Making
<1>3. CookiesOK
  BY DEF SessionsInit, CookiesOK
<1>4. IdsOK
  BY DEF SessionsInit, IdsOK, Gone
<1>5. InTurn
  BY <1>2 DEF SessionsInit, InTurn
<1> QED
  BY <1>2, <1>3, <1>4, <1>5 DEF SessionsIInv

LEMMA NextSessionsIInv == CallsIInv /\ SessionsIInv /\ [SessionsNext]_sessionVars => SessionsIInv'
<1> SUFFICES ASSUME CallsIInv, SessionsIInv, [SessionsNext]_sessionVars PROVE SessionsIInv'
  OBVIOUS
<1>1. CASE UNCHANGED sessionVars
  BY <1>1 DEF sessionVars, SessionsIInv, CallIs, Unwritten, Making, Fits, Gone, Live, CookiesOK, IdsOK,
              InTurn, Answers, Manager
<1>2. CASE SessionsNext
  <2>1. ASSUME NEW t \in Tab, Request(t) \/ SessionStep(t) \/ CallFails(t) PROVE SessionsIInv'
    BY <2>1, RequestStays, DrawStays, BeginWriteStays, EndWriteStays, BeginReadStays, EndReadStays,
       StubStays, DoStays, ReceiveStays, ReplyStays, CallFailsStays DEF SessionStep
  <2>2. ASSUME NEW i \in SessionId, Expire(i) PROVE SessionsIInv'
    BY <2>2, ExpireStays
  <2> QED
    BY <1>2, <2>1, <2>2 DEF SessionsNext
<1> QED
  BY <1>1, <1>2

LEMMA WhatIsKept == CallsIInv /\ SessionsIInv => SessionsKept
<1> SUFFICES ASSUME CallsIInv, SessionsIInv PROVE SessionsKept
  OBVIOUS
<1>1. SessionsTypeOK
  BY DEF SessionsTypeOK, CallsIInv, StoreOK, LocksOK, CallRec, Pc, Shown
<1>2. ASSUME NEW t \in Tab, Shows(t)
      PROVE  /\ call[t].page \in Browser => call[t].page \in drawn[call[t].id] \/ "mixed" \in spoilt
             /\ call[t].page \in Browser /\ call[t].gone => call[t].id \in again \/ spoilt # {}
             /\ call[t].page \in {EmptyLogin, StubLogin} => Manager.absent = call[t].page
             /\ call[t].page \notin Browser /\ Manager.absent # StubLogin =>
                  call[t].failed \/ call[t].id \in ended \cup again \/ spoilt # {}
  BY <1>2 DEF Shows, At, SessionsIInv, CallIs, Gone
<1> QED
  BY <1>1, <1>2 DEF SessionsKept, ShownBelongs, EndedNotShown, SessionStays

(* The session managers and their clients: a page shows only its own       *)
(* browser's session, unless redis's answers are mixed up; none that ended *)
(* before the request came; and one that was answered until it has ended,  *)
(* however many others log in and out, and whichever calls fail.           *)
THEOREM TheSessionsAreKept == SessionsSpec => []SessionsKept
BY InitCallsIInv, NextCallsIInv, InitSessionsIInv, NextSessionsIInv, WhatIsKept, PTL DEF SessionsSpec
=============================================================================

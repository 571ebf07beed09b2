---------------------------------- MODULE Crud ----------------------------------
(***************************************************************************)
(* The table of items behind the same seven pages three times: over        *)
(* database/sql, over gorm and over mgo.  An item is who wrote its title   *)
(* and description, and whether an Update did; the pages' texts are left   *)
(* out, and a panic of a handler is a connection that is dropped.          *)
(***************************************************************************)
EXTENDS Integers, FiniteSets

CONSTANTS Visitor,                  \* goroutines of requests
          MaxItem,                  \* bound: ids that are ever given
          MaxVisits, MaxCrudFaults  \* bounds: requests, and queries that fail

ASSUME CrudAssumption == MaxItem \in Nat \ {0, 1} /\ {"nobody", "seed"} \cap Visitor = {}

ItemId == 1..MaxItem
UrlId == 0..MaxItem + 1   \* what a number in a path may be
NotAnId == MaxItem + 2    \* what Atoi or IsObjectIdHex refuses
NoItem == [by |-> "nobody", updated |-> FALSE]
seed == [by |-> "seed", updated |-> FALSE]

VARIABLES backend,    \* "mysql", "gorm" or "mongodb"
          items,      \* id -> item, or NoItem
          lastItem,   \* AUTO_INCREMENT, or the object ids so far
          visit,      \* visitor -> its request
          visits, crudFaults,   \* bounds
          born, killed,   \* history: id -> how often it was made, how often a Delete said so
          buried,         \* history: ids a Delete has taken
          overtaken       \* history: ids it took between an Update's Find and its Save

crudVars == <<backend, items, lastItem, visit, visits, crudFaults, born, killed, buried, overtaken>>

AtHome == [pc |-> "home", op |-> "none", id |-> 0, post |-> 0, affected |-> 0,
           failed |-> FALSE, answer |-> "none"]

(* items.sql and mongodb's main start with two items. *)
CrudInit ==
  /\ backend \in {"mysql", "gorm", "mongodb"}
  /\ items = [i \in ItemId |-> IF i <= 2 THEN seed ELSE NoItem]
  /\ lastItem = 2
  /\ visit = [v \in Visitor |-> AtHome]
  /\ visits = 0 /\ crudFaults = 0
  /\ born = [i \in ItemId |-> IF i <= 2 THEN 1 ELSE 0] /\ killed = [i \in ItemId |-> 0]
  /\ buried = {} /\ overtaken = {}

Has(i) == i \in ItemId /\ items[i] # NoItem
Replied(v, answer, affected) ==
  visit' = [visit EXCEPT ![v].pc = "home", ![v].answer = answer, ![v].affected = affected]
Drops(v) == Replied(v, "dropped", 0)

(* A query fails for the database's reasons, and the handler panics.       *)
QueryFails == crudFaults < MaxCrudFaults /\ crudFaults' = crudFaults + 1
DropsFailed(v) ==
  visit' = [visit EXCEPT ![v].pc = "home", ![v].answer = "dropped", ![v].failed = TRUE]

(* What was carried out is answered; or it comes back as an error, and the *)
(* handler panics although it was carried out.                             *)
Reports(v, answer, affected) ==
  \/ Replied(v, answer, affected) /\ UNCHANGED crudFaults
  \/ QueryFails /\ DropsFailed(v)

BadId == IF backend = "mongodb" THEN "bad_id" ELSE "dropped"

Visit(v) ==
  /\ visit[v].pc = "home" /\ visits < MaxVisits
  /\ visits' = visits + 1
  /\ \/ visit' = [visit EXCEPT ![v] = [AtHome EXCEPT !.pc = "add", !.op = "add"]]
     \/ \E op \in {"edit", "update", "delete"}, i \in UrlId :
          visit' = [visit EXCEPT ![v] = [AtHome EXCEPT !.pc = op, !.op = op, !.id = i]]
     \/ \E op \in {"edit", "update", "delete"} :
          visit' = [visit EXCEPT ![v] = [AtHome EXCEPT !.op = op, !.id = NotAnId, !.answer = BadId]]
  /\ UNCHANGED <<backend, items, lastItem, crudFaults, born, killed, buried, overtaken>>

NextItem(i) == i = lastItem + 1
Fresh(i) == i \in ItemId /\ ~Has(i) /\ NextItem(i)

LastInsert(i) == IF i > lastItem THEN i ELSE lastItem

(* A row is made, under the id that it has or under the next one. *)
Creates(v, i, updated) ==
  /\ items' = [items EXCEPT ![i] = [by |-> v, updated |-> updated]]
  /\ born' = [born EXCEPT ![i] = @ + 1]
  /\ lastItem' = LastInsert(i)
  /\ Reports(v, "redirect", 1)

Add(v) ==
  /\ visit[v].pc = "add"
  /\ \E i \in ItemId : Fresh(i) /\ Creates(v, i, FALSE)
  /\ UNCHANGED <<backend, visits, killed, buried, overtaken>>

(* Of an item that is not there gorm and mgo show an empty form. *)
FormOrPanic(v, i) == IF Has(i) THEN Replied(v, "form", 0) ELSE Drops(v)
FormAnyway(v, i) == Replied(v, IF Has(i) THEN "form" ELSE "empty_form", 0)

Edit(v) ==
  /\ visit[v].pc = "edit"
  /\ IF backend = "mysql" THEN FormOrPanic(v, visit[v].id) ELSE FormAnyway(v, visit[v].id)
  /\ UNCHANGED <<backend, items, lastItem, visits, crudFaults, born, killed, buried, overtaken>>

UpdateOnly(v, i) ==
  /\ items' = IF Has(i) THEN [items EXCEPT ![i] = [by |-> v, updated |-> TRUE]] ELSE items
  /\ Reports(v, "redirect", IF Has(i) THEN 1 ELSE 0)
  /\ UNCHANGED <<lastItem, born>>

(* One UPDATE; mgo's Find before it is read into a post that is not used.  *)
UpdateItem(v) ==
  /\ visit[v].pc = "update" /\ backend # "gorm"
  /\ UpdateOnly(v, visit[v].id)
  /\ UNCHANGED <<backend, visits, killed, buried, overtaken>>

(* gorm's Find, whose error nobody looks at: the post keeps the id zero.   *)
Find(v) ==
  /\ visit[v].pc = "update" /\ backend = "gorm"
  /\ \/ /\ visit' = [visit EXCEPT ![v].pc = "save", ![v].post = IF Has(visit[v].id) THEN visit[v].id ELSE 0]
        /\ UNCHANGED crudFaults
     \/ QueryFails /\ visit' = [visit EXCEPT ![v].pc = "save", ![v].failed = TRUE]
  /\ UNCHANGED <<backend, items, lastItem, visits, born, killed, buried, overtaken>>

(* gorm's Save makes a row of a post with no id; an UPDATE of no row is    *)
(* the end in older releases, and in newer ones a First and a Create.      *)
Save(v) ==
  LET i == visit[v].post IN
  /\ visit[v].pc = "save"
  /\ \/ i = 0 /\ \E j \in ItemId : Fresh(j) /\ Creates(v, j, TRUE)
     \/ i # 0 /\ UpdateOnly(v, i)
     \/ /\ i # 0 /\ ~Has(i) /\ visit' = [visit EXCEPT ![v].pc = "first"]
        /\ UNCHANGED <<items, lastItem, born, crudFaults>>
  /\ UNCHANGED <<backend, visits, killed, buried, overtaken>>

FirstOrCreate(v) ==
  LET i == visit[v].post IN
  /\ visit[v].pc = "first"
  /\ \/ Has(i) /\ Replied(v, "redirect", 0) /\ UNCHANGED <<items, lastItem, born, crudFaults>>
     \/ ~Has(i) /\ Creates(v, i, TRUE)
  /\ UNCHANGED <<backend, visits, killed, buried, overtaken>>

(* The rows that a Delete takes: gorm puts no condition on an id of zero.  *)
Taken(i) == IF backend = "gorm" /\ i = 0 THEN {j \in ItemId : Has(j)} ELSE {j \in {i} : Has(j)}
AffectedAnyway(taken) == IF backend = "mongodb" THEN 1 ELSE Cardinality(taken)
Affected(taken) == Cardinality(taken)

Said(j, i, taken) == j \in taken \/ (j = i /\ Affected(taken) > 0)
Delete(v) ==
  LET i == visit[v].id
      taken == Taken(i)
      found == {visit[u].post : u \in {w \in Visitor : visit[w].pc \in {"save", "first"}}}
  IN
  /\ visit[v].pc = "delete"
  /\ items' = [j \in ItemId |-> IF j \in taken THEN NoItem ELSE items[j]]
  /\ Reports(v, "json", Affected(taken))
  /\ killed' = [j \in ItemId |->
       killed[j] + IF Said(j, i, taken) /\ crudFaults' = crudFaults THEN 1 ELSE 0]
  /\ buried' = buried \cup taken
  /\ overtaken' = overtaken \cup (taken \cap found)
  /\ UNCHANGED <<backend, lastItem, visits, born>>

(* A query that is not carried out.  Only mgo's Edit shows a form then.    *)
StatementPanics(v) ==
  IF backend = "mongodb" /\ visit[v].op = "edit" THEN Replied(v, "empty_form", 0) ELSE DropsFailed(v)
StatementFails(v) ==
  /\ visit[v].pc \in {"add", "edit", "update", "delete", "save", "first"}
  /\ ~(visit[v].pc = "update" /\ backend = "gorm")
  /\ QueryFails
  /\ StatementPanics(v)
  /\ UNCHANGED <<backend, items, lastItem, visits, born, killed, buried, overtaken>>

(* No id is left for the bound: the request waits for ever, so it is sent  *)
(* home without an answer.                                                 *)
OutOfIds(v) ==
  /\ visit[v].pc \in {"add", "save"} /\ lastItem = MaxItem /\ visit[v].post = 0
  /\ visit' = [visit EXCEPT ![v] = AtHome]
  /\ UNCHANGED <<backend, items, lastItem, visits, crudFaults, born, killed, buried, overtaken>>

VisitStep(v) ==
  Add(v) \/ Edit(v) \/ UpdateItem(v) \/ Find(v) \/ Save(v) \/ FirstOrCreate(v) \/ Delete(v) \/ OutOfIds(v)
CrudNext == \E v \in Visitor : Visit(v) \/ VisitStep(v) \/ StatementFails(v)

CrudSpec == CrudInit /\ [][CrudNext]_crudVars

(***************************************************************************)
(* What the pages promise.                                                 *)
(***************************************************************************)

(* Types: of the items, the last id and the visits.                        *)
CrudTypeOK ==
  /\ items \in [ItemId -> [by : Visitor \cup {"seed", "nobody"}, updated : BOOLEAN]]
  /\ lastItem \in 0..MaxItem /\ \A i \in ItemId : Has(i) => i <= lastItem
  /\ \A v \in Visitor : visit[v].id \in UrlId \cup {NotAnId} /\ visit[v].affected \in 0..MaxItem

(* An item that a Delete has taken does not come back, with one exception, *)
(* in gorm's Update: it reads the row and saves it later, and a Delete     *)
(* that overtakes it between the two is undone.                            *)
BuriedStaysBuried ==
  \A i \in buried : Has(i) => i \in overtaken /\ backend = "gorm" /\ items[i].updated

(* Two Deletes are not both told that they removed the same item, unless   *)
(* the item was made twice; and a Delete that removed one says so, unless  *)
(* what it did came back as an error, which happens once for each query    *)
(* that fails.                                                             *)
AnswersAddUp ==
  \A i \in ItemId : (born[i] - (IF Has(i) THEN 1 ELSE 0)) - killed[i] \in 0..crudFaults

(* A visitor's connection is dropped because of a query that failed, an id *)
(* that is none, or, over database/sql, a form for an item that is gone:   *)
(* losing a race with another visitor's Delete is no reason.               *)
DroppedForAReason ==
  \A v \in Visitor : visit[v].answer = "dropped" =>
    \/ visit[v].failed
    \/ visit[v].id = NotAnId /\ backend # "mongodb"
    \/ visit[v].op = "edit" /\ backend = "mysql"

(* The items, and what the pages said was done to them, agree.             *)
ItemsKept == CrudTypeOK /\ BuriedStaysBuried /\ AnswersAddUp /\ DroppedForAReason
=============================================================================

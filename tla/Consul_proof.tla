----------------------------- MODULE Consul_proof -----------------------------
(***************************************************************************)
(* Theorems about consul's clients: the load-balancing client for any set  *)
(* of servers, the registry and the resolver that watches it for any       *)
(* servers, first index and number of changes.                             *)
(***************************************************************************)
EXTENDS LoadBalancer, ConsulResolver, ConsulConfig, FiniteSetTheorems, TLAPS

(***************************************************************************)
(* LoadBalancer: its three channels lose and mix up nothing.               *)
(***************************************************************************)

(* No address is both added and deleted. *)
Consistent(us) == \A u, v \in us : u.addr = v.addr => u.op = v.op

(* The updates that inject has yet to see taken. *)
Owed == Cardinality(left) + (IF update = NoUpdate THEN 0 ELSE 1)

(* Nothing is on its way to Next, or a batch is whose size it knows or     *)
(* will know, or whose end it has just seen.                               *)
Quiet == left = {} /\ side = NoBatch /\ update = NoUpdate /\ next.pc \in {"side", "apply"}
Open == \/ side = Owed /\ next.pc \in {"side", "apply"}
        \/ side = NoBatch /\ next.pc = "update" /\ next.n = Owed
        \/ side = NoBatch /\ next.pc = "done" /\ Owed = 0

LbTypes ==
  /\ LbTypeOK
  /\ registry \subseteq Server
  /\ IsFiniteSet(later) /\ IsFiniteSet(left)

(* Where the client is, and what the channels then hold: the goroutine     *)
(* that Resolve started waits for the answer to the first batch only.      *)
InPhase ==
  /\ client = "lookup" => /\ next.pc = "off" /\ side = NoBatch /\ update = NoUpdate
                          /\ later = {} /\ left = {} /\ lbAddrs = {} /\ currAddrs = {}
  /\ client = "dial" => /\ left = {}
                        /\ \/ helper /\ Open /\ next.pc # "apply" /\ lbAddrs = {}
                           \/ ~helper /\ Quiet
  /\ client = "inject" => /\ side = NoBatch /\ update = NoUpdate /\ left # {}
                          /\ next.pc \in {"side", "apply"}
  /\ client = "send" => Open /\ left # {}
  /\ client = "wait" => Open /\ left = {}
  /\ client = "polling" => Quiet
  /\ client = "dead" => /\ left = {} /\ side = NoBatch /\ update = NoUpdate
                        /\ next.pc \in {"off", "side", "apply"}
  /\ client # "dial" => ~helper
  /\ client \notin {"lookup", "dial"} => later = {}

(* What Next has taken and what it will take contradict each other only    *)
(* when the former is a batch that is complete.                            *)
Ordered ==
  /\ Consistent(Waiting)
  /\ next.pc \in {"off", "side"} => next.got = {}
  /\ next.pc = "update" => Consistent(next.got \cup Waiting)

LbIInv == LbTypes /\ InPhase /\ Ordered /\ AddrsInStep

(***************************************************************************)
(* Updates, applied.                                                       *)
(***************************************************************************)

LEMMA UpdatesAre ==
  ASSUME NEW S \in SUBSET Server, NEW op \in {"Add", "Delete"}
  PROVE  /\ Updates(op, S) \subseteq Update /\ IsFiniteSet(Updates(op, S))
         /\ Addrs(op, Updates(op, S)) = S
         /\ \A u \in Updates(op, S) : u.op = op /\ u.addr \in S
<1>1. Updates(op, S) \subseteq Update /\ \A u \in Updates(op, S) : u.op = op /\ u.addr \in S
  BY DEF Updates, Update
<1>2. Addrs(op, Updates(op, S)) = S
  <2>1. ASSUME NEW a \in S PROVE a \in Addrs(op, Updates(op, S))
    <3>1. [op |-> op, addr |-> a] \in Updates(op, S)
      BY DEF Updates
    <3> QED
      BY <3>1 DEF Addrs
  <2>2. Addrs(op, Updates(op, S)) \subseteq S
    BY <1>1 DEF Addrs
  <2> QED
    BY <2>1, <2>2
<1>3. IsFiniteSet(S)
  BY LbAssumption, FS_Subset
<1>4. [a \in S |-> [op |-> op, addr |-> a]] \in Surjection(S, Updates(op, S))
  BY DEF Surjection, Updates
<1>5. IsFiniteSet(Updates(op, S))
  BY <1>3, <1>4, FS_Surjection
<1> QED
  BY <1>1, <1>2, <1>5

LEMMA NoneApplied == ASSUME NEW A PROVE Applied(A, {}) = A
BY DEF Applied, Addrs

(* It makes no difference to which of two batches an update belongs that   *)
(* contradicts neither.                                                    *)
LEMMA OneMoves ==
  ASSUME NEW A, NEW G \in SUBSET Update, NEW W \in SUBSET Update, NEW u \in Update,
         Consistent(G \cup W \cup {u})
  PROVE  Applied(Applied(A, G), W \cup {u}) = Applied(Applied(A, G \cup {u}), W)
<1>1. CASE u.op = "Add"
  <2>1. /\ Addrs("Add", G \cup {u}) = Addrs("Add", G) \cup {u.addr}
        /\ Addrs("Add", W \cup {u}) = Addrs("Add", W) \cup {u.addr}
        /\ Addrs("Delete", G \cup {u}) = Addrs("Delete", G)
        /\ Addrs("Delete", W \cup {u}) = Addrs("Delete", W)
    BY <1>1 DEF Addrs
  <2>2. u.addr \notin Addrs("Delete", W)
    BY <1>1 DEF Addrs, Consistent
  <2> QED
    BY <2>1, <2>2 DEF Applied
<1>2. CASE u.op = "Delete"
  <2>1. /\ Addrs("Delete", G \cup {u}) = Addrs("Delete", G) \cup {u.addr}
        /\ Addrs("Delete", W \cup {u}) = Addrs("Delete", W) \cup {u.addr}
        /\ Addrs("Add", G \cup {u}) = Addrs("Add", G)
        /\ Addrs("Add", W \cup {u}) = Addrs("Add", W)
    BY <1>2 DEF Addrs
  <2>2. u.addr \notin Addrs("Add", W) /\ u.addr \notin Addrs("Add", G)
    BY <1>2 DEF Addrs, Consistent
  <2> QED
    BY <2>1, <2>2 DEF Applied
<1> QED
  BY <1>1, <1>2 DEF Update

(* The batch that leads from one set of addresses to another does.         *)
LEMMA BatchLeadsTo ==
  ASSUME NEW A, NEW B \in SUBSET Server, A \subseteq Server
  PROVE  LET batch == Updates("Delete", A \ B) \cup Updates("Add", B \ A)
         IN  /\ batch \subseteq Update /\ IsFiniteSet(batch) /\ Consistent(batch)
             /\ Applied(A, batch) = B
<1> DEFINE del == Updates("Delete", A \ B)
           add == Updates("Add", B \ A)
<1>1. /\ del \subseteq Update /\ IsFiniteSet(del)
      /\ Addrs("Delete", del) = A \ B
      /\ \A u \in del : u.op = "Delete" /\ u.addr \in A \ B
  BY UpdatesAre
<1>2. /\ add \subseteq Update /\ IsFiniteSet(add)
      /\ Addrs("Add", add) = B \ A
      /\ \A u \in add : u.op = "Add" /\ u.addr \in B \ A
  BY UpdatesAre
<1> HIDE DEF del, add
<1>3. IsFiniteSet(del \cup add)
  BY <1>1, <1>2, FS_Union
<1>4. Consistent(del \cup add)
  BY <1>1, <1>2 DEF Consistent
<1>5. Addrs("Delete", del \cup add) = A \ B /\ Addrs("Add", del \cup add) = B \ A
  BY <1>1, <1>2 DEF Addrs
<1>6. Applied(A, del \cup add) = B
  BY <1>5 DEF Applied
<1> QED
  BY <1>1, <1>2, <1>3, <1>4, <1>6 DEF del, add

(***************************************************************************)
(* The invariant.                                                          *)
(***************************************************************************)

LEMMA OwedIs ==
  ASSUME LbIInv
  PROVE  /\ Owed \in Nat
         /\ Owed = 0 <=> left = {} /\ update = NoUpdate
         /\ Cardinality(left) \in Nat /\ (Cardinality(left) = 0 <=> left = {})
BY FS_CardinalityType, FS_EmptySet DEF LbIInv, LbTypes, LbTypeOK, Owed

LEMMA InitLbIInv == ConsulInit /\ LbInit => LbIInv
<1> SUFFICES ASSUME ConsulInit, LbInit PROVE LbIInv
  OBVIOUS
<1>1. LbTypes
  BY FS_EmptySet DEF ConsulInit, LbInit, LbTypes, LbTypeOK
<1>2. InPhase
  BY DEF LbInit, InPhase
<1>3. Waiting = {}
  BY DEF LbInit, Waiting
<1>4. Ordered
  BY <1>3 DEF LbInit, Ordered, Consistent
<1>5. AddrsInStep
  BY <1>3, NoneApplied DEF LbInit, AddrsInStep
<1> QED
  BY <1>1, <1>2, <1>4, <1>5 DEF LbIInv

LEMMA LookupKeeps == ASSUME LbIInv, Lookup, UNCHANGED consulVars PROVE LbIInv'
<1>0. registry' = registry
  BY DEF consulVars
<1>1. ASSUME NEW first \in registry,
             later' = Updates("Add", registry \ {first}),
             update' = [op |-> "Add", addr |-> first],
             client' = "dial", currAddrs' = registry, side' = 1, helper' = TRUE,
             next' = [next EXCEPT !.pc = "side"],
             UNCHANGED <<left, lbAddrs>>
      PROVE  LbIInv'
  <2>1. /\ next.pc = "off" /\ next.got = {} /\ left = {} /\ lbAddrs = {} /\ registry \subseteq Server
        /\ next \in [pc : {"off", "side", "update", "done", "apply"}, n : Nat, got : SUBSET Update]
    BY DEF Lookup, LbIInv, InPhase, Ordered, LbTypes, LbTypeOK
  <2>2. update' \in Update
    BY <1>1, <2>1 DEF Update
  <2>3. /\ later' \subseteq Update /\ IsFiniteSet(later')
        /\ \A u \in later' : u.op = "Add"
        /\ Addrs("Add", later') = registry \ {first}
    <3>1. registry \ {first} \in SUBSET Server
      BY <2>1
    <3> QED
      BY <1>1, <3>1, UpdatesAre
  <2>4. LbTypes'
    BY <1>0, <1>1, <2>1, <2>2, <2>3, FS_EmptySet DEF LbTypes, LbTypeOK
  <2>5. Owed' = 1
    BY <1>1, <2>1, <2>2, LbAssumption, FS_EmptySet DEF Owed
  <2>6. InPhase'
    BY <1>1, <2>1, <2>5 DEF InPhase, Open
  <2>7. Waiting' = later' \cup {update'}
    BY <1>1, <2>1, <2>2, LbAssumption DEF Waiting
  <2>8. \A u \in Waiting' : u.op = "Add"
    BY <1>1, <2>3, <2>7
  <2>9. Addrs("Add", Waiting') = registry
    <3>1. Addrs("Add", Waiting') = {u.addr : u \in Waiting'}
      BY <2>8 DEF Addrs
    <3>2. Addrs("Add", later') = {u.addr : u \in later'}
      BY <2>3 DEF Addrs
    <3>3. update'.addr = first
      BY <1>1
    <3>4. {u.addr : u \in later' \cup {update'}} = {u.addr : u \in later'} \cup {update'.addr}
      OBVIOUS
    <3>5. first \in registry /\ Addrs("Add", later') = registry \ {first}
      BY <2>3
    <3> QED
      BY <2>7, <3>1, <3>2, <3>3, <3>4, <3>5
  <2>10. Addrs("Delete", Waiting') = {}
    BY <2>8 DEF Addrs
  <2>11. Ordered'
    BY <1>1, <2>1, <2>8 DEF Ordered, Consistent
  <2>12. Applied({}, Waiting') = registry
    BY <2>9, <2>10 DEF Applied
  <2>13. AddrsInStep'
    BY <1>1, <2>1, <2>12, NoneApplied DEF AddrsInStep
  <2> QED
    BY <2>4, <2>6, <2>11, <2>13 DEF LbIInv
<1>2. CASE client' = "dead" /\ UNCHANGED <<currAddrs, later, left, side, update, helper, next, lbAddrs>>
  BY <1>0, <1>2 DEF Lookup, LbIInv, LbTypes, LbTypeOK, InPhase, Ordered, AddrsInStep, Waiting
<1> QED
  BY <1>1, <1>2 DEF Lookup

LEMMA DialledKeeps == ASSUME LbIInv, Dialled, UNCHANGED consulVars PROVE LbIInv'
<1>1. /\ client = "dial" /\ lbAddrs # {} /\ left' = later /\ later' = {}
      /\ client' = IF later # {} THEN "inject" ELSE "polling"
      /\ UNCHANGED <<currAddrs, side, update, helper, next, lbAddrs, registry>>
  BY DEF Dialled, consulVars
<1>2. Quiet /\ ~helper
  BY <1>1 DEF LbIInv, InPhase
<1>3. Waiting' = Waiting
  BY <1>1, <1>2 DEF Waiting, Quiet
<1>4. LbTypes'
  BY <1>1, FS_EmptySet DEF LbIInv, LbTypes, LbTypeOK
<1>5. InPhase'
  BY <1>1, <1>2 DEF InPhase, Quiet
<1>6. Ordered' /\ AddrsInStep'
  BY <1>1, <1>3 DEF LbIInv, Ordered, AddrsInStep
<1> QED
  BY <1>4, <1>5, <1>6 DEF LbIInv

LEMMA PollKeeps == ASSUME LbIInv, Poll, UNCHANGED consulVars PROVE LbIInv'
<1> DEFINE batch == Updates("Delete", currAddrs \ registry) \cup Updates("Add", registry \ currAddrs)
<1>1. /\ client = "polling" /\ batch # {} /\ left' = batch /\ client' = "inject"
      /\ currAddrs' = registry
      /\ UNCHANGED <<later, side, update, helper, next, lbAddrs, registry>>
  BY DEF Poll, Removed, consulVars
<1>2. Quiet /\ later = {} /\ ~helper
  BY <1>1 DEF LbIInv, InPhase
<1>3. registry \subseteq Server /\ currAddrs \subseteq Server
  BY DEF LbIInv, LbTypes, LbTypeOK
<1>4. /\ batch \subseteq Update /\ IsFiniteSet(batch) /\ Consistent(batch)
      /\ Applied(currAddrs, batch) = registry
  BY <1>3, BatchLeadsTo
<1> HIDE DEF batch
<1>5. Waiting = {} /\ Waiting' = batch
  BY <1>1, <1>2 DEF Waiting, Quiet
<1>6. Applied(lbAddrs, next.got) = currAddrs
  BY <1>5, NoneApplied DEF LbIInv, AddrsInStep
<1>7. AddrsInStep'
  BY <1>1, <1>4, <1>5, <1>6 DEF AddrsInStep
<1>8. LbTypes'
  BY <1>1, <1>3, <1>4 DEF LbIInv, LbTypes, LbTypeOK
<1>9. InPhase'
  BY <1>1, <1>2 DEF InPhase, Quiet
<1>10. Ordered'
  BY <1>1, <1>2, <1>4, <1>5 DEF LbIInv, Ordered, Quiet
<1> QED
  BY <1>7, <1>8, <1>9, <1>10 DEF LbIInv

LEMMA SendSizeKeeps == ASSUME LbIInv, SendSize, UNCHANGED consulVars PROVE LbIInv'
<1>1. /\ client = "inject" /\ side' = Cardinality(left) /\ client' = "send"
      /\ UNCHANGED <<currAddrs, later, left, update, helper, next, lbAddrs, registry>>
  BY DEF SendSize, BatchSize, consulVars
<1>2. /\ update = NoUpdate /\ left # {} /\ next.pc \in {"side", "apply"} /\ later = {} /\ ~helper
      /\ Cardinality(left) \in Nat
  BY <1>1, OwedIs DEF LbIInv, InPhase
<1>3. Owed' = side'
  BY <1>1, <1>2 DEF Owed
<1>4. LbTypes'
  BY <1>1, <1>2 DEF LbIInv, LbTypes, LbTypeOK
<1>5. InPhase'
  BY <1>1, <1>2, <1>3 DEF InPhase, Open
<1>6. Ordered' /\ AddrsInStep'
  BY <1>1 DEF LbIInv, Ordered, AddrsInStep, Waiting
<1> QED
  BY <1>4, <1>5, <1>6 DEF LbIInv

LEMMA SendUpdateKeeps == ASSUME LbIInv, SendUpdate, UNCHANGED consulVars PROVE LbIInv'
<1>1. PICK u \in left :
        /\ client = "send" /\ update = NoUpdate /\ update' = u /\ left' = left \ {u}
        /\ client' = IF left = {u} THEN "wait" ELSE "send"
        /\ UNCHANGED <<currAddrs, later, side, helper, next, lbAddrs, registry>>
  BY DEF SendUpdate, AfterSending, consulVars
<1>2. /\ u \in Update /\ u # NoUpdate /\ IsFiniteSet(left) /\ IsFiniteSet(left')
      /\ Open /\ left # {} /\ later = {} /\ ~helper
  <2>1. u \in Update /\ IsFiniteSet(left)
    BY DEF LbIInv, LbTypes, LbTypeOK
  <2> QED
    BY <1>1, <2>1, LbAssumption, FS_RemoveElement DEF LbIInv, InPhase
<1>3. Owed' = Owed
  <2>1. Cardinality(left') = Cardinality(left) - 1 /\ Cardinality(left) \in Nat
    BY <1>1, <1>2, FS_RemoveElement, FS_CardinalityType
  <2> QED
    BY <1>1, <1>2, <2>1 DEF Owed
<1>4. Waiting' = Waiting
  BY <1>1, <1>2 DEF Waiting
<1>5. LbTypes'
  BY <1>1, <1>2 DEF LbIInv, LbTypes, LbTypeOK
<1>6. Open'
  BY <1>1, <1>2, <1>3 DEF Open
<1>7. InPhase'
  BY <1>1, <1>2, <1>6 DEF InPhase
<1>8. Ordered' /\ AddrsInStep'
  BY <1>1, <1>4 DEF LbIInv, Ordered, AddrsInStep
<1> QED
  BY <1>5, <1>7, <1>8 DEF LbIInv

LEMMA NextSizeKeeps == ASSUME LbIInv, NextSize, UNCHANGED consulVars PROVE LbIInv'
<1>1. /\ next.pc = "side" /\ side # NoBatch
      /\ next' = [pc |-> "update", n |-> side, got |-> {}] /\ side' = NoBatch
      /\ UNCHANGED <<client, currAddrs, later, left, update, helper, lbAddrs, registry>>
  BY DEF NextSize, consulVars
<1>2. /\ client \in {"dial", "send", "wait"} /\ side = Owed /\ side \in Nat /\ next.got = {}
      /\ client = "dial" => helper
  BY <1>1 DEF LbIInv, LbTypes, LbTypeOK, InPhase, Open, Quiet, Ordered
<1>3. LbTypes'
  BY <1>1, <1>2 DEF LbIInv, LbTypes, LbTypeOK
<1>4. Owed' = Owed /\ Waiting' = Waiting
  BY <1>1 DEF Owed, Waiting
<1>5. Open'
  BY <1>1, <1>2, <1>4 DEF Open
<1>6. InPhase'
  BY <1>1, <1>2, <1>5 DEF LbIInv, InPhase
<1>7. Ordered' /\ AddrsInStep'
  BY <1>1, <1>2, <1>4 DEF LbIInv, Ordered, AddrsInStep
<1> QED
  BY <1>3, <1>6, <1>7 DEF LbIInv

LEMMA NextUpdateKeeps == ASSUME LbIInv, NextUpdate, UNCHANGED consulVars PROVE LbIInv'
<1>1. /\ next.pc = "update" /\ update # NoUpdate /\ update' = NoUpdate
      /\ next' = [pc |-> IF next.n = 1 THEN "done" ELSE "update",
                  n |-> next.n - 1, got |-> next.got \cup {update}]
      /\ UNCHANGED <<client, currAddrs, later, left, side, helper, lbAddrs, registry>>
  BY DEF NextUpdate, consulVars
<1>2. /\ client \in {"dial", "send", "wait"} /\ side = NoBatch /\ next.n = Owed
      /\ client = "dial" => helper
      /\ update \in Update /\ next.got \subseteq Update
      /\ later \subseteq Update /\ left \subseteq Update
      /\ Consistent(next.got \cup Waiting)
  BY <1>1 DEF LbIInv, LbTypes, LbTypeOK, InPhase, Open, Quiet, Ordered
<1>3. Owed \in Nat \ {0} /\ Owed' = Owed - 1
  BY <1>1, OwedIs DEF Owed
<1>4. LbTypes'
  BY <1>1, <1>2, <1>3 DEF LbIInv, LbTypes, LbTypeOK
<1>5. Open'
  BY <1>1, <1>2, <1>3 DEF Open
<1>6. InPhase'
  BY <1>1, <1>2, <1>5 DEF LbIInv, InPhase
<1>7. Waiting = Waiting' \cup {update} /\ Waiting' \subseteq Update
  BY <1>1, <1>2 DEF Waiting
<1>8. Consistent(next.got \cup Waiting' \cup {update})
  <2>1. next.got \cup Waiting' \cup {update} = next.got \cup Waiting
    BY <1>7
  <2> QED
    BY <1>2, <2>1
<1>9. Ordered'
  <2>1. next'.got \cup Waiting' = next.got \cup Waiting
    BY <1>1, <1>7
  <2>2. Consistent(Waiting')
    BY <1>8 DEF Consistent
  <2> QED
    BY <1>1, <1>2, <2>1, <2>2 DEF Ordered
<1>10. AddrsInStep'
  <2>1. Applied(Applied(lbAddrs, next.got), Waiting) = currAddrs
    BY DEF LbIInv, AddrsInStep
  <2>2. Applied(Applied(lbAddrs, next.got), Waiting' \cup {update})
          = Applied(Applied(lbAddrs, next.got \cup {update}), Waiting')
    BY <1>2, <1>7, <1>8, OneMoves
  <2> QED
    BY <1>1, <1>7, <2>1, <2>2 DEF AddrsInStep
<1> QED
  BY <1>4, <1>6, <1>9, <1>10 DEF LbIInv

LEMMA ReadDoneKeeps == ASSUME LbIInv, ReadDone, UNCHANGED consulVars PROVE LbIInv'
<1>1. /\ next.pc = "done" /\ next' = [next EXCEPT !.pc = "apply"]
      /\ UNCHANGED <<currAddrs, later, left, side, update, lbAddrs, registry>>
  BY DEF ReadDone, consulVars
<1>2. client \in {"dial", "send", "wait"} /\ side = NoBatch /\ left = {} /\ update = NoUpdate
  BY <1>1, OwedIs DEF LbIInv, LbTypes, LbTypeOK, InPhase, Open, Quiet
<1>3. next \in [pc : {"off", "side", "update", "done", "apply"}, n : Nat, got : SUBSET Update]
  BY DEF LbIInv, LbTypes, LbTypeOK
<1>4. next'.pc = "apply" /\ next'.got = next.got
  BY <1>1, <1>3
<1>5. Quiet' /\ Waiting' = Waiting
  BY <1>1, <1>2, <1>4 DEF Quiet, Waiting
<1>6. Ordered' /\ AddrsInStep'
  BY <1>1, <1>4, <1>5 DEF LbIInv, Ordered, AddrsInStep
<1>7. LbTypes'
  BY <1>1, <1>3 DEF ReadDone, LbIInv, LbTypes, LbTypeOK
<1>8. InPhase'
  <2>1. CASE helper /\ helper' = FALSE /\ UNCHANGED client
    <3>1. client = "dial"
      BY <2>1 DEF LbIInv, InPhase
    <3>2. client' = "dial" /\ left' = {} /\ ~helper' /\ Quiet'
      BY <1>5, <2>1, <3>1 DEF Quiet
    <3> QED
      BY <3>2 DEF InPhase
  <2>2. CASE client = "wait" /\ client' = "polling" /\ UNCHANGED helper
    BY <1>1, <1>5, <2>2 DEF LbIInv, InPhase
  <2> QED
    BY <2>1, <2>2 DEF ReadDone
<1> QED
  BY <1>6, <1>7, <1>8 DEF LbIInv

LEMMA ApplyKeeps == ASSUME LbIInv, Apply, UNCHANGED consulVars PROVE LbIInv'
<1>1. /\ next.pc = "apply" /\ next' = [pc |-> "side", n |-> 0, got |-> {}]
      /\ lbAddrs' = Applied(lbAddrs, next.got)
      /\ UNCHANGED <<client, currAddrs, later, left, side, update, helper, registry>>
  BY DEF Apply, consulVars
<1>2. LbTypes'
  <2>1. lbAddrs' \subseteq Server
    BY <1>1 DEF LbIInv, LbTypes, LbTypeOK, Applied, Addrs, Update
  <2> QED
    BY <1>1, <2>1 DEF LbIInv, LbTypes, LbTypeOK
<1>3. Owed' = Owed /\ Waiting' = Waiting
  BY <1>1 DEF Owed, Waiting
<1>4. (Quiet => Quiet') /\ (Open => Open')
  BY <1>1, <1>3 DEF Quiet, Open
<1>5. InPhase'
  BY <1>1, <1>4 DEF LbIInv, InPhase
<1>6. Ordered' /\ AddrsInStep'
  BY <1>1, <1>3, NoneApplied DEF LbIInv, Ordered, AddrsInStep
<1> QED
  BY <1>2, <1>5, <1>6 DEF LbIInv

LEMMA ConsulUnreachableKeeps ==
  ASSUME LbIInv, ConsulUnreachable, UNCHANGED consulVars PROVE LbIInv'
BY DEF ConsulUnreachable, consulVars, LbIInv, LbTypes, LbTypeOK, InPhase, Quiet, Ordered, AddrsInStep, Waiting

(* The registry is not the client's business until it asks. *)
LEMMA RegistryMoves == ASSUME LbIInv, [ConsulNext]_consulVars, UNCHANGED lbVars PROVE LbIInv'
<1>1. registry' \subseteq Server
  BY DEF LbIInv, LbTypes, LbTypeOK, ConsulNext, consulVars, Listen, ServiceRegister, ServiceDeregister,
         MainReturns, ServerCrash, Change
<1> QED
  BY <1>1 DEF lbVars, LbIInv, LbTypes, LbTypeOK, InPhase, Open, Quiet, Owed, Ordered, AddrsInStep, Waiting

LEMMA NextLbIInv ==
  ASSUME LbIInv,
         [(LbNext /\ UNCHANGED consulVars) \/ (ConsulNext /\ UNCHANGED lbVars)]_<<lbVars, consulVars>>
  PROVE  LbIInv'
<1>1. CASE LbNext /\ UNCHANGED consulVars
  BY <1>1, LookupKeeps, DialledKeeps, PollKeeps, SendSizeKeeps, SendUpdateKeeps, NextSizeKeeps,
     NextUpdateKeeps, ReadDoneKeeps, ApplyKeeps, ConsulUnreachableKeeps DEF LbNext, LbStep
<1>2. CASE [ConsulNext]_consulVars /\ UNCHANGED lbVars
  BY <1>2, RegistryMoves
<1> QED
  BY <1>1, <1>2

(* The three channels lose, double and mix up nothing: what the balancer   *)
(* has and all that is on its way to it make up the client's set, which is *)
(* changed first; and nobody takes the answer to another's batch: while    *)
(* the client polls nothing that it injected waits to be taken, although   *)
(* the goroutine of Resolve receives from the same channel (inject and     *)
(* runOnlineServiceDiscovery in client_lb.go, Next in balancer.go).        *)
THEOREM TheChannelsKeepStep == LbSpec => []ChannelsKeepStep
<1>1. LbIInv => LbTypeOK
  BY DEF LbIInv, LbTypes, LbTypeOK
<1>2. LbIInv => AddrsInStep
  BY DEF LbIInv
<1>3. LbIInv => InjectWaits
  BY DEF LbIInv, InPhase, Quiet, InjectWaits
<1>4. LbIInv => ChannelsKeepStep
  BY <1>1, <1>2, <1>3 DEF ChannelsKeepStep
<1> QED
  BY <1>4, InitLbIInv, NextLbIInv, PTL DEF LbSpec

(***************************************************************************)
(* The registry, and the resolver that watches it.                         *)
(***************************************************************************)

(* A registered server serves, whatever it did before, or was left behind. *)
ConsulIInv ==
  /\ process \in [Server -> {"down", "listening", "serving", "leaving"}]
  /\ registry \subseteq Server
  /\ cIndex \in Nat
  /\ \A s \in registry : process[s] = "serving" \/ s \in orphans

(* What consul answered is what is registered, as long as its index has    *)
(* not moved; only the first query may wait for an index still to come.    *)
ResolverIInv ==
  /\ lastIndex \in Nat
  /\ lastIndex <= cIndex \/ lastIndex = FirstIndex
  /\ watcher = "build" => lastIndex = FirstIndex
  /\ watcher = "update" =>
       lastIndex <= cIndex /\ (lastIndex = cIndex => newAddrs = registry)
  /\ NoChangeMissed

LEMMA InitConsulIInv == ConsulInit => ConsulIInv
BY DEF ConsulInit, ConsulIInv

LEMMA ConsulKeeps == ConsulIInv /\ [ConsulNext]_consulVars => ConsulIInv'
<1> SUFFICES ASSUME ConsulIInv, [ConsulNext]_consulVars PROVE ConsulIInv'
  OBVIOUS
<1> USE DEF ConsulIInv, Becomes, Change
<1>1. ASSUME NEW s \in Server, Listen(s) PROVE ConsulIInv'
  BY <1>1 DEF Listen
<1>2. ASSUME NEW s \in Server, ServiceRegister(s) PROVE ConsulIInv'
  BY <1>2 DEF ServiceRegister
<1>3. ASSUME NEW s \in Server, ServiceDeregister(s) PROVE ConsulIInv'
  BY <1>3 DEF ServiceDeregister
<1>4. ASSUME NEW s \in Server, ServerCrash(s) PROVE ConsulIInv'
  BY <1>4 DEF ServerCrash
<1>5. ASSUME NEW s \in Server, MainReturns(s) PROVE ConsulIInv'
  BY <1>5 DEF MainReturns
<1>6. CASE UNCHANGED consulVars
  BY <1>6 DEF consulVars
<1> QED
  BY <1>1, <1>2, <1>3, <1>4, <1>5, <1>6 DEF ConsulNext

(* Every change of the registry moves consul's index. *)
LEMMA IndexMoves ==
  ASSUME ConsulIInv, [ConsulNext]_consulVars
  PROVE  cIndex' \in Nat /\ cIndex <= cIndex' /\ (registry' # registry => cIndex < cIndex')
<1> USE DEF ConsulIInv, Change
<1>1. ASSUME NEW s \in Server, Listen(s) \/ MainReturns(s) \/ ServerCrash(s)
      PROVE  UNCHANGED <<registry, cIndex>>
  BY <1>1 DEF Listen, MainReturns, ServerCrash
<1>2. ASSUME NEW s \in Server, ServiceRegister(s) \/ ServiceDeregister(s)
      PROVE  \/ UNCHANGED <<registry, cIndex>>
             \/ cIndex' = cIndex + (IF registry' = registry THEN 0 ELSE 1)
  BY <1>2 DEF ServiceRegister, ServiceDeregister
<1>3. CASE UNCHANGED consulVars
  BY <1>3 DEF consulVars
<1> QED
  BY <1>1, <1>2, <1>3 DEF ConsulNext

LEMMA InitResolverIInv == ResolverInit /\ ConsulIInv => ResolverIInv
BY ResolverAssumption DEF ResolverInit, ConsulIInv, ResolverIInv, NoChangeMissed

LEMMA ResolverKeeps ==
  ASSUME ConsulIInv, ResolverIInv, ResolverNext, UNCHANGED consulVars
  PROVE  ResolverIInv'
<1> USE ResolverAssumption DEF ConsulIInv, ResolverIInv, consulVars, NoChangeMissed
<1>1. CASE Build
  BY <1>1 DEF Build
<1>2. CASE Answers
  BY <1>2 DEF Answers
<1>3. CASE QueryFails
  BY <1>3 DEF QueryFails
<1>4. CASE UpdateState
  BY <1>4 DEF UpdateState
<1> QED
  BY <1>1, <1>2, <1>3, <1>4 DEF ResolverNext, Query, QueryTimesOut

LEMMA ConsulMovesOn ==
  ASSUME ConsulIInv, ResolverIInv, [ConsulNext]_consulVars, UNCHANGED resolverVars
  PROVE  ResolverIInv'
<1>1. cIndex' \in Nat /\ cIndex <= cIndex' /\ (registry' # registry => cIndex < cIndex')
  BY IndexMoves
<1> QED
  BY <1>1, ResolverAssumption DEF ConsulIInv, ResolverIInv, resolverVars, NoChangeMissed

LEMMA InitSystem == ConsulInit /\ ResolverInit => ConsulIInv /\ ResolverIInv
BY InitConsulIInv, InitResolverIInv

LEMMA NextSystem ==
  ASSUME ConsulIInv, ResolverIInv,
         [\/ ResolverNext /\ UNCHANGED consulVars
          \/ ConsulNext /\ UNCHANGED resolverVars]_<<resolverVars, consulVars>>
  PROVE  ConsulIInv' /\ ResolverIInv'
<1>1. CASE ResolverNext /\ UNCHANGED consulVars
  BY <1>1, ConsulKeeps, ResolverKeeps
<1>2. CASE [ConsulNext]_consulVars /\ UNCHANGED resolverVars
  BY <1>2, ConsulKeeps, ConsulMovesOn
<1> QED
  BY <1>1, <1>2

(* Wherever servers die and whatever calls of consul fail, an address in   *)
(* the registry is listened on unless its server ended without taking it   *)
(* out (the order of main in the session servers of grpc_lb_sd); and no    *)
(* change falls between two blocking queries: the resolver takes the index *)
(* to wait for from the answer it passes on (watch, in consul.go).         *)
THEOREM TheRegistryIsTold == ResolverSpec => []RegistryIsTold
<1>1. ConsulIInv => RegisteredListen
  BY DEF ConsulIInv, RegisteredListen
<1>2. ResolverIInv => NoChangeMissed
  BY DEF ResolverIInv
<1>3. ConsulIInv /\ ResolverIInv => RegistryIsTold
  BY <1>1, <1>2 DEF RegistryIsTold
<1> QED
  BY <1>3, InitSystem, NextSystem, PTL DEF ResolverSpec

(***************************************************************************)
(* The configuration: what a request is given is no newer than what it says. *)
(***************************************************************************)

(* Indices only grow: what was loaded is behind consul, an answer under    *)
(* way is between the two, and what a request was given is behind both.    *)
ConfigIInv ==
  /\ kv \in Nat /\ consulLastIndex \in 0 .. kv /\ globalCfg = consulLastIndex
  /\ loader \in [pc : {"list", "compare"}, at : Nat]
  /\ loader.pc = "compare" => consulLastIndex <= loader.at /\ loader.at <= kv
  /\ cfgReq \in [ConfigRequest -> [pc : {"idle", "handle", "end"}, localCfg : Nat, version : Nat]]
  /\ \A r \in ConfigRequest :
       /\ cfgReq[r].pc = "handle" => cfgReq[r].localCfg <= consulLastIndex
       /\ cfgReq[r].pc = "end" => cfgReq[r].localCfg <= cfgReq[r].version

(* The index of the map in use never goes back: an older answer of consul  *)
(* is not there to be loaded.                                              *)
LEMMA LoadsNewer ==
  ASSUME ConfigIInv, LoadConfig
  PROVE  /\ consulLastIndex' \in 0 .. kv /\ consulLastIndex <= consulLastIndex'
         /\ globalCfg' = consulLastIndex'
BY DEF ConfigIInv, LoadConfig, IndexOfAnswer

(* A request that takes one step of its page. *)
LEMMA RequestServed ==
  ASSUME ConfigIInv, NEW r \in ConfigRequest,
         NEW q \in [pc : {"idle", "handle", "end"}, localCfg : Nat, version : Nat],
         q.pc = "handle" => q.localCfg <= consulLastIndex,
         q.pc = "end" => q.localCfg <= q.version,
         cfgReq' = [cfgReq EXCEPT ![r] = q],
         UNCHANGED <<kv, globalCfg, consulLastIndex, loader>>
  PROVE  ConfigIInv'
BY DEF ConfigIInv

LEMMA NextConfigIInv == ConfigIInv /\ [ConfigNext]_configVars => ConfigIInv'
<1> SUFFICES ASSUME ConfigIInv, [ConfigNext]_configVars PROVE ConfigIInv'
  OBVIOUS
<1> USE DEF ConfigIInv
<1>1. CASE KvPut
  BY <1>1 DEF KvPut
<1>2. CASE List
  BY <1>2 DEF List
<1>3. CASE ListEnds
  BY <1>3 DEF ListEnds
<1>4. CASE LoadConfig
  <2>1. \A r \in ConfigRequest : cfgReq[r].localCfg \in Nat
    OBVIOUS
  <2>2. \A r \in ConfigRequest : cfgReq[r].pc = "handle" => cfgReq[r].localCfg <= consulLastIndex'
    BY <1>4, <2>1, LoadsNewer
  <2> QED
    BY <1>4, <2>2, LoadsNewer DEF LoadConfig
<1>5. ASSUME NEW r \in ConfigRequest, configMiddleware(r) PROVE ConfigIInv'
  <2> DEFINE q == [cfgReq[r] EXCEPT !.pc = "handle", !.localCfg = globalCfg]
  <2>1. /\ q \in [pc : {"idle", "handle", "end"}, localCfg : Nat, version : Nat]
        /\ q.pc = "handle" /\ q.localCfg = consulLastIndex
    <3>1. PICK w \in [pc : {"idle", "handle", "end"}, localCfg : Nat, version : Nat] : w = cfgReq[r]
      OBVIOUS
    <3>2. globalCfg \in Nat /\ globalCfg = consulLastIndex
      OBVIOUS
    <3> QED
      BY ONLY <3>1, <3>2
  <2>2. cfgReq' = [cfgReq EXCEPT ![r] = q] /\ UNCHANGED <<kv, globalCfg, consulLastIndex, loader>>
    BY <1>5 DEF configMiddleware
  <2> HIDE DEF q, ConfigIInv
  <2>3. consulLastIndex <= consulLastIndex
    BY DEF ConfigIInv
  <2> QED
    BY <2>1, <2>2, <2>3, RequestServed
<1>6. ASSUME NEW r \in ConfigRequest, loadPostsHandle(r) PROVE ConfigIInv'
  <2> DEFINE q == [cfgReq[r] EXCEPT !.pc = "end", !.version = consulLastIndex]
  <2>1. /\ q \in [pc : {"idle", "handle", "end"}, localCfg : Nat, version : Nat]
        /\ q.pc = "end" /\ q.localCfg <= q.version
    <3>1. PICK w \in [pc : {"idle", "handle", "end"}, localCfg : Nat, version : Nat] : w = cfgReq[r]
      OBVIOUS
    <3>2. consulLastIndex \in Nat /\ cfgReq[r].localCfg <= consulLastIndex
      BY <1>6 DEF loadPostsHandle
    <3> QED
      BY ONLY <3>1, <3>2
  <2>2. cfgReq' = [cfgReq EXCEPT ![r] = q] /\ UNCHANGED <<kv, globalCfg, consulLastIndex, loader>>
    BY <1>6 DEF loadPostsHandle
  <2> HIDE DEF q, ConfigIInv
  <2> QED
    BY <2>1, <2>2, RequestServed
<1>7. CASE UNCHANGED configVars
  BY <1>7 DEF configVars
<1> QED
  BY <1>1, <1>2, <1>3, <1>4, <1>5, <1>6, <1>7 DEF ConfigNext

(* For any number of requests and of changes, a page never shows a map     *)
(* newer than the version it names, and the map in use is that of the      *)
(* index the next query waits to see passed (loadConfig, configMiddleware  *)
(* and loadPostsHandle in lectures/C2W4/config/consul/consul_config.go).          *)
THEOREM ThePageIsNotNewer == ConfigSpec => []PageNotNewer
<1>1. ConfigInit => ConfigIInv
  BY DEF ConfigInit, ConfigIInv
<1>2. ConfigIInv => PageNotNewer
  BY DEF ConfigIInv, PageNotNewer
<1> QED
  BY <1>1, <1>2, NextConfigIInv, PTL DEF ConfigSpec
=============================================================================

----------------------------- MODULE Broadcast -----------------------------
(***************************************************************************)
(* What the event log of the hw7 microservice promises to its subscribers, *)
(* said without goroutines, locks or channels.  Events are appended to one *)
(* log; a subscriber joins at the end of the log and from then on receives *)
(* every event, once and in log order.  Delivery is synchronous: the log   *)
(* does not grow and nobody joins while a subscriber is behind.            *)
(***************************************************************************)
EXTENDS Naturals, Sequences

CONSTANTS Event,       \* what may be published, each at most once
          Subscriber

VARIABLES log,         \* the events published so far
          joined,      \* the subscribers
          from,        \* from[s] is the length of the log when s joined
          view         \* view[s] is what s has received

vars == <<log, joined, from, view>>

Init == /\ log = << >>
        /\ joined = {}
        /\ from = [s \in Subscriber |-> 0]
        /\ view = [s \in Subscriber |-> << >>]

Published == {log[i] : i \in DOMAIN log}

CaughtUp(s) == from[s] + Len(view[s]) = Len(log)

Publish(e) == /\ e \notin Published
              /\ \A s \in joined : CaughtUp(s)
              /\ log' = Append(log, e)
              /\ UNCHANGED <<joined, from, view>>

Subscribe(s) == /\ s \notin joined
                /\ \A t \in joined : CaughtUp(t)
                /\ joined' = joined \cup {s}
                /\ from' = [from EXCEPT ![s] = Len(log)]
                /\ UNCHANGED <<log, view>>

Deliver(s) == /\ s \in joined
              /\ from[s] + Len(view[s]) < Len(log)
              /\ view' = [view EXCEPT
                            ![s] = Append(@, log[from[s] + Len(@) + 1])]
              /\ UNCHANGED <<log, joined, from>>

Next == \/ \E e \in Event : Publish(e)
        \/ \E s \in Subscriber : Subscribe(s) \/ Deliver(s)

Spec == Init /\ [][Next]_vars

FairSpec == Spec /\ \A s \in Subscriber : WF_vars(Deliver(s))

-----------------------------------------------------------------------------
(* Two subscribers that both hold the events of an interval of the log     *)
(* hold them in the same order: s's i-th event is t's j-th whenever the    *)
(* two indices name the same place of the log.                             *)
ViewsAgree ==
  \A s, t \in joined :
    \A i \in DOMAIN view[s], j \in DOMAIN view[t] :
      (view[s][i] = view[t][j]) <=> (from[s] + i = from[t] + j)
=============================================================================

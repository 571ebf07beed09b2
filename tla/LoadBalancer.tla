----------------------------- MODULE LoadBalancer -----------------------------
(***************************************************************************)
(* The load-balancing client of grpc_lb_sd: main asks consul for the       *)
(* servers and starts gRPC's round-robin balancer on the first; a          *)
(* goroutine polls consul and injects what changed.  An injector hands the *)
(* size of a batch over one channel and its updates over another; the      *)
(* balancer, in Next, takes them and answers over a third, on which the    *)
(* resolver's own goroutine waits too.                                     *)
(*                                                                         *)
(* Updates go in the order of a map's iteration, so a batch is a set.      *)
(***************************************************************************)
EXTENDS Program, Consul, FiniteSets

CONSTANTS NoBatch, NoUpdate   \* an empty side, an empty update channel

VARIABLES client,     \* where main and then the poller is
          currAddrs,  \* what the client has told, or will tell, the balancer
          later,      \* updates for the addresses main has not injected yet
          left,       \* the updates that inject has still to send
          side, update, helper,   \* the channels, and the goroutine of Resolve
          next,       \* where the balancer's Next is, [n, got]
          lbAddrs     \* the balancer's addresses

lbVars == <<client, currAddrs, later, left, side, update, helper, next, lbAddrs>>

Update == [op : {"Add", "Delete"}, addr : Server]

ASSUME LbAssumption == IsFiniteSet(Server) /\ NoBatch \notin Nat /\ NoUpdate \notin Update

Updates(op, addrs) == {[op |-> op, addr |-> a] : a \in addrs}
Addrs(op, us) == {u.addr : u \in {v \in us : v.op = op}}
Applied(addrs, us) == (addrs \ Addrs("Delete", us)) \cup Addrs("Add", us)

LbInit ==
  /\ client = "lookup" /\ currAddrs = {} /\ later = {} /\ left = {}
  /\ side = NoBatch /\ update = NoUpdate /\ helper = FALSE
  /\ next = [pc |-> "off", n |-> 0, got |-> {}]
  /\ lbAddrs = {}

(* main up to grpc.Dial, which calls Resolve: without servers it panics,   *)
(* without consul it ends.                                                 *)
Lookup ==
  /\ client = "lookup"
  /\ \/ /\ registry # {}
        /\ \E first \in registry :
             /\ later' = Updates("Add", registry \ {first})
             /\ update' = [op |-> "Add", addr |-> first]
        /\ client' = "dial" /\ currAddrs' = registry
        /\ side' = 1 /\ helper' = TRUE
        /\ next' = [next EXCEPT !.pc = "side"]
     \/ client' = "dead" /\ UNCHANGED <<currAddrs, later, side, update, helper, next>>
  /\ UNCHANGED <<left, lbAddrs>>

(* Dial blocks until the balancer has a connection.                        *)
Dialled ==
  /\ client = "dial" /\ \E a \in lbAddrs : process[a] # "down"
  /\ client' = IF later # {} THEN "inject" ELSE "polling"
  /\ left' = later /\ later' = {}
  /\ UNCHANGED <<currAddrs, side, update, helper, next, lbAddrs>>

(* runOnlineServiceDiscovery: one tick. An error of consul ends the program. *)
Removed(new) == currAddrs \ new
Poll ==
  /\ client = "polling"
  /\ LET batch == Updates("Delete", Removed(registry)) \cup Updates("Add", registry \ currAddrs)
     IN  /\ batch # {}
         /\ left' = batch /\ client' = "inject"
  /\ currAddrs' = registry
  /\ UNCHANGED <<later, side, update, helper, next, lbAddrs>>

ConsulUnreachable ==
  /\ client = "polling" /\ client' = "dead"
  /\ UNCHANGED <<currAddrs, later, left, side, update, helper, next, lbAddrs>>

(* inject: the size, the updates, and the wait for readDone.               *)
BatchSize == Cardinality(left)
NoWaiting == "polling"
AfterSending == "wait"
SendSize ==
  /\ client = "inject" /\ side = NoBatch
  /\ side' = BatchSize /\ client' = "send"
  /\ UNCHANGED <<currAddrs, later, left, update, helper, next, lbAddrs>>

SendUpdate ==
  /\ client = "send" /\ update = NoUpdate
  /\ \E u \in left :
       /\ update' = u /\ left' = left \ {u}
       /\ client' = IF left = {u} THEN AfterSending ELSE "send"
  /\ UNCHANGED <<currAddrs, later, side, helper, next, lbAddrs>>

(* Next: one action for each of its receptions. *)
NextSize ==
  /\ next.pc = "side" /\ side # NoBatch
  /\ next' = [pc |-> "update", n |-> side, got |-> {}]
  /\ side' = NoBatch
  /\ UNCHANGED <<client, currAddrs, later, left, update, helper, lbAddrs>>

NextUpdate ==
  /\ next.pc = "update" /\ update # NoUpdate
  /\ next' = [pc |-> IF next.n = 1 THEN "done" ELSE "update",
              n |-> next.n - 1, got |-> next.got \cup {update}]
  /\ update' = NoUpdate
  /\ UNCHANGED <<client, currAddrs, later, left, side, helper, lbAddrs>>

(* `w.readDone <- 0', taken by whoever waits.                              *)
ReadDone ==
  /\ next.pc = "done"
  /\ \/ helper /\ helper' = FALSE /\ UNCHANGED client
     \/ client = "wait" /\ client' = "polling" /\ UNCHANGED helper
  /\ next' = [next EXCEPT !.pc = "apply"]
  /\ UNCHANGED <<currAddrs, later, left, side, update, lbAddrs>>

(* The round-robin balancer takes over what Next returned.                 *)
Apply ==
  /\ next.pc = "apply"
  /\ lbAddrs' = Applied(lbAddrs, next.got)
  /\ next' = [pc |-> "side", n |-> 0, got |-> {}]
  /\ UNCHANGED <<client, currAddrs, later, left, side, update, helper>>

LbStep == \/ Lookup \/ Dialled \/ Poll \/ SendSize \/ SendUpdate
          \/ NextSize \/ NextUpdate \/ ReadDone \/ Apply
LbNext == LbStep \/ ConsulUnreachable

LbSpec ==
  /\ ConsulInit /\ LbInit
  /\ [][(LbNext /\ UNCHANGED consulVars) \/ (ConsulNext /\ UNCHANGED lbVars)]_<<lbVars, consulVars>>

(* Goroutines run, and the ticker ticks. *)
LbFair == WF_lbVars(Runs("lb") /\ (Lookup \/ Dialled \/ Poll \/ SendSize \/ SendUpdate))
              /\ WF_lbVars(Runs("lb") /\ (NextSize \/ NextUpdate \/ ReadDone \/ Apply))

(***************************************************************************)
(* What the client promises.                                               *)
(***************************************************************************)

(* Types: of the two sets of addresses and of what the channels carry.     *)
LbTypeOK ==
  /\ client \in {"lookup", "dial", "inject", "send", "wait", "polling", "dead"}
  /\ currAddrs \subseteq Server /\ lbAddrs \subseteq Server
  /\ later \subseteq Update /\ left \subseteq Update
  /\ update \in Update \cup {NoUpdate} /\ side \in Nat \cup {NoBatch}
  /\ helper \in BOOLEAN
  /\ next \in [pc : {"off", "side", "update", "done", "apply"}, n : Nat, got : SUBSET Update]

(* The three channels lose, double and mix up nothing: the balancer's      *)
(* addresses and all that is on its way make up the client's set, although *)
(* that is changed first.                                                  *)
Waiting == later \cup left \cup (IF update = NoUpdate THEN {} ELSE {update})
AddrsInStep == Applied(Applied(lbAddrs, next.got), Waiting) = currAddrs

(* inject returns only when its own batch was taken, not on the answer to  *)
(* an earlier one: while the client polls nothing waits to be taken.       *)
InjectWaits ==
  client = "polling" => /\ left = {} /\ side = NoBatch /\ update = NoUpdate
                        /\ next.pc \in {"side", "apply"}

(* A client that lives ends up with the addresses in the registry, once     *)
(* that has stopped changing, unless it is still dialling its first server. *)
BalancerCatchesUp ==
  Runs("lb") =>
  <>[](\/ client = "dead" \/ lbAddrs = registry
       \/ client = "dial" /\ lbAddrs # {})

(* The invariant of the client: its channels keep it and the balancer in   *)
(* step.                                                                   *)
ChannelsKeepStep == LbTypeOK /\ AddrsInStep /\ InjectWaits
=============================================================================

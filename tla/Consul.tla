------------------------------- MODULE Consul -------------------------------
(***************************************************************************)
(* The session servers of grpc_lb_sd and the consul registry they enter:   *)
(* a server listens, registers, serves until a key is pressed, and leaves. *)
(* The registry keeps what a dead server did not take out.                 *)
(***************************************************************************)
EXTENDS Naturals

CONSTANTS Server,      \* the servers' addresses
          MaxIndex     \* bound: changes of the registry

VARIABLES process,   \* server -> "down", "listening", "serving" or "leaving"
          registry,  \* the addresses registered in consul
          cIndex,    \* consul's index: grows with every change
          orphans    \* history: servers that ended without being taken out

consulVars == <<process, registry, cIndex, orphans>>

ConsulInit ==
  /\ process = [s \in Server |-> "down"] /\ registry = {}
  /\ cIndex = 0 /\ orphans = {}

Becomes(s, from, to) == process[s] = from /\ process' = [process EXCEPT ![s] = to]
Change(to) == registry' = to /\ cIndex' = cIndex + (IF to = registry THEN 0 ELSE 1)

Listen(s) ==
  /\ cIndex < MaxIndex
  /\ Becomes(s, "down", "listening")
  /\ UNCHANGED <<registry, cIndex, orphans>>

(* An error of ServiceRegister ends the program. *)
ServiceRegister(s) ==
  \/ /\ Becomes(s, "listening", "serving")
     /\ Change(registry \cup {s})
     /\ orphans' = orphans \ {s}
  \/ Becomes(s, "listening", "down") /\ UNCHANGED <<registry, cIndex, orphans>>

(* The deferred ServiceDeregister, which may fail, while the server still  *)
(* listens; when it has returned the program ends.                         *)
ServiceDeregister(s) ==
  /\ Becomes(s, "serving", "leaving")
  /\ \/ Change(registry \ {s}) /\ UNCHANGED orphans
     \/ orphans' = orphans \cup {s} /\ UNCHANGED <<registry, cIndex>>

MainReturns(s) == Becomes(s, "leaving", "down") /\ UNCHANGED <<registry, cIndex, orphans>>

ServerCrash(s) ==
  /\ process[s] # "down" /\ process' = [process EXCEPT ![s] = "down"]
  /\ orphans' = orphans \cup (registry \cap {s})
  /\ UNCHANGED <<registry, cIndex>>

ConsulNext == \E s \in Server : \/ Listen(s) \/ ServiceRegister(s) \/ ServiceDeregister(s)
                                \/ MainReturns(s) \/ ServerCrash(s)

(* A registered address is listened on, unless its server ended without    *)
(* taking it out: servers listen before they register and deregister       *)
(* before they stop.                                                       *)
RegisteredListen == \A s \in registry : process[s] # "down" \/ s \in orphans
=============================================================================

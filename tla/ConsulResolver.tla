---------------------------- MODULE ConsulResolver ----------------------------
(***************************************************************************)
(* The second client of grpc_lb_sd: a gRPC resolver that watches consul    *)
(* with blocking queries and hands gRPC the whole set of addresses.        *)
(***************************************************************************)
EXTENDS Program, Consul

CONSTANTS FirstIndex      \* the index of the first query: 10 in the code
ASSUME ResolverAssumption == FirstIndex \in Nat

VARIABLES watcher,    \* "build", "query", "update", "refused" or "panic"
          port,       \* whether the target names consul's port
          lastIndex,  \* the index the next query waits to see passed
          newAddrs,   \* consul's last answer
          connAddrs   \* the addresses gRPC was told last

resolverVars == <<watcher, port, lastIndex, newAddrs, connAddrs>>

ResolverInit ==
  /\ watcher = "build" /\ port = FALSE /\ lastIndex = FirstIndex
  /\ newAddrs = {} /\ connAddrs = {}

(* Build: a target that does not match ends the dial; its port is optional. *)
Build ==
  /\ watcher = "build"
  /\ \/ watcher' = "refused" /\ UNCHANGED port
     \/ watcher' = "query" /\ port' \in BOOLEAN
  /\ UNCHANGED <<lastIndex, newAddrs, connAddrs>>

(* parseTarget's default port is joined to the host without a colon.       *)
Reachable == port

(* One query: consul answers when its index has passed lastIndex, or after *)
(* five minutes; an answer carries the index it is of.                     *)
Answers ==
  /\ watcher = "query" /\ Reachable
  /\ newAddrs' = registry /\ lastIndex' = cIndex
  /\ watcher' = "update"
  /\ UNCHANGED <<port, connAddrs>>
Query == cIndex > lastIndex /\ Answers
QueryTimesOut == cIndex <= lastIndex /\ Answers

(* An error is printed, and the nil metainfo dereferenced.                 *)
QueryFails ==
  /\ watcher = "query" /\ watcher' = "panic"
  /\ UNCHANGED <<port, lastIndex, newAddrs, connAddrs>>

UpdateStateLate ==
  /\ watcher = "update" /\ watcher' = "query"
  /\ connAddrs' = newAddrs /\ lastIndex' = cIndex
  /\ UNCHANGED <<port, newAddrs>>
UpdateState ==
  /\ watcher = "update" /\ watcher' = "query"
  /\ connAddrs' = newAddrs
  /\ UNCHANGED <<port, lastIndex, newAddrs>>

ResolverNext == Build \/ Query \/ QueryTimesOut \/ QueryFails \/ UpdateState

ResolverSpec ==
  /\ ConsulInit /\ ResolverInit
  /\ [][\/ ResolverNext /\ UNCHANGED consulVars
        \/ ConsulNext /\ UNCHANGED resolverVars]_<<resolverVars, consulVars>>

(* The goroutine runs and consul answers; no query need wait five minutes. *)
ResolverFair == WF_resolverVars(Runs("resolver") /\ (Build \/ Query \/ UpdateState))

(* No change falls between two queries: a resolver that waits for an index *)
(* later than consul's has told gRPC exactly what is registered.           *)
NoChangeMissed ==
  watcher = "query" /\ cIndex = lastIndex /\ FirstIndex < cIndex => connAddrs = registry

(* Without relying on a query that times out, gRPC learns the registered   *)
(* addresses, unless the first query waits for an index consul never       *)
(* reaches, or a query fails, which ends the program.                      *)
ResolverCatchesUp ==
  Runs("resolver") =>
  <>[](\/ watcher \in {"refused", "panic"} \/ ~Reachable
       \/ connAddrs = registry \/ cIndex <= FirstIndex)

(* What the resolver is told is so, and nothing is kept from it.           *)
RegistryIsTold == RegisteredListen /\ NoChangeMissed
=============================================================================

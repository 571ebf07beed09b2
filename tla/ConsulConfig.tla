----------------------------- MODULE ConsulConfig -----------------------------
(***************************************************************************)
(* A web service whose configuration is kept in consul: a goroutine loads  *)
(* it when its index has moved, and a middleware hands every request the   *)
(* map of the moment.  A configuration stands for the index it was written *)
(* at; 0 is the empty one.                                                 *)
(***************************************************************************)
EXTENDS Program, Naturals

CONSTANTS ConfigRequest,    \* requests
          MaxWrites         \* bound: changes of the configuration in consul

VARIABLES kv,               \* consul: the configuration there
          globalCfg, consulLastIndex,
          loader,           \* [pc, at]: loadConfig, before and after List returns
          serving,          \* main has loaded once and listens
          cfgReq            \* request -> [pc, localCfg, version]

configVars == <<kv, globalCfg, consulLastIndex, loader, serving, cfgReq>>

ConfigInit ==
  /\ kv = 0 /\ globalCfg = 0 /\ consulLastIndex = 0
  /\ loader = [pc |-> "list", at |-> 0] /\ serving = FALSE
  /\ cfgReq = [r \in ConfigRequest |-> [pc |-> "idle", localCfg |-> 0, version |-> 0]]

KvPut ==
  /\ kv < MaxWrites /\ kv' = kv + 1
  /\ UNCHANGED <<globalCfg, consulLastIndex, loader, serving, cfgReq>>

(* List answers when the index has passed the last one, and the first time *)
(* at once.                                                                *)
List ==
  /\ loader.pc = "list"
  /\ kv > consulLastIndex \/ consulLastIndex = 0
  /\ loader' = [pc |-> "compare", at |-> kv]
  /\ UNCHANGED <<kv, globalCfg, consulLastIndex, serving, cfgReq>>

(* It times out with nothing new, or fails, which is printed: either way   *)
(* nothing is loaded until the next tick.                                  *)
ListEnds ==
  /\ loader.pc = "list" /\ serving' = TRUE
  /\ UNCHANGED <<kv, globalCfg, consulLastIndex, loader, cfgReq>>

IndexOfNow == kv
IndexOfAnswer == loader.at
(* The new map and its index, under the lock. *)
LoadConfig ==
  /\ loader.pc = "compare" /\ loader' = [loader EXCEPT !.pc = "list"]
  /\ serving' = TRUE
  /\ IF consulLastIndex # loader.at
     THEN globalCfg' = loader.at /\ consulLastIndex' = IndexOfAnswer
     ELSE UNCHANGED <<globalCfg, consulLastIndex>>
  /\ UNCHANGED <<kv, cfgReq>>

configMiddleware(r) ==
  /\ serving /\ cfgReq[r].pc = "idle"
  /\ cfgReq' = [cfgReq EXCEPT ![r] = [@ EXCEPT !.pc = "handle", !.localCfg = globalCfg]]
  /\ UNCHANGED <<kv, globalCfg, consulLastIndex, loader, serving>>

(* The page names the index of now for the map the request was given. *)
loadPostsHandle(r) ==
  /\ cfgReq[r].pc = "handle"
  /\ cfgReq' = [cfgReq EXCEPT ![r] = [@ EXCEPT !.pc = "end", !.version = consulLastIndex]]
  /\ UNCHANGED <<kv, globalCfg, consulLastIndex, loader, serving>>

ConfigNext == \/ KvPut \/ List \/ ListEnds \/ LoadConfig
              \/ \E r \in ConfigRequest : configMiddleware(r) \/ loadPostsHandle(r)

ConfigSpec == ConfigInit /\ [][ConfigNext]_configVars

(* The ticker ticks, and consul answers. *)
ConfigFair == WF_configVars(Runs("config") /\ (List \/ LoadConfig))

(* The page never shows a map newer than the version it names, which may   *)
(* itself be newer than the map; and the map in use is that of the index   *)
(* the next query waits to see passed.                                     *)
PageNotNewer ==
  /\ globalCfg = consulLastIndex
  /\ \A r \in ConfigRequest : cfgReq[r].pc = "end" => cfgReq[r].localCfg <= cfgReq[r].version

(* Every change of the configuration reaches the service, without waiting  *)
(* for a query to time out.                                                *)
ConfigCatchesUp ==
  Runs("config") =>
  <>[](globalCfg = kv)
=============================================================================

------------------------------ MODULE MCRequests ------------------------------
(***************************************************************************)
(* The programs that answer, in small: what they answer is looked at here. *)
(* Each of them runs alone: a behaviour is that of one, and the variables  *)
(* of the others stay at one of their initial values.                      *)
(***************************************************************************)
EXTENDS Program, DbExplorer, Search, Tree, I2s, Site, Crud, Sessions, TLC

CONSTANTS t1, t2, t3   \* tabs

(* items(id int, title varchar, rating int null, seen date), as it were,   *)
(* and the bodies a request brings: a column of each type and of none.     *)
MCColumnType == <<"int", "varchar", "int", "date">>
MCFields ==
  {Empty} \cup [{2} -> {"text", "float64", "null", "object", "bool"}]
    \cup {2 :> "text" @@ 3 :> "float64", 1 :> "float64" @@ 3 :> "float64",
          0 :> "null", 0 :> "null" @@ 3 :> "text"}

(* Bodies with a field that is no column. *)
MCUnknownFields == {0 :> "null", 2 :> "text" @@ 0 :> "text"}

(* Two tabs of one browser and one of another.  Managers and clients that  *)
(* differ in nothing the model tells apart are looked at once.             *)
MCBrowserOf == t1 :> "b1" @@ t2 :> "b1" @@ t3 :> "b2"
MCManaged ==
  {[manager |-> service1, client |-> service1_main],
   [manager |-> service1_lite, client |-> service1_client_lite],
   [manager |-> net_rpc, client |-> net_rpc_client],
   [manager |-> net_rpc, client |-> net_rpc_client_lite],
   [manager |-> grpc, client |-> grpc_client],
   [manager |-> grpc_2, client |-> grpc_2_client],
   [manager |-> grpc_lb_sd, client |-> grpc_lb_sd_checks],
   [manager |-> redis, client |-> redis_main]}

(* The visitors of the item pages are alike. *)
VisitorSymmetry == Permutations(Visitor)

vars == <<program, dbVars, searchVars, treeVars, i2sVars, siteVars, crudVars, sessionVars>>

Init ==
  /\ program \in {"db", "search", "tree", "i2s", "site", "crud", "sessions"}
  /\ ~Runs("search") => file = [lines |-> <<>>, newline |-> FALSE]
  /\ ~Runs("tree") => tree = <<>> /\ printFiles = FALSE
  /\ ~Runs("site") => site = "logging"
  /\ ~Runs("crud") => backend = "mysql"
  /\ ~Runs("sessions") => pair = [manager |-> redis, client |-> redis_main]
  /\ DbInit /\ SearchInit /\ TreeInit /\ SiteInit /\ CrudInit /\ SessionsInit
  /\ IF Runs("i2s") THEN I2sInit
     ELSE outType = Simple /\ input = Str /\ isPtr = FALSE /\ returned = NotYet

Next ==
  /\ UNCHANGED program
  /\ \/ /\ Runs("db") /\ DbNext
        /\ UNCHANGED <<searchVars, treeVars, i2sVars, siteVars, crudVars, sessionVars>>
     \/ /\ Runs("search") /\ SearchNext
        /\ UNCHANGED <<dbVars, treeVars, i2sVars, siteVars, crudVars, sessionVars>>
     \/ /\ Runs("tree") /\ TreeNext
        /\ UNCHANGED <<dbVars, searchVars, i2sVars, siteVars, crudVars, sessionVars>>
     \/ /\ Runs("i2s") /\ I2sNext
        /\ UNCHANGED <<dbVars, searchVars, treeVars, siteVars, crudVars, sessionVars>>
     \/ /\ Runs("site") /\ SiteNext
        /\ UNCHANGED <<dbVars, searchVars, treeVars, i2sVars, crudVars, sessionVars>>
     \/ /\ Runs("crud") /\ CrudNext
        /\ UNCHANGED <<dbVars, searchVars, treeVars, i2sVars, siteVars, sessionVars>>
     \/ /\ Runs("sessions") /\ SessionsNext
        /\ UNCHANGED <<dbVars, searchVars, treeVars, i2sVars, siteVars, crudVars>>

MCSpec == Init /\ [][Next]_vars
=============================================================================

------------------------------ MODULE MCProgress ------------------------------
(***************************************************************************)
(* The programs whose processes and goroutines wait for one another, in    *)
(* small: that they get somewhere is looked at here.  Each of them runs    *)
(* alone, the two resolvers beside a consul: a behaviour is that of one,   *)
(* and the variables of the others stay at one of their initial values.    *)
(***************************************************************************)
EXTENDS LoadBalancer, ConsulResolver, ConsulConfig, Resizer, Auction, Quota, Goroutines,
        FindUsers, MyApi, TLC

(* Two pictures of one image, and a file that is no JPEG.                  *)
MCImageOf == [u1 |-> "cat", u2 |-> "cat", u3 |-> "dog"]
MCSizes == <<80, 160>>

(* Below the server's page, at it, above it; and what FindUsers refuses.   *)
MCLimits == -1..4
MCOffsets == {-1, 0, 1}

(* Logins shorter than ten runes, of ten, and the one that is there; and   *)
(* statuses and classes, which the tags name or do not.                    *)
MCRuneLen == "" :> 0 @@ "ab" :> 2 @@ "abc" :> 3 @@ "rvasily" :> 7 @@ "bad_user" :> 8
               @@ "new_user_1" :> 10 @@ "new_user_2" :> 10 @@ "bad_username" :> 12
               @@ "user" :> 4 @@ "admin" :> 5 @@ "moderator" :> 9 @@ "boss" :> 4
               @@ "warrior" :> 7 @@ "sorcerer" :> 8 @@ "rouge" :> 5 @@ "elf" :> 3
CreateForm(l, s, a) == [login |-> l, full_name |-> "ab", status |-> s, age |-> a]
OtherForm(u, k, v) == [username |-> u, account_name |-> "", class |-> k, level |-> v]
MCForms ==
  [ProfileParams |-> [login : {"", "bad_user", "new_user_1", "rvasily"}],
   CreateParams |->
     {CreateForm("new_user_1", "", 0), CreateForm("new_user_1", "admin", 127),
      CreateForm("new_user_2", "moderator", 1), CreateForm("new_user_2", "boss", 1),
      CreateForm("new_user_2", "user", 128), CreateForm("new_user_2", "user", -1),
      CreateForm("new_user_2", "user", NotInt), CreateForm("rvasily", "user", 1),
      CreateForm("bad_username", "user", 1)},
   OtherCreateParams |->
     {OtherForm("abc", "rouge", 1), OtherForm("ab", "rouge", 1), OtherForm("abc", "", 49),
      OtherForm("abc", "elf", 49), OtherForm("abc", "warrior", 50), OtherForm("abc", "warrior", 0)}]

vars == <<program, consulVars, lbVars, resolverVars, configVars, resizerVars, auctionVars,
          quotaVars, goVars, findVars, apiVars>>

Init ==
  /\ program \in {"lb", "resolver", "config", "resizer", "auction", "quota", "go", "findusers", "api"}
  /\ ~Runs("go") => demo = "timeout"
  /\ ~Runs("findusers") => dataset = <<>> /\ req = [Limit |-> 0, Offset |-> 0]
  /\ ConsulInit /\ LbInit /\ ResolverInit /\ ConfigInit /\ ResizerInit
  /\ AuctionInit /\ QuotaInit /\ GoInit /\ FindInit /\ ApiInit

LbProgram ==
  /\ Runs("lb")
  /\ (LbNext /\ UNCHANGED consulVars) \/ (ConsulNext /\ UNCHANGED lbVars)
  /\ UNCHANGED <<resolverVars, configVars, resizerVars, auctionVars, quotaVars, goVars, findVars, apiVars>>
ResolverProgram ==
  /\ Runs("resolver")
  /\ (ResolverNext /\ UNCHANGED consulVars) \/ (ConsulNext /\ UNCHANGED resolverVars)
  /\ UNCHANGED <<lbVars, configVars, resizerVars, auctionVars, quotaVars, goVars, findVars, apiVars>>

Next ==
  /\ UNCHANGED program
  /\ \/ LbProgram \/ ResolverProgram
     \/ /\ Runs("config") /\ ConfigNext
        /\ UNCHANGED <<consulVars, lbVars, resolverVars, resizerVars, auctionVars, quotaVars, goVars,
                       findVars, apiVars>>
     \/ /\ Runs("resizer") /\ ResizerNext
        /\ UNCHANGED <<consulVars, lbVars, resolverVars, configVars, auctionVars, quotaVars, goVars,
                       findVars, apiVars>>
     \/ /\ Runs("auction") /\ AuctionNext
        /\ UNCHANGED <<consulVars, lbVars, resolverVars, configVars, resizerVars, quotaVars, goVars,
                       findVars, apiVars>>
     \/ /\ Runs("quota") /\ QuotaNext
        /\ UNCHANGED <<consulVars, lbVars, resolverVars, configVars, resizerVars, auctionVars, goVars,
                       findVars, apiVars>>
     \/ /\ Runs("go") /\ GoNext
        /\ UNCHANGED <<consulVars, lbVars, resolverVars, configVars, resizerVars, auctionVars,
                       quotaVars, findVars, apiVars>>
     \/ /\ Runs("findusers") /\ FindNext
        /\ UNCHANGED <<consulVars, lbVars, resolverVars, configVars, resizerVars, auctionVars,
                       quotaVars, goVars, apiVars>>
     \/ /\ Runs("api") /\ ApiNext
        /\ UNCHANGED <<consulVars, lbVars, resolverVars, configVars, resizerVars, auctionVars,
                       quotaVars, goVars, findVars>>

MCSpec ==
  /\ Init /\ [][Next]_vars
  /\ LbFair /\ ResolverFair /\ ConfigFair /\ ResizerFair /\ AuctionFair /\ QuotaFair
  /\ GoFair /\ FindFair /\ ApiFair

(* A change arrives, with fair goroutines, a fair broker and a consul that *)
(* answers: of the registry at both clients' balancers, of the             *)
(* configuration at the service, of an image on the disk.                  *)
ChangesArrive ==
  BalancerCatchesUp /\ ResolverCatchesUp /\ ConfigCatchesUp /\ SuccessfulGetsResized

(* Everybody gets done: players leave, workers and main functions return,  *)
(* the paging ends, calls of the API are answered.                         *)
EverybodyGetsDone ==
  EverybodyLeaves /\ WorkGetsDone /\ MainEnds /\ PagingEnds /\ EveryApiCallEnds
=============================================================================

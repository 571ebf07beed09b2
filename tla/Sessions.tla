------------------------------- MODULE Sessions -------------------------------
(***************************************************************************)
(* The session managers of the lectures: a map of sessions in the process  *)
(* of a web service, the same map behind net/rpc, JSON-RPC, gRPC or a      *)
(* gateway, and a store in redis; and their clients, web services with a   *)
(* cookie or small programs that make four calls.                          *)
(*                                                                         *)
(* redis/main.go and session.go have lost their "sessManager." and "sess." *)
(* prefixes and are read with them.  A session is known by its login.      *)
(***************************************************************************)
EXTENDS Naturals, Sequences

CONSTANTS Tab,          \* goroutines of requests: a browser's tabs, or one client program
          BrowserOf,    \* tab -> the browser whose cookie it sends
          SessionId,    \* what RandStringRunes may draw
          Managed,      \* the pairs of a manager and a client to look at
          MaxCalls, MaxFaults,   \* bounds: requests, and calls that fail
          NoId

Browser == {BrowserOf[t] : t \in Tab}
Id == SessionId \cup {NoId}
EmptyLogin == "empty_session"
StubLogin == "host_and_id"

(***************************************************************************)
(* The managers: how a session is stored, what Check says of an id that is *)
(* not there, and whether a call can fail.                                 *)
(***************************************************************************)
service1      == [store |-> "bare", absent |-> "nil", remote |-> FALSE]
service1_lite == [store |-> "bare", absent |-> "nil", remote |-> FALSE]
service2      == [store |-> "bare", absent |-> "nil", remote |-> FALSE]
service2_lite == [store |-> "bare", absent |-> "nil", remote |-> FALSE]
Served(absent) == [store |-> "locked", absent |-> absent, remote |-> TRUE]
net_rpc       == Served(EmptyLogin)
json_rpc      == Served(EmptyLogin)
grpc          == Served("error")
grpc_2        == Served("error")
gateway       == Served("error")
grpc_lb_sd    == Served(StubLogin)
redis         == [store |-> "redis", absent |-> "nil", remote |-> TRUE]

(* The clients: what a failed Create comes to, what a failed Check, and    *)
(* whether a password is asked for; or the calls that a program makes.     *)
Web(created, checked, password) ==
  [web |-> TRUE, created |-> created, checked |-> checked, password |-> password, script |-> <<>>]
Lite(script) ==
  [web |-> FALSE, created |-> "panic", checked |-> "printed", password |-> FALSE, script |-> script]
FourCalls == <<"create", "check", "delete", "check">>

service1_main == Web("500", "500", FALSE)
service2_main == Web("500", "500", FALSE)
grpc_client   == Web("500", "500", FALSE)
net_rpc_client == Web("panic", "form", FALSE)
redis_main    == Web("500", "form", TRUE)
service1_client_lite == Lite(FourCalls)
service2_client_lite == Lite(FourCalls)
net_rpc_client_lite == Lite(FourCalls)
grpc_client_lite == Lite(FourCalls)
grpc_2_client == Lite(FourCalls)
gateway_client_lite == Lite(FourCalls)
grpc_lb_sd_checks == Lite(<<"check", "check">>)

(* Who calls whom; JSON-RPC, which curl calls, is net/rpc to the model.    *)
Pairs ==
  {[manager |-> service1, client |-> service1_main],
   [manager |-> service1_lite, client |-> service1_client_lite],
   [manager |-> service2, client |-> service2_main],
   [manager |-> service2_lite, client |-> service2_client_lite],
   [manager |-> net_rpc, client |-> net_rpc_client],
   [manager |-> net_rpc, client |-> net_rpc_client_lite],
   [manager |-> grpc, client |-> grpc_client],
   [manager |-> grpc, client |-> grpc_client_lite],
   [manager |-> grpc_2, client |-> grpc_2_client],
   [manager |-> gateway, client |-> gateway_client_lite],
   [manager |-> grpc_lb_sd, client |-> grpc_lb_sd_checks],
   [manager |-> redis, client |-> redis_main]}

(* What a manager or a page may say that is nobody's login.                *)
Word == {"none", "ok", "nil", "int", "error", "redirect", "form", "401", "500", "panic", "printed",
         EmptyLogin, StubLogin}

ASSUME SessionsAssumption ==
  NoId \notin SessionId /\ Managed \subseteq Pairs /\ Browser \cap Word = {}

VARIABLES pair,      \* the manager and the client
          sessions,  \* id -> login, or "none"
          smu,       \* the manager's mutex, [w, r]
          mapUse,    \* [w, r]: who is writing and who is reading the map
          conn,      \* redis: the answers that wait on the connection
          call,      \* tab -> where its request is
          cookie,    \* browser -> the id in its cookie
          done,      \* tab -> how many calls of its script a program has made
          requests, faults,   \* bounds
          drawn, again,    \* history: id -> its logins; ids drawn twice
          ended,           \* history: ids deleted or expired
          spoilt           \* history: "race", "mixed" and "fatal", as they happen

sessionVars == <<pair, sessions, smu, mapUse, conn, call, cookie, done, requests, faults,
                 drawn, again, ended, spoilt>>

Nowhere == [pc |-> "idle", op |-> "none", id |-> NoId, res |-> "none", page |-> "none",
            gone |-> FALSE, failed |-> FALSE]

SessionsInit ==
  /\ pair \in Managed
  /\ sessions = [i \in SessionId |-> "none"]
  /\ smu = [w |-> {}, r |-> {}] /\ mapUse = [w |-> {}, r |-> {}] /\ conn = <<>>
  /\ call = [t \in Tab |-> Nowhere]
  /\ cookie = [b \in Browser |-> NoId]
  /\ done = [t \in Tab |-> 0]
  /\ requests = 0 /\ faults = 0
  /\ drawn = [i \in SessionId |-> {}] /\ again = {} /\ ended = {} /\ spoilt = {}

Manager == pair.manager
Frontend == pair.client
At(t, pc) == call[t].pc = pc
Goes(t, pc) == call' = [call EXCEPT ![t].pc = pc]
Executed(t, res) == call' = [call EXCEPT ![t].pc = "reply", ![t].res = res]
Login(t) == BrowserOf[t]
Alive == "fatal" \notin spoilt

(***************************************************************************)
(* A request: innerPage, loginPage, logoutPage, or a program's next call.  *)
(***************************************************************************)
Begins(t, op, id) ==
  call' = [call EXCEPT ![t] = [Nowhere EXCEPT !.pc = op, !.op = op, !.id = id, !.gone = id \in ended]]
AnsweredAtOnce(t, op, page) ==
  call' = [call EXCEPT ![t] = [Nowhere EXCEPT !.op = op, !.page = page]]
Cookie(t) == cookie[BrowserOf[t]]

innerPage(t) ==
  IF Cookie(t) = NoId THEN AnsweredAtOnce(t, "check", "form") ELSE Begins(t, "check", Cookie(t))
loginPage(t) ==
  \/ Begins(t, "create", NoId)
  \/ Frontend.password /\ AnsweredAtOnce(t, "create", "401")
logoutPage(t) ==
  IF Cookie(t) = NoId THEN AnsweredAtOnce(t, "delete", "redirect") ELSE Begins(t, "delete", Cookie(t))

(* A program has its own id, and its own manager if that is not remote.    *)
OwnProgram(t) ==
  \A u \in Tab \ {t} : ~Manager.remote \/ BrowserOf[u] = BrowserOf[t] => done[u] = 0

Request(t) ==
  /\ Alive /\ At(t, "idle") /\ requests < MaxCalls
  /\ requests' = requests + 1
  /\ \/ /\ Frontend.web /\ (innerPage(t) \/ loginPage(t) \/ logoutPage(t))
        /\ UNCHANGED done
     \/ /\ done[t] < Len(Frontend.script) /\ OwnProgram(t)
        /\ done' = [done EXCEPT ![t] = @ + 1]
        /\ \E id \in IF Cookie(t) = NoId THEN SessionId ELSE {Cookie(t)} :
             Begins(t, Frontend.script[done[t] + 1],
                    IF Frontend.script[done[t] + 1] = "create" THEN NoId ELSE id)
  /\ UNCHANGED <<pair, sessions, smu, mapUse, conn, cookie, faults, drawn, again, ended, spoilt>>

(***************************************************************************)
(* The manager with a map.                                                 *)
(***************************************************************************)
NoExclusion == TRUE
NobodyHolds == smu.w = {} /\ smu.r = {}

(* RandStringRunes; a bare store draws under the lock, and leaves it.      *)
Draw(t) ==
  /\ At(t, "create")
  /\ Manager.store = "bare" => NobodyHolds
  /\ \E i \in SessionId :
       /\ call' = [call EXCEPT ![t].pc = IF Manager.store = "redis" THEN "do" ELSE "write", ![t].id = i]
       /\ drawn' = [drawn EXCEPT ![i] = @ \cup {Login(t)}]
       /\ again' = IF drawn[i] # {} THEN again \cup {i} ELSE again
  /\ UNCHANGED <<pair, sessions, smu, mapUse, conn, cookie, done, requests, faults, ended, spoilt>>

(* A goroutine that finds the map being written ends the process or goes   *)
(* on unnoticed; a writer among readers always goes on.                    *)
Touches(inUse) ==
  \/ inUse = {} /\ UNCHANGED spoilt
  \/ inUse # {} /\ spoilt' = spoilt \cup {"race"}
  \/ mapUse.w # {} /\ spoilt' = spoilt \cup {"race", "fatal"}

Locks(t) == call[t].op = "delete" \/ Manager.store = "locked"
BeginWrite(t) ==
  /\ Manager.store # "redis" /\ At(t, IF call[t].op = "delete" THEN "delete" ELSE "write")
  /\ Locks(t) => NobodyHolds
  /\ smu' = IF Locks(t) THEN [smu EXCEPT !.w = {t}] ELSE smu
  /\ Touches(mapUse.w \cup mapUse.r)
  /\ mapUse' = [mapUse EXCEPT !.w = @ \cup {t}]
  /\ Goes(t, "writing")
  /\ UNCHANGED <<pair, sessions, conn, cookie, done, requests, faults, drawn, again, ended>>

With(i, login) == [sessions EXCEPT ![i] = login]
Kept(t) == smu.w
Released(t) == smu.w \ {t}
NotDeleted(t) == IF call[t].op = "delete" THEN sessions ELSE With(call[t].id, Login(t))
Written(t) == IF call[t].op = "delete" THEN With(call[t].id, "none") ELSE With(call[t].id, Login(t))
EndedNow(t) == IF call[t].op = "delete" THEN ended \cup {call[t].id} ELSE ended \ {call[t].id}

(* After a race the write itself may be lost. *)
EndWrite(t) ==
  /\ At(t, "writing")
  /\ \/ sessions' = Written(t)
     \/ "race" \in spoilt /\ UNCHANGED sessions
  /\ ended' = EndedNow(t)
  /\ mapUse' = [mapUse EXCEPT !.w = @ \ {t}]
  /\ smu' = [smu EXCEPT !.w = Released(t)]
  /\ Executed(t, "ok")
  /\ UNCHANGED <<pair, conn, cookie, done, requests, faults, drawn, again, spoilt>>

Found(i) == IF sessions[i] = "none" THEN Manager.absent ELSE sessions[i]

(* Check. grpc_lb_sd's answers before it locks, for any id.                *)
BeginRead(t) ==
  /\ Manager.store # "redis" /\ At(t, "check") /\ Manager.absent # StubLogin /\ smu.w = {}
  /\ smu' = [smu EXCEPT !.r = @ \cup {t}]
  /\ Touches(mapUse.w)
  /\ mapUse' = [mapUse EXCEPT !.r = @ \cup {t}]
  /\ call' = [call EXCEPT ![t].pc = "reading", ![t].res = Found(call[t].id)]
  /\ UNCHANGED <<pair, sessions, conn, cookie, done, requests, faults, drawn, again, ended>>

EndRead(t) ==
  /\ At(t, "reading") /\ Goes(t, "reply")
  /\ mapUse' = [mapUse EXCEPT !.r = @ \ {t}] /\ smu' = [smu EXCEPT !.r = @ \ {t}]
  /\ UNCHANGED <<pair, sessions, conn, cookie, done, requests, faults, drawn, again, ended, spoilt>>

Stub(t) ==
  /\ At(t, "check") /\ Manager.absent = StubLogin /\ Executed(t, StubLogin)
  /\ UNCHANGED <<pair, sessions, smu, mapUse, conn, cookie, done, requests, faults, drawn, again,
                 ended, spoilt>>

(***************************************************************************)
(* The manager with redis: SET, GET or DEL, executed as it arrives; the    *)
(* answers come back in order, and a Do takes the first that waits.        *)
(***************************************************************************)
Do(t) ==
  LET op == call[t].op  id == call[t].id IN
  /\ Manager.store = "redis" /\ At(t, IF op = "create" THEN "do" ELSE op)
  /\ conn' = Append(conn, CASE op = "create" -> "ok" [] op = "check" -> Found(id) [] OTHER -> "int")
  /\ sessions' = IF op = "check" THEN sessions ELSE Written(t)
  /\ ended' = IF op = "check" THEN ended ELSE EndedNow(t)
  /\ spoilt' = IF conn = <<>> THEN spoilt ELSE spoilt \cup {"mixed"}
  /\ Goes(t, "receive")
  /\ UNCHANGED <<pair, smu, mapUse, cookie, done, requests, faults, drawn, again>>

(* redis.String, Bytes and Int refuse an answer of another kind.           *)
Understood(op, answer) ==
  CASE op = "create" -> IF answer = "ok" THEN "ok" ELSE "error"
    [] op = "check" -> IF answer \in {"ok", "int"} THEN "nil" ELSE answer
    [] OTHER -> "ok"
Receive(t) ==
  /\ At(t, "receive") /\ conn # <<>>
  /\ conn' = Tail(conn)
  /\ Executed(t, Understood(call[t].op, Head(conn)))
  /\ UNCHANGED <<pair, sessions, smu, mapUse, cookie, done, requests, faults, drawn, again, ended, spoilt>>

(* EX 86400. *)
Expire(i) ==
  /\ Manager.store = "redis" /\ sessions[i] # "none"
  /\ sessions' = With(i, "none") /\ ended' = ended \cup {i}
  /\ UNCHANGED <<pair, smu, mapUse, conn, call, cookie, done, requests, faults, drawn, again, spoilt>>

(***************************************************************************)
(* The client, when the call returns: a cookie after Create, a page after  *)
(* Check, and the cookie expired after Delete, whatever Delete said.       *)
(***************************************************************************)
Page(op, res) ==
  CASE op = "create" -> IF res = "ok" THEN "redirect" ELSE Frontend.created
    [] op = "check" -> IF res = "nil" THEN "form" ELSE IF res = "error" THEN Frontend.checked ELSE res
    [] OTHER -> "redirect"

NewCookie(t, res) ==
  CASE call[t].op = "create" /\ res = "ok" -> [cookie EXCEPT ![BrowserOf[t]] = call[t].id]
    [] call[t].op = "delete" /\ Frontend.web -> [cookie EXCEPT ![BrowserOf[t]] = NoId]
    [] OTHER -> cookie

Returns(t, res, failed) ==
  LET page == Page(call[t].op, res) IN
  /\ call' = [call EXCEPT ![t].pc = IF page = "panic" /\ ~Frontend.web THEN "panic" ELSE "idle",
                          ![t].page = page, ![t].failed = failed]
  /\ cookie' = NewCookie(t, res)

Reply(t) ==
  /\ At(t, "reply")
  /\ Returns(t, call[t].res, FALSE)
  /\ UNCHANGED <<pair, sessions, smu, mapUse, conn, done, requests, faults, drawn, again, ended, spoilt>>

(* A remote call fails on its way there or on its way back.                *)
CallFails(t) ==
  /\ Alive /\ Manager.remote /\ faults < MaxFaults
  /\ call[t].pc \in {"create", "check", "delete", "reply"}
  /\ faults' = faults + 1
  /\ Returns(t, "error", TRUE)
  /\ UNCHANGED <<pair, sessions, smu, mapUse, conn, done, requests, drawn, again, ended, spoilt>>

SessionStep(t) ==
  /\ Alive
  /\ \/ Draw(t) \/ BeginWrite(t) \/ EndWrite(t) \/ BeginRead(t) \/ EndRead(t) \/ Stub(t)
     \/ Do(t) \/ Receive(t) \/ Reply(t)
SessionsNext ==
  \/ \E t \in Tab : Request(t) \/ SessionStep(t) \/ CallFails(t)
  \/ \E i \in SessionId : Expire(i)

SessionsSpec == SessionsInit /\ [][SessionsNext]_sessionVars

(***************************************************************************)
(* What the managers promise.                                              *)
(***************************************************************************)

(* Types: of the store, the cookies, the mutex and every tab's call.       *)
SessionsTypeOK ==
  /\ sessions \in [SessionId -> Browser \cup {"none"}] /\ cookie \in [Browser -> Id]
  /\ smu.w \subseteq Tab /\ smu.r \subseteq Tab /\ mapUse.w \subseteq Tab /\ mapUse.r \subseteq Tab
  /\ \A t \in Tab :
       /\ call[t].pc \in {"idle", "create", "check", "delete", "write", "writing", "reading", "do",
                          "receive", "reply", "panic"}
       /\ call[t].id \in Id
       /\ call[t].page \in Browser \cup {"none", "redirect", "form", "401", "500", "panic", "printed",
                                         EmptyLogin, StubLogin}
  /\ again \subseteq SessionId /\ ended \subseteq SessionId
  /\ spoilt \subseteq {"race", "mixed", "fatal"}

(* The map is touched by two goroutines at once only in the programs that  *)
(* store a session after they have given the lock back.                    *)
RaceNeedsBareStore == "race" \in spoilt => Manager.store = "bare"

(* Whose session a page shows: that of a login the cookie's id was drawn   *)
(* for, unless redis's answers got mixed up; or, for an id that is not     *)
(* there, nobody's, and only where Check cannot say so.                    *)
Shows(t) == call[t].op = "check" /\ At(t, "idle") /\ call[t].id # NoId
ShownBelongs ==
  \A t \in Tab : Shows(t) =>
    /\ call[t].page \in Browser => call[t].page \in drawn[call[t].id] \/ "mixed" \in spoilt
    /\ call[t].page \in {EmptyLogin, StubLogin} => Manager.absent = call[t].page

(* A session that was deleted, or had expired, before the request came is  *)
(* not shown, unless its id was drawn again.                               *)
EndedNotShown ==
  \A t \in Tab : Shows(t) /\ call[t].gone /\ call[t].page \in Browser =>
    call[t].id \in again \/ spoilt # {}

(* A session stays: whoever sends the cookie of a login that was answered  *)
(* is shown a login, until the session is deleted, expires, a call fails   *)
(* or answers are mixed up, however many others log in or out meanwhile.   *)
SessionStays ==
  \A t \in Tab : Shows(t) /\ call[t].page \notin Browser /\ Manager.absent # StubLogin =>
    \/ call[t].failed \/ call[t].id \in ended \cup again \/ spoilt # {}
    \/ drawn[call[t].id] = {}

(* A request panics only when its call has failed.                         *)
PanicNeedsFailure ==
  \A t \in Tab : call[t].page = "panic" => call[t].failed

(* The mutex is held by requests that are at the map, and is free when they *)
(* have left, whichever way: nothing waits for a request that is over.     *)
NoLockLeft == \A t \in smu.w \cup smu.r : call[t].pc \in {"writing", "reading"}

(* Sessions are kept: a page shows its own browser's, none that has ended, *)
(* and one that was answered stays until it is deleted.                    *)
SessionsKept == SessionsTypeOK /\ ShownBelongs /\ EndedNotShown /\ SessionStays

(* What goes wrong has a cause: a race a store outside the mutex, a panic  *)
(* a failed call; and it leaves no lock behind.                            *)
FailuresExplained == RaceNeedsBareStore /\ PanicNeedsFailure /\ NoLockLeft
=============================================================================

---------------------------- MODULE Microservice ----------------------------
(***************************************************************************)
(* The hw7 microservice (HW/hw7_microservice): a gRPC server whose         *)
(* interceptor checks every call against an access list and, under one     *)
(* mutex, hands an event about the call to every open stream; Logging      *)
(* forwards its stream's events to the client, Statistics counts them and  *)
(* sends the counts on every tick; cancelling the context shuts it down.   *)
(*                                                                         *)
(* A call is one RPC, made at most once; its consumer and its method are   *)
(* constants.  The event it publishes is identified with the call, so the  *)
(* history variable log is a sequence of calls.                            *)
(***************************************************************************)
EXTENDS Naturals, Sequences, FiniteSets

CONSTANTS Call,        \* the RPCs clients may make
          Consumer,    \* values of the "consumer" metadata
          NoConsumer,  \* the consumer of a call without that metadata
          BizMethod,   \* the methods of the Biz service
          Who,         \* Who[c] is the consumer that makes c
          Meth,        \* Meth[c] is the method c calls
          Interval,    \* the values a StatInterval may carry
          Second,      \* time.Second in units of time.Duration
          HalfRange,   \* 2^63: the first value time.Duration cannot hold
          Pattern,     \* the regular expressions an access list may hold
          Match,       \* Match[p] is the set of methods that p matches
          Malformed, NotArray, NotString,  \* what parseAlc refuses
          AlcInput,    \* the access lists the service may be started with
          PortFree,    \* what net.Listen may find: a subset of BOOLEAN
          Leaver,      \* the calls whose client may go away
          MayFinish,   \* whether the context may be cancelled
          Free         \* the mutex has no holder

Method == BizMethod \cup {"Logging", "Statistics"}

ASSUME ConstantsAssumption ==
  /\ Free \notin Call
  /\ Who \in [Call -> Consumer]
  /\ Meth \in [Call -> Method]
  /\ {"Logging", "Statistics"} \cap BizMethod = {}
  /\ PortFree \subseteq BOOLEAN

VARIABLES
  srv,       \* the life of the service: Start, Finish, AdminClose, ...
  alc,       \* the parsed access list, i.Alc
  adminNil,  \* as.Streams is nil
  closed,    \* the streams whose channel is closed
  mu,        \* the holder of the mutex that interceptor and admin share
  pos,       \* the loop index of notifyStreams, for the holder of mu
  streams,   \* *i.Streams: the sequence of the calls that own a stream
  ctxDone,   \* the streams whose context is done
  pc,        \* where the handler goroutine of each call is
  log,       \* history: the events published, in the order of the lock
  start,     \* history: start[s] is Len(log) when s joined streams
  got,       \* history: what was received from the channel of s
  sent,      \* how many events Logging has sent to its client
  col,       \* where the collector goroutine of a Statistics call is
  evs,       \* the events collected since the last tick
  pend,      \* the Stat counted at a tick and not yet sent
  total      \* history: the sum of the Stats the client was sent

srvVars  == <<srv, alc, adminNil, closed>>
lockVars == <<mu, pos>>
joinVars == <<streams, start>>
loggerVars == <<sent>>
statVars == <<col, evs, pend, total>>
callVars == <<lockVars, joinVars, ctxDone, pc, log, got, loggerVars, statVars>>
vars == <<srvVars, callVars>>

-----------------------------------------------------------------------------
(* The access list.  An input other than Malformed is a function from      *)
(* consumers to NotArray or to the set of elements of an array, each a     *)
(* pattern or NotString; contains does not depend on their order.          *)

Parses(input) ==
  /\ input # Malformed
  /\ \A k \in DOMAIN input : input[k] # NotArray /\ NotString \notin input[k]

Contains(patterns, method) == \E p \in patterns : method \in Match[p]

Authorised(c) == /\ Who[c] # NoConsumer
                 /\ Who[c] \in DOMAIN alc
                 /\ Contains(alc[Who[c]], Meth[c])

(* How many of a sequence of events have each method and each consumer. *)
CountStatistic(events) ==
  [byMethod |-> [m \in Method |->
      Cardinality({i \in DOMAIN events : Meth[events[i]] = m})],
   byConsumer |-> [k \in Consumer |->
      Cardinality({i \in DOMAIN events : Who[events[i]] = k})]]

AddStat(a, b) ==
  [byMethod |-> [m \in Method |-> a.byMethod[m] + b.byMethod[m]],
   byConsumer |-> [k \in Consumer |-> a.byConsumer[k] + b.byConsumer[k]]]

(* time.Duration(n) * time.Second in two's complement: NewTicker panics    *)
(* unless the product is positive.                                         *)
PositiveInterval(n) == (n * Second) % (2 * HalfRange) \in 1 .. HalfRange - 1

-----------------------------------------------------------------------------
Srv == {"init", "failed", "serving", "cancelled", "closed", "draining",
        "stopped", "crashed"}

(* The places of a handler, in the order it reaches them: the interceptor  *)
(* waits for mu, fans the event out (or waits for mu a second time), then  *)
(* the method runs: a Biz method, or a stream that joins and then loops.   *)
Pc == {"idle", "rejected", "lock", "notify", "relock", "handle", "join",
       "recv", "send", "newticker", "tick", "sendstat", "done"}

Init ==
  /\ srv = "init"
  /\ alc = [k \in {} |-> {}]
  /\ adminNil = FALSE
  /\ closed = {}
  /\ mu = Free
  /\ pos = 1
  /\ streams = << >>
  /\ ctxDone = {}
  /\ pc = [c \in Call |-> "idle"]
  /\ log = << >>
  /\ start = [c \in Call |-> 0]
  /\ got = [c \in Call |-> << >>]
  /\ sent = [c \in Call |-> 0]
  /\ col = [c \in Call |-> "none"]
  /\ evs = [c \in Call |-> << >>]
  /\ pend = [c \in Call |-> CountStatistic(<< >>)]
  /\ total = [c \in Call |-> CountStatistic(<< >>)]

Goto(c, l) == pc' = [pc EXCEPT ![c] = l]

(* mu.Lock() can return.  Mutant: it always does. *)
NoExclusion == TRUE
MuFree == mu = Free

(* A panic in any goroutine ends the process. *)
Panic == srv' = "crashed" /\ UNCHANGED <<alc, adminNil, closed, callVars>>

Alive == srv \notin {"init", "failed", "crashed"}

-----------------------------------------------------------------------------
(* StartMyMicroservice up to the launch of Serve.  When the port is taken  *)
(* lis is nil, and lis.Close() panics.                                     *)
Start ==
  /\ srv = "init"
  /\ \E free \in PortFree, input \in AlcInput :
       \/ ~free /\ Panic
       \/ /\ free /\ ~Parses(input)
          /\ srv' = "failed"
          /\ UNCHANGED <<alc, adminNil, closed, callVars>>
       \/ /\ free /\ Parses(input)
          /\ srv' = "serving"
          /\ alc' = input
          /\ UNCHANGED <<adminNil, closed, callVars>>

(* The owner of the context cancels it. *)
Finish == /\ MayFinish
          /\ srv = "serving"
          /\ srv' = "cancelled"
          /\ UNCHANGED <<alc, adminNil, closed, callVars>>

(* Mutant: the pointer survives, and so does addStream. *)
AdminCloseKeepsPointer == /\ srv = "cancelled"
                          /\ MuFree
                          /\ closed' = {streams[k] : k \in DOMAIN streams}
                          /\ srv' = "closed"
                          /\ UNCHANGED <<alc, adminNil, callVars>>

(* Mutant: the channels stay open. *)
AdminCloseLeavesChannels == /\ srv = "cancelled"
                            /\ MuFree
                            /\ adminNil' = TRUE
                            /\ srv' = "closed"
                            /\ UNCHANGED <<alc, closed, callVars>>

(* as.Close(): under mu every channel is closed; then the admin's pointer  *)
(* becomes nil, the slice it shares with the interceptor stays as it is.   *)
AdminClose == /\ srv = "cancelled"
              /\ MuFree
              /\ closed' = {streams[k] : k \in DOMAIN streams}
              /\ adminNil' = TRUE
              /\ srv' = "closed"
              /\ UNCHANGED <<alc, callVars>>

(* server.GracefulStop() closes the listeners, which frees the port, ... *)
StopListening == /\ srv = "closed"
                 /\ srv' = "draining"
                 /\ UNCHANGED <<alc, adminNil, closed, callVars>>

(* ... and returns when no handler is left. *)
Stopped == /\ srv = "draining"
           /\ \A c \in Call : pc[c] \in {"idle", "rejected", "done"}
           /\ srv' = "stopped"
           /\ UNCHANGED <<alc, adminNil, closed, callVars>>

-----------------------------------------------------------------------------
(* The interceptor.  Connections made before the listener closed may still *)
(* bring calls while the server drains.                                    *)
Arrive(c) ==
  /\ srv \in {"serving", "cancelled", "closed", "draining"}
  /\ pc[c] = "idle"
  /\ Goto(c, IF Authorised(c) THEN "lock" ELSE "rejected")
  /\ UNCHANGED <<srvVars, lockVars, joinVars, ctxDone, log, got, loggerVars, statVars>>

(* The index notifyStreams begins with. *)
FirstIndex == 1

(* i.mu.Lock() in intercept: the event takes its place in the log. *)
Lock(c) == /\ Alive
           /\ pc[c] = "lock"
           /\ MuFree
           /\ mu' = c
           /\ pos' = FirstIndex
           /\ log' = Append(log, c)
           /\ Goto(c, "notify")
           /\ UNCHANGED <<srvVars, joinVars, ctxDone, got, loggerVars, statVars>>

(* c is in the select of notifyStreams for the stream s. *)
Notifying(c, s) == /\ Alive
                   /\ pc[c] = "notify"
                   /\ pos \in DOMAIN streams
                   /\ s = streams[pos]

Receiving(s) == pc[s] = "recv" \/ col[s] = "recv"

(* The loop of notifyStreams goes on to the next stream. *)
NextStream == pos' = pos + 1

(* case st.Channel <- ev: the channel is unbuffered, so the Logging handler *)
(* or the collector of a Statistics call takes the event in the same step.  *)
Deliver(c, s) ==
  /\ Notifying(c, s)
  /\ s \notin closed
  /\ Receiving(s)
  /\ got' = [got EXCEPT ![s] = Append(@, c)]
  /\ NextStream
  /\ IF Meth[s] = "Logging"
     THEN Goto(s, "send") /\ UNCHANGED statVars
     ELSE /\ col' = [col EXCEPT ![s] = "append"]
          /\ UNCHANGED <<pc, evs, pend, total>>
  /\ UNCHANGED <<srvVars, mu, joinVars, ctxDone, log, loggerVars>>

(* The same case when the channel is closed. *)
SendOnClosed(c, s) == /\ Notifying(c, s)
                      /\ s \in closed
                      /\ Panic

(* Mutant: without that statement, the stream is cut out of the slice the  *)
(* loop is walking along, and the next one is skipped.                     *)
StreamGoneRemoves(c, s) ==
  /\ Notifying(c, s)
  /\ s \in ctxDone
  /\ streams' = SubSeq(streams, 1, pos - 1) \o SubSeq(streams, pos + 1, Len(streams))
  /\ closed' = closed \cup {s}
  /\ pos' = pos + 1
  /\ UNCHANGED <<srv, alc, adminNil, mu, start, pc, ctxDone, log, got, loggerVars, statVars>>

(* case <-st.Ctx.Done(): the first statement is i.mu.Lock(), on a mutex c  *)
(* already holds.  No action leaves "relock".                              *)
StreamGone(c, s) == /\ Notifying(c, s)
                    /\ s \in ctxDone
                    /\ Goto(c, "relock")
                    /\ UNCHANGED <<srvVars, lockVars, joinVars, ctxDone, log, got, loggerVars, statVars>>

(* The loop of notifyStreams is over.  Mutant: it does not wait for the    *)
(* streams.                                                                *)
FanOutSkipped == TRUE
FanOutDone == pos > Len(streams)

(* i.mu.Unlock().  Mutant: it is forgotten. *)
KeepMutex == UNCHANGED mu
ReleaseMutex == mu' = Free

(* The end of notifyStreams, i.mu.Unlock(), and the call of the handler. *)
Unlock(c) == /\ Alive
             /\ pc[c] = "notify"
             /\ FanOutDone
             /\ ReleaseMutex
             /\ pos' = 1
             /\ Goto(c, IF Meth[c] \in BizMethod THEN "handle" ELSE "join")
             /\ UNCHANGED <<srvVars, joinVars, ctxDone, log, got, loggerVars, statVars>>

-----------------------------------------------------------------------------
(* A handler returns; gRPC then cancels the context of its stream, as the  *)
(* deferred cancelFunc of Logging and Statistics does.                     *)
Return(c) == /\ Goto(c, "done")
             /\ ctxDone' = ctxDone \cup {c}

(* Check, Add and Test. *)
Handle(c) == /\ Alive
             /\ pc[c] = "handle"
             /\ Return(c)
             /\ UNCHANGED <<srvVars, lockVars, joinVars, log, got, loggerVars, statVars>>

(* addStream: after as.Close() it dereferences a nil pointer. *)
Join(c) ==
  /\ Alive
  /\ pc[c] = "join"
  /\ MuFree
  /\ \/ adminNil /\ Panic
     \/ /\ ~adminNil
        /\ streams' = Append(streams, c)
        /\ start' = [start EXCEPT ![c] = Len(log)]
        /\ Goto(c, IF Meth[c] = "Logging" THEN "recv" ELSE "newticker")
        /\ UNCHANGED <<srvVars, lockVars, ctxDone, log, got, loggerVars, statVars>>

(* The client of a stream goes away. *)
Leave(c) == /\ Alive
            /\ c \in Leaver \ ctxDone
            /\ Meth[c] \notin BizMethod
            /\ pc[c] \notin {"idle", "rejected", "done"}
            /\ ctxDone' = ctxDone \cup {c}
            /\ UNCHANGED <<srvVars, lockVars, joinVars, pc, log, got, loggerVars, statVars>>

-----------------------------------------------------------------------------
(* out.Send fails for this stream.  Mutant: it may fail at any time. *)
SendMayFail(c) == TRUE
SendFails(c) == c \in ctxDone

(* Logging: out.Send(ev), which fails once the context is done, and the    *)
(* end of the range over a closed channel.                                 *)
SendEvent(c) ==
  /\ Alive
  /\ pc[c] = "send"
  /\ \/ /\ c \notin ctxDone
        /\ sent' = [sent EXCEPT ![c] = @ + 1]
        /\ Goto(c, "recv")
        /\ UNCHANGED ctxDone
     \/ /\ SendFails(c)
        /\ Return(c)
        /\ UNCHANGED loggerVars
  /\ UNCHANGED <<srvVars, lockVars, joinVars, log, got, statVars>>

LoggingEnds(c) == /\ Alive
                  /\ pc[c] = "recv"
                  /\ c \in closed
                  /\ Return(c)
                  /\ UNCHANGED <<srvVars, lockVars, joinVars, log, got, loggerVars, statVars>>

-----------------------------------------------------------------------------
(* go func() in Statistics.  Mutant: the goroutine is not launched. *)
NoCollector(c) == UNCHANGED col
LaunchCollector(c) == col' = [col EXCEPT ![c] = "recv"]

(* Statistics: the collector goroutine is launched, then the ticker. *)
NewTicker(c) ==
  /\ Alive
  /\ pc[c] = "newticker"
  /\ \E n \in Interval :
       \/ ~PositiveInterval(n) /\ Panic
       \/ /\ PositiveInterval(n)
          /\ LaunchCollector(c)
          /\ Goto(c, "tick")
          /\ UNCHANGED <<srvVars, lockVars, joinVars, ctxDone, log, got, loggerVars, evs, pend, total>>

(* evs = append(evs, ev).  Mutant: the new event replaces the old ones. *)
Overwrite(events, e) == << e >>
Extend(events, e) == Append(events, e)

(* The collector appends under the handler's own mutex; it outlives the    *)
(* handler and ends when the channel is closed.                            *)
Collect(c) == /\ Alive
              /\ col[c] = "append"
              /\ evs' = [evs EXCEPT ![c] = Extend(@, got[c][Len(got[c])])]
              /\ col' = [col EXCEPT ![c] = "recv"]
              /\ UNCHANGED <<srvVars, lockVars, joinVars, ctxDone, pc, log, got, loggerVars, pend, total>>

CollectorEnds(c) == /\ Alive
                    /\ col[c] = "recv"
                    /\ c \in closed
                    /\ col' = [col EXCEPT ![c] = "exit"]
                    /\ UNCHANGED <<srvVars, lockVars, joinVars, ctxDone, pc, log, got, loggerVars, evs, pend, total>>

(* evs = make(...) after a count.  Mutant: it is forgotten. *)
KeptEvs(c) == evs[c]
FreshEvs(c) == << >>

(* A tick: under that mutex, count the events and start a new slice. *)
Tick(c) == /\ Alive
           /\ pc[c] = "tick"
           /\ pend' = [pend EXCEPT ![c] = CountStatistic(evs[c])]
           /\ evs' = [evs EXCEPT ![c] = FreshEvs(c)]
           /\ Goto(c, "sendstat")
           /\ UNCHANGED <<srvVars, lockVars, joinVars, ctxDone, log, got, loggerVars, col, total>>

(* out.Send(stat). *)
SendStat(c) ==
  /\ Alive
  /\ pc[c] = "sendstat"
  /\ pend' = [pend EXCEPT ![c] = CountStatistic(<< >>)]
  /\ \/ /\ c \notin ctxDone
        /\ total' = [total EXCEPT ![c] = AddStat(@, pend[c])]
        /\ Goto(c, "tick")
        /\ UNCHANGED ctxDone
     \/ /\ SendFails(c)
        /\ Return(c)
        /\ UNCHANGED total
  /\ UNCHANGED <<srvVars, lockVars, joinVars, log, got, loggerVars, col, evs>>

-----------------------------------------------------------------------------
Service == Start \/ Finish \/ AdminClose \/ StopListening \/ Stopped

Handler(c) ==
  \/ Lock(c) \/ Unlock(c) \/ Handle(c) \/ Join(c)
  \/ \E s \in Call : Deliver(c, s) \/ SendOnClosed(c, s) \/ StreamGone(c, s)
  \/ SendEvent(c) \/ LoggingEnds(c)
  \/ NewTicker(c) \/ Tick(c) \/ SendStat(c)

Collector(c) == Collect(c) \/ CollectorEnds(c)

Next == \/ Service
        \/ \E c \in Call : Arrive(c) \/ Leave(c) \/ Handler(c) \/ Collector(c)

Spec == Init /\ [][Next]_vars

(* A goroutine that can go on eventually does.  A mutex that is free only  *)
(* now and then is not at issue: each call locks mu twice at most, so weak *)
(* fairness is enough.  The clients of streams keep reading, so that a     *)
(* Send completes; nobody owes a call, a departure or a cancellation.      *)
Fairness == /\ WF_vars(Start) /\ WF_vars(AdminClose)
            /\ WF_vars(StopListening) /\ WF_vars(Stopped)
            /\ \A c \in Call : WF_vars(Handler(c)) /\ WF_vars(Collector(c))

FairSpec == Spec /\ Fairness

-----------------------------------------------------------------------------
TypeOK ==
  /\ srv \in Srv
  /\ adminNil \in BOOLEAN
  /\ closed \subseteq Call
  /\ mu \in Call \cup {Free}
  /\ pos \in Nat \ {0}
  /\ streams \in Seq(Call)
  /\ ctxDone \subseteq Call
  /\ pc \in [Call -> Pc]
  /\ log \in Seq(Call)
  /\ start \in [Call -> Nat]
  /\ got \in [Call -> Seq(Call)]
  /\ sent \in [Call -> Nat]
  /\ col \in [Call -> {"none", "recv", "append", "exit"}]
  /\ evs \in [Call -> Seq(Call)]

Joined == {streams[k] : k \in DOMAIN streams}

(* The call in the interceptor's critical section is the holder of mu, its *)
(* event is the last of the log, and its loop has not run past the end.    *)
MutexInv ==
  /\ \A c \in Call : (mu = c) <=> pc[c] \in {"notify", "relock"}
  /\ pos <= Len(streams) + 1
  /\ mu # Free => log # << >> /\ log[Len(log)] = mu

(* A call is in the log at most once, and from the moment it took mu.      *)
LogInv ==
  /\ \A i, j \in DOMAIN log : log[i] = log[j] => i = j
  /\ \A i \in DOMAIN log : pc[log[i]] \notin {"idle", "rejected", "lock"}

StreamPc == {"recv", "send", "newticker", "tick", "sendstat"}

(* A call has at most one stream, from the moment its handler has joined;  *)
(* nothing is received before, and a collector only appends what it got.   *)
StreamsInv ==
  /\ \A j, k \in DOMAIN streams : streams[j] = streams[k] => j = k
  /\ \A s \in Call : /\ pc[s] \in StreamPc => s \in Joined
                     /\ s \in Joined => pc[s] \in StreamPc \cup {"done"}
                     /\ s \notin Joined => got[s] = << >> /\ col[s] = "none"
                     /\ col[s] = "append" => got[s] # << >>

(* Delivery is synchronous: every stream has received every event since it *)
(* joined, except the one being fanned out, which exactly the streams the  *)
(* loop of notifyStreams has passed have received.  No stream lags behind  *)
(* another, dead clients and leaked collectors included.                   *)
LockStep ==
  \A k \in DOMAIN streams :
    start[streams[k]] + Len(got[streams[k]])
      = IF mu # Free /\ k >= pos THEN Len(log) - 1 ELSE Len(log)

(* What a stream has received is the piece of the log that begins where it *)
(* joined: no event lost, repeated or out of order on any stream, whatever *)
(* the interleaving of callers, clients and shutdown.                      *)
ViewsAreLogSegments ==
  \A s \in Call :
    /\ start[s] + Len(got[s]) <= Len(log)
    /\ \A i \in DOMAIN got[s] : got[s][i] = log[start[s] + i]

(* The inductive invariant from which the safety theorems are proved. *)
IInv == TypeOK /\ MutexInv /\ LogInv /\ StreamsInv /\ LockStep /\ ViewsAreLogSegments

(* A method runs only for an authorised call whose event is in the log     *)
(* once and has been handed to every stream that was open when it was      *)
(* published: the audit trail is never behind what the service has done    *)
(* (StreamInterceptor and UnaryInterceptor call intercept first).          *)
AuditedBeforeServed ==
  \A c \in Call :
    pc[c] \notin {"idle", "rejected", "lock", "notify", "relock"} =>
      /\ Authorised(c)
      /\ \E i \in DOMAIN log :
           /\ \A j \in DOMAIN log : log[j] = c <=> j = i
           /\ \A s \in Joined : start[s] < i => i <= start[s] + Len(got[s])

(* Logging and Statistics lose nothing between channel and client: while   *)
(* the handler runs, the events it received are those the client was sent  *)
(* plus the one in hand, and the counts the client was sent, plus those    *)
(* counted and those waiting for a tick, add up to what was received, by   *)
(* method and by consumer.                                                 *)
Conservation ==
  \A s \in Joined :
    LET inHand == IF pc[s] = "send" \/ col[s] = "append" THEN 1 ELSE 0
        taken  == SubSeq(got[s], 1, Len(got[s]) - inHand)
    IN  pc[s] # "done" =>
          IF Meth[s] = "Logging"
          THEN sent[s] = Len(taken)
          ELSE CountStatistic(taken)
                 = AddStat(total[s], AddStat(pend[s], CountStatistic(evs[s])))

(* While no client has gone away and the service is not shut down, a fan-  *)
(* out never takes the Done branch of its select, where it would lock the  *)
(* mutex it holds: a handler returns for no other reason.                  *)
SelfDeadlockNeedsDeparture ==
  \A c \in Call : pc[c] = "relock" => adminNil \/ streams[pos] \in Leaver

(* The process panics only because the port was taken, because of a ticker *)
(* whose interval is not positive, or once as.Close() has run.             *)
PanicNeedsClose ==
  srv = "crashed" =>
    \/ adminNil
    \/ FALSE \in PortFree /\ \A c \in Call : pc[c] = "idle"
    \/ \E c \in Call, n \in Interval : pc[c] = "newticker" /\ ~PositiveInterval(n)

-----------------------------------------------------------------------------
(* The streams promise what Broadcast promises.                            *)
Abs == INSTANCE Broadcast
         WITH Event <- Call, Subscriber <- Call,
              log <- log, joined <- Joined, from <- start, view <- got

(* Every step of the service is a step of Broadcast or changes nothing it  *)
(* can see: lock, select and unlock implement publication and delivery.    *)
ImplementsBroadcast == Abs!Spec

(* The same with Broadcast's fairness: an event published is delivered to  *)
(* every open stream.                                                      *)
ImplementsFairBroadcast == Abs!FairSpec

(* Two streams agree on the order of the events both have received.        *)
ViewsAgree == Abs!ViewsAgree

(* A call that passed the access check gets out of the interceptor: a Biz  *)
(* method answers, a stream opens.                                         *)
EveryCallServed ==
  \A c \in Call :
    (pc[c] = "lock") ~> (IF Meth[c] \in BizMethod THEN pc[c] = "done" ELSE c \in Joined)

(* Clients that keep reading are eventually told everything the log holds  *)
(* since they joined: loggers event by event, statistics as counts.        *)
ClientsCatchUp ==
  \A s \in Call :
    <>[](s \in Joined =>
           /\ start[s] + Len(got[s]) = Len(log)
           /\ IF Meth[s] = "Logging" THEN sent[s] = Len(got[s])
              ELSE total[s] = CountStatistic(got[s]))

(* Cancelling the context stops the server: HW/hw7_microservice/           *)
(* service_test.go:83 asks that all its goroutines end.                    *)
FinishStops == (srv = "cancelled") ~> (srv \in {"stopped", "crashed"})

(* What can keep a server from stopping, once cancelled, for ever: only a  *)
(* Statistics handler that ticks for a client that stays, or a caller that *)
(* locked mu twice, on a stream whose client had gone or, after            *)
(* as.Close(), on one whose handler had already returned.                  *)
FinishStopsOrLocksTwice ==
  <>[](\/ srv \in {"init", "failed", "serving", "stopped", "crashed"}
       \/ \E c \in Call : pc[c] = "relock" /\ (adminNil \/ streams[pos] \in Leaver)
       \/ \E c \in Call \ ctxDone : pc[c] \in {"tick", "sendstat"})

(* Cancelling the context frees the port (service_test.go:68). *)
FinishFreesPort == (srv = "cancelled") ~> (srv \in {"draining", "stopped", "crashed"})

(* The process does not panic: a stop is graceful (service_test.go:68), a  *)
(* failure to start is returned (service_test.go:73).                      *)
NoPanic == srv # "crashed"
=============================================================================

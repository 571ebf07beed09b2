------------------------- MODULE Microservice_proof -------------------------
(***************************************************************************)
(* Theorems about Microservice for every set of calls, every access list   *)
(* and every choice of the other constants: type correctness, lock-step    *)
(* delivery, and that the streams implement Broadcast.                     *)
(***************************************************************************)
EXTENDS Microservice, FiniteSetTheorems, TLAPS

(* What Microservice assumes of its constants, by name. *)
LEMMA FreeIsNoCall == Free \notin Call
BY ConstantsAssumption

(* Two facts about Append that every step on log and got uses. *)
LEMMA AppendFacts ==
  ASSUME NEW T, NEW q \in Seq(T), NEW e \in T
  PROVE  /\ Append(q, e) \in Seq(T)
         /\ Len(Append(q, e)) = Len(q) + 1
         /\ DOMAIN q = 1 .. Len(q)
         /\ DOMAIN Append(q, e) = 1 .. Len(q) + 1
         /\ \A i \in 1 .. Len(q) : Append(q, e)[i] = q[i]
         /\ Append(q, e)[Len(q) + 1] = e
         /\ Len(q) \in Nat
         /\ Append(q, e) # << >>
OBVIOUS

-----------------------------------------------------------------------------
(* The initial state satisfies the inductive invariant. *)
LEMMA InitIInv == Init => IInv
<1> SUFFICES ASSUME Init PROVE IInv
  OBVIOUS
<1>1. TypeOK
  <2>1. << >> \in Seq(Call)
    OBVIOUS
  <2>2. /\ got \in [Call -> Seq(Call)]
        /\ evs \in [Call -> Seq(Call)]
        /\ pc \in [Call -> Pc]
        /\ col \in [Call -> {"none", "recv", "append", "exit"}]
    BY <2>1 DEF Init, Pc
  <2>3. start \in [Call -> Nat] /\ sent \in [Call -> Nat]
    BY DEF Init
  <2>4. streams \in Seq(Call) /\ log \in Seq(Call)
    BY <2>1 DEF Init
  <2>5. srv \in Srv /\ adminNil \in BOOLEAN /\ mu \in Call \cup {Free}
    BY DEF Init, Srv
  <2>6. pos \in Nat \ {0}
    BY DEF Init
  <2>7. closed \subseteq Call /\ ctxDone \subseteq Call
    BY DEF Init
  <2> QED
    BY <2>2, <2>3, <2>4, <2>5, <2>6, <2>7 DEF TypeOK
<1>2. Joined = {}
  BY DEF Init, Joined
<1>3. MutexInv /\ LogInv
  BY FreeIsNoCall DEF Init, MutexInv, LogInv
<1>4. StreamsInv
  BY <1>2 DEF Init, StreamsInv, StreamPc
<1>5. LockStep /\ ViewsAreLogSegments
  BY DEF Init, LockStep, ViewsAreLogSegments
<1> QED
  BY <1>1, <1>3, <1>4, <1>5 DEF IInv

(* A step that leaves the mutex, the log and the streams alone, and moves  *)
(* no handler into or out of the critical section or a stream's life,      *)
(* preserves the invariant.                                                *)
Quiet == /\ UNCHANGED <<mu, pos, streams, log, start, got>>
         /\ \A s \in Call :
              /\ pc'[s] \in {"notify", "relock"} <=> pc[s] \in {"notify", "relock"}
              /\ pc'[s] \in {"idle", "rejected", "lock"} => pc[s] \in {"idle", "rejected", "lock"}
              /\ pc'[s] \in StreamPc => pc[s] \in StreamPc
              /\ s \in Joined => pc'[s] \in StreamPc \cup {"done"}
              /\ s \notin Joined => col'[s] = col[s]
              /\ col'[s] = "append" => col[s] = "append"

LEMMA QuietStep ==
  ASSUME IInv, TypeOK', Quiet PROVE IInv'
<1> Joined' = Joined
  BY DEF Quiet, Joined
<1>1. MutexInv'
  BY DEF IInv, MutexInv, Quiet
<1>5. LogInv'
  <2>1. \A i \in DOMAIN log : log[i] \in Call
    BY DEF IInv, TypeOK
  <2> QED
    BY <2>1 DEF IInv, LogInv, Quiet
<1>2. StreamsInv'
  BY DEF IInv, StreamsInv, Quiet
<1>3. LockStep'
  BY DEF IInv, LockStep, Quiet
<1>4. ViewsAreLogSegments'
  BY DEF IInv, ViewsAreLogSegments, Quiet
<1> QED
  BY <1>1, <1>2, <1>3, <1>4, <1>5 DEF IInv

-----------------------------------------------------------------------------
(* The steps of the service itself. *)
LEMMA PanicStep == ASSUME IInv, Panic PROVE IInv'
<1>1. TypeOK'
  BY DEF IInv, TypeOK, Panic, Srv, callVars, lockVars, joinVars, loggerVars, statVars
<1>2. Quiet
  BY DEF IInv, StreamsInv, Quiet, Panic, callVars, lockVars, joinVars, loggerVars, statVars
<1> QED
  BY <1>1, <1>2, QuietStep

LEMMA ServiceStep == ASSUME IInv, Service PROVE IInv'
<1> USE DEF callVars, lockVars, joinVars, loggerVars, statVars
<1>1. ASSUME UNCHANGED callVars, srv' \in Srv, adminNil' \in BOOLEAN, closed' \subseteq Call
      PROVE  IInv'
  <2>1. TypeOK'
    BY <1>1 DEF IInv, TypeOK
  <2>2. Quiet
    BY <1>1 DEF IInv, StreamsInv, Quiet
  <2> QED
    BY <2>1, <2>2, QuietStep
<1>2. CASE Start
  BY <1>1, <1>2, PanicStep DEF Start, IInv, TypeOK, Srv
<1>3. CASE Finish
  BY <1>1, <1>3 DEF Finish, IInv, TypeOK, Srv
<1>4. CASE AdminClose
  <2>1. closed' \subseteq Call
    BY <1>4 DEF AdminClose, IInv, TypeOK
  <2> QED
    BY <1>1, <1>4, <2>1 DEF AdminClose, Srv
<1>5. CASE StopListening
  BY <1>1, <1>5 DEF StopListening, IInv, TypeOK, Srv
<1>6. CASE Stopped
  BY <1>1, <1>6 DEF Stopped, IInv, TypeOK, Srv
<1> QED
  BY <1>2, <1>3, <1>4, <1>5, <1>6 DEF Service

-----------------------------------------------------------------------------
(* The steps of the interceptor. *)
LEMMA ArriveStep == ASSUME IInv, NEW c \in Call, Arrive(c) PROVE IInv'
<1> USE DEF srvVars, lockVars, joinVars, loggerVars, statVars
<1>1. TypeOK'
  BY DEF IInv, TypeOK, Arrive, Goto, Pc
<1>2. Quiet
  BY DEF IInv, TypeOK, StreamsInv, Quiet, Arrive, Goto, StreamPc
<1> QED
  BY <1>1, <1>2, QuietStep

(* Lock: the log grows by c, and every stream is now one event behind. *)
LEMMA LockStepHolds == ASSUME IInv, NEW c \in Call, Lock(c) PROVE IInv'
<1> USE DEF srvVars, joinVars, loggerVars, statVars
<1>1. /\ pc[c] = "lock" /\ mu = Free /\ mu' = c /\ pos' = 1
      /\ log' = Append(log, c) /\ pc' = [pc EXCEPT ![c] = "notify"]
      /\ UNCHANGED <<streams, start, got, col, evs, sent, srv, adminNil, closed, ctxDone>>
  BY DEF Lock, MuFree, FirstIndex, Goto
<1>2. /\ log' \in Seq(Call) /\ Len(log') = Len(log) + 1 /\ Len(log) \in Nat
      /\ log'[Len(log')] = c /\ log' # << >>
      /\ \A i \in 1 .. Len(log) : log'[i] = log[i]
  <2>1. log \in Seq(Call)
    BY DEF IInv, TypeOK
  <2> QED
    BY <1>1, <2>1, AppendFacts
<1>3. c # Free
  BY FreeIsNoCall
<1>4. /\ Joined' = Joined
      /\ Len(streams) \in Nat /\ DOMAIN streams = 1 .. Len(streams)
  BY <1>1 DEF Joined, IInv, TypeOK
<1>5. TypeOK'
  <2>1. pc' \in [Call -> Pc]
    BY <1>1 DEF IInv, TypeOK, Pc
  <2>2. log' \in Seq(Call) /\ mu' \in Call \cup {Free} /\ pos' \in Nat \ {0}
    BY <1>1, <1>2
  <2> QED
    BY <1>1, <2>1, <2>2 DEF IInv, TypeOK
<1>6. MutexInv'
  <2>1. \A d \in Call : (mu' = d) <=> pc'[d] \in {"notify", "relock"}
    BY <1>1, FreeIsNoCall DEF IInv, TypeOK, MutexInv
  <2> QED
    BY <1>1, <1>2, <1>4, <2>1 DEF MutexInv
<1>10. LogInv'
  <2>1. /\ DOMAIN log = 1 .. Len(log) /\ DOMAIN log' = 1 .. Len(log) + 1
        /\ \A i \in 1 .. Len(log) : log[i] \in Call
    BY <1>2 DEF IInv, TypeOK
  <2>2. \A i \in 1 .. Len(log) : log'[i] # c /\ log'[i] = log[i]
    BY <1>1, <1>2, <2>1 DEF IInv, LogInv
  <2>3. \A i \in DOMAIN log' : i \in 1 .. Len(log) \/ i = Len(log')
    BY <1>2, <2>1
  <2>4. \A i, j \in DOMAIN log' : log'[i] = log'[j] => i = j
    BY <1>2, <2>1, <2>2, <2>3 DEF IInv, LogInv
  <2>5. \A i \in DOMAIN log' : pc'[log'[i]] \notin {"idle", "rejected", "lock"}
    BY <1>1, <1>2, <2>1, <2>2, <2>3 DEF IInv, TypeOK, LogInv
  <2> QED
    BY <2>4, <2>5 DEF LogInv
<1>7. StreamsInv'
  BY <1>1, <1>4 DEF IInv, TypeOK, StreamsInv, StreamPc
<1>8. LockStep'
  BY <1>1, <1>2, <1>3, <1>4 DEF IInv, TypeOK, LockStep
<1>9. ViewsAreLogSegments'
  <2> SUFFICES ASSUME NEW s \in Call
               PROVE  /\ start[s] + Len(got[s]) <= Len(log')
                      /\ \A i \in DOMAIN got[s] : got[s][i] = log'[start[s] + i]
    BY <1>1 DEF ViewsAreLogSegments
  <2>1. start[s] \in Nat /\ Len(got[s]) \in Nat /\ DOMAIN got[s] = 1 .. Len(got[s])
    BY DEF IInv, TypeOK
  <2>2. /\ start[s] + Len(got[s]) <= Len(log)
        /\ \A i \in DOMAIN got[s] : got[s][i] = log[start[s] + i]
    BY DEF IInv, ViewsAreLogSegments
  <2>3. ASSUME NEW i \in DOMAIN got[s] PROVE got[s][i] = log'[start[s] + i]
    <3>1. start[s] + i \in 1 .. Len(log)
      BY <1>2, <2>1, <2>2
    <3> QED
      BY <1>2, <2>2, <3>1
  <2> QED
    BY <1>2, <2>1, <2>2, <2>3
<1> QED
  BY <1>5, <1>6, <1>7, <1>8, <1>9, <1>10 DEF IInv

(* Deliver: the stream at pos receives the last event of the log. *)
LEMMA DeliverStep ==
  ASSUME IInv, NEW c \in Call, NEW s \in Call, Deliver(c, s) PROVE IInv'
<1> USE DEF srvVars, joinVars, loggerVars, statVars
<1>1. /\ pc[c] = "notify" /\ pos \in DOMAIN streams /\ s = streams[pos]
      /\ got' = [got EXCEPT ![s] = Append(@, c)] /\ pos' = pos + 1
      /\ UNCHANGED <<mu, streams, start, log, evs, sent, srv, adminNil, closed, ctxDone>>
  BY DEF Deliver, Notifying, NextStream
<1>2. \/ pc' = [pc EXCEPT ![s] = "send"] /\ col' = col
      \/ pc' = pc /\ col' = [col EXCEPT ![s] = "append"]
  BY DEF Deliver, Goto
<1>3. mu = c /\ mu # Free /\ log # << >> /\ log[Len(log)] = c
  BY <1>1, FreeIsNoCall DEF IInv, MutexInv
<1>4. /\ Joined' = Joined /\ s \in Joined
      /\ Len(streams) \in Nat /\ DOMAIN streams = 1 .. Len(streams)
      /\ pos \in 1 .. Len(streams)
  <2>1. Joined' = Joined /\ s \in Joined
    BY <1>1 DEF Joined
  <2>2. Len(streams) \in Nat /\ DOMAIN streams = 1 .. Len(streams)
    BY DEF IInv, TypeOK
  <2> QED
    BY <1>1, <2>1, <2>2
<1>5. s # c
  BY <1>1, <1>4 DEF IInv, StreamsInv, StreamPc
<1>6. /\ got[s] \in Seq(Call) /\ got'[s] = Append(got[s], c)
      /\ \A t \in Call \ {s} : got'[t] = got[t]
  BY <1>1 DEF IInv, TypeOK
<1>7. /\ got'[s] \in Seq(Call) /\ Len(got'[s]) = Len(got[s]) + 1
      /\ Len(got[s]) \in Nat /\ got'[s] # << >>
      /\ DOMAIN got[s] = 1 .. Len(got[s]) /\ DOMAIN got'[s] = 1 .. Len(got[s]) + 1
      /\ \A i \in 1 .. Len(got[s]) : got'[s][i] = got[s][i]
      /\ got'[s][Len(got[s]) + 1] = c
  BY <1>6, AppendFacts
<1>8. start[s] \in Nat /\ start[s] + Len(got[s]) = Len(log) - 1 /\ Len(log) \in Nat
  <2>1. start[s] \in Nat /\ Len(log) \in Nat
    BY DEF IInv, TypeOK
  <2>2. pos >= pos
    BY <1>4
  <2>3. start[s] + Len(got[s]) = IF mu # Free /\ pos >= pos THEN Len(log) - 1 ELSE Len(log)
    BY <1>1 DEF IInv, LockStep
  <2> QED
    BY <1>3, <2>1, <2>2, <2>3
<1>9. TypeOK'
  <2>1. pc' \in [Call -> Pc] /\ col' \in [Call -> {"none", "recv", "append", "exit"}]
    BY <1>2 DEF IInv, TypeOK, Pc
  <2>2. got' \in [Call -> Seq(Call)]
    BY <1>1, <1>6, <1>7 DEF IInv, TypeOK
  <2>3. pos' \in Nat \ {0}
    BY <1>1, <1>4
  <2> QED
    BY <1>1, <2>1, <2>2, <2>3 DEF IInv, TypeOK
<1>10. MutexInv'
  <2>1. \A d \in Call : (mu' = d) <=> pc'[d] \in {"notify", "relock"}
    BY <1>1, <1>2, <1>4 DEF IInv, TypeOK, MutexInv, StreamsInv, StreamPc
  <2>2. pos' <= Len(streams') + 1
    BY <1>1, <1>4
  <2> QED
    BY <1>1, <1>3, <2>1, <2>2 DEF MutexInv
<1>14. LogInv'
  <2>1. \A i \in DOMAIN log : log[i] \in Call
    BY DEF IInv, TypeOK
  <2> QED
    BY <1>1, <1>2, <2>1 DEF IInv, TypeOK, LogInv
<1>11. StreamsInv'
  <2>1. \A t \in Call : /\ pc'[t] \in StreamPc => t \in Joined
                        /\ t \in Joined => pc'[t] \in StreamPc \cup {"done"}
    BY <1>2, <1>4 DEF IInv, TypeOK, StreamsInv, StreamPc
  <2>2. \A t \in Call : /\ t \notin Joined => got'[t] = << >> /\ col'[t] = "none"
                        /\ col'[t] = "append" => got'[t] # << >>
    BY <1>2, <1>4, <1>6, <1>7 DEF IInv, TypeOK, StreamsInv
  <2> QED
    BY <1>1, <1>4, <2>1, <2>2 DEF IInv, StreamsInv
<1>12. LockStep'
  <2> SUFFICES ASSUME NEW k \in DOMAIN streams
               PROVE  start[streams[k]] + Len(got'[streams[k]])
                        = IF k >= pos + 1 THEN Len(log) - 1 ELSE Len(log)
    BY <1>1, <1>3 DEF LockStep
  <2>1. CASE k = pos
    <3>1. streams[k] = s /\ ~(k >= pos + 1)
      BY <1>1, <1>4, <2>1
    <3>2. start[s] + Len(got'[s]) = Len(log)
      BY <1>7, <1>8
    <3> QED
      BY <3>1, <3>2
  <2>2. CASE k # pos
    <3>1. streams[k] \in Call \ {s}
      BY <1>1, <2>2 DEF IInv, TypeOK, StreamsInv
    <3>2. start[streams[k]] + Len(got[streams[k]])
            = IF k >= pos THEN Len(log) - 1 ELSE Len(log)
      BY <1>3 DEF IInv, LockStep
    <3> QED
      BY <1>4, <1>6, <2>2, <3>1, <3>2
  <2> QED
    BY <2>1, <2>2
<1>13. ViewsAreLogSegments'
  <2> SUFFICES ASSUME NEW t \in Call
               PROVE  /\ start[t] + Len(got'[t]) <= Len(log)
                      /\ \A i \in DOMAIN got'[t] : got'[t][i] = log[start[t] + i]
    BY <1>1 DEF ViewsAreLogSegments
  <2>1. /\ start[t] + Len(got[t]) <= Len(log)
        /\ \A i \in DOMAIN got[t] : got[t][i] = log[start[t] + i]
    BY DEF IInv, ViewsAreLogSegments
  <2>2. CASE t = s
    <3>1. start[s] + Len(got'[s]) = Len(log)
      BY <1>7, <1>8
    <3>2. ASSUME NEW i \in 1 .. Len(got[s]) PROVE got'[s][i] = log[start[s] + i]
      BY <1>7, <2>1, <2>2
    <3>3. got'[s][Len(got[s]) + 1] = log[start[s] + (Len(got[s]) + 1)]
      <4>1. start[s] + (Len(got[s]) + 1) = Len(log)
        BY <1>7, <1>8
      <4> QED
        BY <1>3, <1>7, <4>1
    <3>4. \A i \in DOMAIN got'[s] : i \in 1 .. Len(got[s]) \/ i = Len(got[s]) + 1
      BY <1>7
    <3>5. start[s] + Len(got'[s]) <= Len(log)
      BY <1>8, <3>1
    <3> QED
      BY <2>2, <3>2, <3>3, <3>4, <3>5
  <2>3. CASE t # s
    BY <1>6, <2>1, <2>3
  <2> QED
    BY <2>2, <2>3
<1> QED
  BY <1>9, <1>10, <1>11, <1>12, <1>13, <1>14 DEF IInv

(* StreamGone: the holder of the mutex is stuck, and stays its holder. *)
LEMMA StreamGoneStep ==
  ASSUME IInv, NEW c \in Call, NEW s \in Call, StreamGone(c, s) PROVE IInv'
<1> USE DEF srvVars, lockVars, joinVars, loggerVars, statVars
<1>1. TypeOK'
  BY DEF IInv, TypeOK, StreamGone, Goto, Pc
<1>2. Quiet
  BY DEF IInv, TypeOK, StreamsInv, Quiet, StreamGone, Notifying, Goto, StreamPc
<1> QED
  BY <1>1, <1>2, QuietStep

(* Unlock: the loop is over, so that every stream has the last event. *)
LEMMA UnlockStep == ASSUME IInv, NEW c \in Call, Unlock(c) PROVE IInv'
<1> USE DEF srvVars, joinVars, loggerVars, statVars
<1>1. /\ pc[c] = "notify" /\ pos > Len(streams) /\ mu' = Free /\ pos' = 1
      /\ UNCHANGED <<streams, start, log, got, col, evs, sent, srv, adminNil, closed, ctxDone>>
  BY DEF Unlock, FanOutDone, ReleaseMutex
<1>2. pc' = [pc EXCEPT ![c] = "handle"] \/ pc' = [pc EXCEPT ![c] = "join"]
  BY DEF Unlock, Goto
<1>3. mu = c /\ mu # Free /\ Joined' = Joined
  BY <1>1, FreeIsNoCall DEF IInv, MutexInv, Joined
<1>4. Len(streams) \in Nat /\ DOMAIN streams = 1 .. Len(streams)
  BY DEF IInv, TypeOK
<1>5. TypeOK'
  <2>1. pc' \in [Call -> Pc]
    BY <1>2 DEF IInv, TypeOK, Pc
  <2> QED
    BY <1>1, <2>1 DEF IInv, TypeOK
<1>6. MutexInv'
  <2>1. \A d \in Call : (mu' = d) <=> pc'[d] \in {"notify", "relock"}
    BY <1>1, <1>2, <1>3, FreeIsNoCall DEF IInv, TypeOK, MutexInv
  <2> QED
    BY <1>1, <1>4, <2>1 DEF MutexInv
<1>7. LogInv'
  <2>1. \A i \in DOMAIN log : log[i] \in Call
    BY DEF IInv, TypeOK
  <2> QED
    BY <1>1, <1>2, <2>1 DEF IInv, TypeOK, LogInv
<1>8. StreamsInv'
  BY <1>1, <1>2, <1>3 DEF IInv, TypeOK, StreamsInv, StreamPc
<1>9. LockStep'
  <2>1. \A k \in DOMAIN streams : ~(k >= pos)
    BY <1>1, <1>4 DEF IInv, TypeOK
  <2> QED
    BY <1>1, <2>1 DEF IInv, LockStep
<1>10. ViewsAreLogSegments'
  BY <1>1 DEF IInv, ViewsAreLogSegments
<1> QED
  BY <1>5, <1>6, <1>7, <1>8, <1>9, <1>10 DEF IInv

(* Join: the new stream begins at the end of the log, with nothing owed. *)
LEMMA JoinStep == ASSUME IInv, NEW c \in Call, Join(c) PROVE IInv'
<1> USE DEF srvVars, lockVars, joinVars, loggerVars, statVars
<1>1. CASE Panic
  BY <1>1, PanicStep
<1>2. CASE ~Panic
  <2>1. /\ pc[c] = "join" /\ mu = Free /\ streams' = Append(streams, c)
        /\ start' = [start EXCEPT ![c] = Len(log)]
        /\ UNCHANGED <<mu, pos, log, got, col, evs, sent, srv, adminNil, closed, ctxDone>>
    BY <1>2 DEF Join, MuFree
  <2>2. pc' = [pc EXCEPT ![c] = "recv"] \/ pc' = [pc EXCEPT ![c] = "newticker"]
    BY <1>2 DEF Join, Goto
  <2>3. streams \in Seq(Call) /\ log \in Seq(Call) /\ Len(log) \in Nat
    BY DEF IInv, TypeOK
  <2>4. /\ streams' \in Seq(Call) /\ Len(streams') = Len(streams) + 1
        /\ Len(streams) \in Nat /\ DOMAIN streams = 1 .. Len(streams)
        /\ DOMAIN streams' = 1 .. Len(streams) + 1
        /\ \A k \in 1 .. Len(streams) : streams'[k] = streams[k]
        /\ streams'[Len(streams) + 1] = c
    BY <2>1, <2>3, AppendFacts
  <2>5. \A k \in DOMAIN streams' : k \in DOMAIN streams \/ k = Len(streams) + 1
    BY <2>4
  <2>6. c \notin Joined /\ got[c] = << >> /\ col[c] = "none"
    BY <2>1 DEF IInv, StreamsInv, StreamPc
  <2>7. Joined' = Joined \cup {c}
    BY <2>4, <2>5 DEF Joined
  <2>8. \A k \in DOMAIN streams : streams[k] \in Call \ {c}
    BY <2>4, <2>6 DEF Joined, IInv, TypeOK
  <2>9. TypeOK'
    <3>1. pc' \in [Call -> Pc] /\ start' \in [Call -> Nat]
      BY <2>1, <2>2, <2>3 DEF IInv, TypeOK, Pc
    <3> QED
      BY <2>1, <2>4, <3>1 DEF IInv, TypeOK
  <2>10. MutexInv'
    <3>1. \A d \in Call : (mu' = d) <=> pc'[d] \in {"notify", "relock"}
      BY <2>1, <2>2 DEF IInv, TypeOK, MutexInv
    <3>2. pos' <= Len(streams') + 1
      BY <2>1, <2>4 DEF IInv, TypeOK, MutexInv
    <3> QED
      BY <2>1, <3>1, <3>2 DEF IInv, MutexInv
  <2>11. LogInv'
    <3>1. \A i \in DOMAIN log : log[i] \in Call
      BY DEF IInv, TypeOK
    <3> QED
      BY <2>1, <2>2, <3>1 DEF IInv, TypeOK, LogInv
  <2>12. StreamsInv'
    <3>1. \A j, k \in DOMAIN streams' : streams'[j] = streams'[k] => j = k
      BY <2>4, <2>5, <2>8 DEF IInv, StreamsInv
    <3>2. \A s \in Call : /\ pc'[s] \in StreamPc => s \in Joined'
                          /\ s \in Joined' => pc'[s] \in StreamPc \cup {"done"}
      BY <2>2, <2>7 DEF IInv, TypeOK, StreamsInv, StreamPc
    <3> QED
      BY <2>1, <2>7, <3>1, <3>2 DEF IInv, StreamsInv
  <2>13. LockStep'
    <3> SUFFICES ASSUME NEW k \in DOMAIN streams'
                 PROVE  start'[streams'[k]] + Len(got[streams'[k]]) = Len(log)
      BY <2>1 DEF LockStep
    <3>1. CASE k \in DOMAIN streams
      BY <2>1, <2>4, <2>8, <3>1 DEF IInv, TypeOK, LockStep
    <3>2. CASE k = Len(streams) + 1
      BY <2>1, <2>3, <2>4, <2>6, <3>2 DEF IInv, TypeOK
    <3> QED
      BY <2>5, <3>1, <3>2
  <2>14. ViewsAreLogSegments'
    <3> SUFFICES ASSUME NEW s \in Call
                 PROVE  /\ start'[s] + Len(got[s]) <= Len(log)
                        /\ \A i \in DOMAIN got[s] : got[s][i] = log[start'[s] + i]
      BY <2>1 DEF ViewsAreLogSegments
    <3>1. CASE s = c
      BY <2>1, <2>3, <2>6, <3>1 DEF IInv, TypeOK
    <3>2. CASE s # c
      BY <2>1, <3>2 DEF IInv, TypeOK, ViewsAreLogSegments
    <3> QED
      BY <3>1, <3>2
  <2> QED
    BY <2>9, <2>10, <2>11, <2>12, <2>13, <2>14 DEF IInv
<1> QED
  BY <1>1, <1>2

-----------------------------------------------------------------------------
(* The steps of a handler outside the interceptor, of a collector and of a *)
(* client: all of them quiet.                                              *)
LEMMA OtherStep ==
  ASSUME IInv, NEW c \in Call,
         \/ Handle(c) \/ Leave(c) \/ SendEvent(c) \/ LoggingEnds(c) \/ NewTicker(c)
         \/ Collect(c) \/ CollectorEnds(c) \/ Tick(c) \/ SendStat(c)
  PROVE  IInv'
<1> USE DEF srvVars, lockVars, joinVars, loggerVars, statVars, Goto
<1>1. CASE Handle(c)
  <2>1. TypeOK'
    BY <1>1 DEF IInv, TypeOK, Handle, Return, Pc
  <2>2. Quiet
    BY <1>1 DEF IInv, TypeOK, StreamsInv, Quiet, Handle, Return, StreamPc
  <2> QED
    BY <2>1, <2>2, QuietStep
<1>2. CASE Leave(c)
  <2>1. TypeOK'
    BY <1>2 DEF IInv, TypeOK, Leave
  <2>2. Quiet
    BY <1>2 DEF IInv, TypeOK, StreamsInv, Quiet, Leave
  <2> QED
    BY <2>1, <2>2, QuietStep
<1>3. CASE SendEvent(c)
  <2>1. TypeOK'
    <3>1. pc' \in [Call -> Pc]
      BY <1>3 DEF IInv, TypeOK, SendEvent, Return, Pc
    <3>2. sent' \in [Call -> Nat]
      <4>1. sent' = [sent EXCEPT ![c] = @ + 1] \/ sent' = sent
        BY <1>3 DEF SendEvent
      <4>2. sent \in [Call -> Nat]
        BY DEF IInv, TypeOK
      <4> QED
        BY <4>1, <4>2
    <3>3. ctxDone' \subseteq Call
      BY <1>3 DEF IInv, TypeOK, SendEvent, Return
    <3> QED
      BY <1>3, <3>1, <3>2, <3>3 DEF IInv, TypeOK, SendEvent
  <2>2. Quiet
    BY <1>3 DEF IInv, TypeOK, StreamsInv, Quiet, SendEvent, Return, StreamPc
  <2> QED
    BY <2>1, <2>2, QuietStep
<1>4. CASE LoggingEnds(c)
  <2>1. TypeOK'
    BY <1>4 DEF IInv, TypeOK, LoggingEnds, Return, Pc
  <2>2. Quiet
    BY <1>4 DEF IInv, TypeOK, StreamsInv, Quiet, LoggingEnds, Return, StreamPc
  <2> QED
    BY <2>1, <2>2, QuietStep
<1>5. CASE NewTicker(c)
  <2>1. CASE Panic
    BY <2>1, PanicStep
  <2>2. CASE ~Panic
    <3>1. TypeOK'
      BY <1>5, <2>2 DEF IInv, TypeOK, NewTicker, LaunchCollector, Pc
    <3>2. Quiet
      BY <1>5, <2>2 DEF IInv, TypeOK, StreamsInv, Quiet, NewTicker, LaunchCollector, StreamPc
    <3> QED
      BY <3>1, <3>2, QuietStep
  <2> QED
    BY <2>1, <2>2
<1>6. CASE Collect(c)
  <2>1. got[c] \in Seq(Call) /\ got[c] # << >>
    BY <1>6 DEF IInv, TypeOK, StreamsInv, Collect
  <2>2. got[c][Len(got[c])] \in Call
    BY <2>1
  <2>3. evs' \in [Call -> Seq(Call)]
    BY <1>6, <2>2 DEF IInv, TypeOK, Collect, Extend
  <2>4. TypeOK'
    BY <1>6, <2>3 DEF IInv, TypeOK, Collect
  <2>5. Quiet
    BY <1>6 DEF IInv, TypeOK, StreamsInv, Quiet, Collect
  <2> QED
    BY <2>4, <2>5, QuietStep
<1>7. CASE CollectorEnds(c)
  <2>1. TypeOK'
    BY <1>7 DEF IInv, TypeOK, CollectorEnds
  <2>2. Quiet
    BY <1>7 DEF IInv, TypeOK, StreamsInv, Quiet, CollectorEnds
  <2> QED
    BY <2>1, <2>2, QuietStep
<1>8. CASE Tick(c)
  <2>1. evs' \in [Call -> Seq(Call)] /\ pc' \in [Call -> Pc]
    BY <1>8 DEF IInv, TypeOK, Tick, FreshEvs, Pc
  <2>2. TypeOK'
    BY <1>8, <2>1 DEF IInv, TypeOK, Tick
  <2>3. Quiet
    BY <1>8 DEF IInv, TypeOK, StreamsInv, Quiet, Tick, StreamPc
  <2> QED
    BY <2>2, <2>3, QuietStep
<1>9. CASE SendStat(c)
  <2>1. TypeOK'
    BY <1>9 DEF IInv, TypeOK, SendStat, Return, Pc
  <2>2. Quiet
    BY <1>9 DEF IInv, TypeOK, StreamsInv, Quiet, SendStat, Return, StreamPc
  <2> QED
    BY <2>1, <2>2, QuietStep
<1> QED
  BY <1>1, <1>2, <1>3, <1>4, <1>5, <1>6, <1>7, <1>8, <1>9

(* Every step preserves the invariant. *)
LEMMA NextIInv == IInv /\ [Next]_vars => IInv'
<1> SUFFICES ASSUME IInv, [Next]_vars PROVE IInv'
  OBVIOUS
<1>1. CASE Service
  BY <1>1, ServiceStep
<1>2. ASSUME NEW c \in Call, Arrive(c) \/ Leave(c) \/ Handler(c) \/ Collector(c)
      PROVE  IInv'
  <2>1. ASSUME NEW s \in Call, SendOnClosed(c, s) PROVE IInv'
    BY <2>1, PanicStep DEF SendOnClosed
  <2> QED
    BY <1>2, <2>1, ArriveStep, LockStepHolds, DeliverStep, StreamGoneStep, UnlockStep,
       JoinStep, OtherStep DEF Handler, Collector
<1>3. CASE UNCHANGED vars
  <2>1. TypeOK'
    BY <1>3 DEF IInv, TypeOK, vars, srvVars, callVars, lockVars, joinVars, loggerVars, statVars
  <2>2. Quiet
    BY <1>3 DEF IInv, StreamsInv, Quiet, vars, callVars, lockVars, joinVars, statVars
  <2> QED
    BY <2>1, <2>2, QuietStep
<1> QED
  BY <1>1, <1>2, <1>3 DEF Next

-----------------------------------------------------------------------------
(* The invariant, and with it the type invariant, the synchronous delivery *)
(* of events and the shape of every view, hold in every reachable state of *)
(* the service (notifyStreams, addStream, Close in HW/hw7_microservice).   *)
THEOREM Invariance == Spec => []IInv
BY InitIInv, NextIInv, PTL DEF Spec

(* Every variable has its type in every reachable state. *)
THEOREM TypeCorrectness == Spec => []TypeOK
<1>1. IInv => TypeOK
  BY DEF IInv
<1> QED
  BY <1>1, Invariance, PTL

(* No open stream is behind another by more than the event being fanned    *)
(* out, however many callers, streams and departures there are.            *)
THEOREM Synchrony == Spec => []LockStep
<1>1. IInv => LockStep
  BY DEF IInv
<1> QED
  BY <1>1, Invariance, PTL

(* What each stream received is the piece of the log from where it joined. *)
THEOREM Segments == Spec => []ViewsAreLogSegments
<1>1. IInv => ViewsAreLogSegments
  BY DEF IInv
<1> QED
  BY <1>1, Invariance, PTL

-----------------------------------------------------------------------------
(* Refinement: the service's streams implement Broadcast. *)
LEMMA InitRefines == Init => Abs!Init
BY DEF Init, Joined, Abs!Init

(* Lock is Publish, Join is Subscribe, Deliver is Deliver; everything else *)
(* is invisible.                                                           *)
LEMMA StepRefines == IInv /\ [Next]_vars => [Abs!Next]_(Abs!vars)
<1> SUFFICES ASSUME IInv, [Next]_vars PROVE [Abs!Next]_(Abs!vars)
  OBVIOUS
<1> DEFINE Same == UNCHANGED <<log, streams, start, got>>
<1>1. ASSUME Same PROVE UNCHANGED Abs!vars
  BY <1>1 DEF Abs!vars, Joined
<1>2. ASSUME Panic PROVE Same
  BY <1>2 DEF Panic, callVars, joinVars
<1>3. ASSUME mu = Free PROVE \A s \in Joined : Abs!CaughtUp(s)
  BY <1>3 DEF IInv, LockStep, Joined, Abs!CaughtUp
<1>4. ASSUME NEW c \in Call, Lock(c) PROVE Abs!Publish(c)
  <2>1. /\ pc[c] = "lock" /\ mu = Free /\ log' = Append(log, c)
        /\ UNCHANGED <<streams, start, got>>
    BY <1>4 DEF Lock, MuFree, joinVars
  <2>2. c \notin Abs!Published
    BY <2>1 DEF IInv, LogInv, Abs!Published
  <2> QED
    BY <1>3, <2>1, <2>2 DEF Abs!Publish, Joined
<1>5. ASSUME NEW c \in Call, Join(c), ~Panic PROVE Abs!Subscribe(c)
  <2>1. /\ pc[c] = "join" /\ mu = Free /\ streams' = Append(streams, c)
        /\ start' = [start EXCEPT ![c] = Len(log)]
        /\ UNCHANGED <<log, got>>
    BY <1>5 DEF Join, MuFree
  <2>2. streams \in Seq(Call)
    BY DEF IInv, TypeOK
  <2>3. /\ Len(streams) \in Nat /\ DOMAIN streams = 1 .. Len(streams)
        /\ DOMAIN streams' = 1 .. Len(streams) + 1
        /\ \A k \in 1 .. Len(streams) : streams'[k] = streams[k]
        /\ streams'[Len(streams) + 1] = c
    BY <2>1, <2>2, AppendFacts
  <2>4. \A k \in DOMAIN streams' : k \in DOMAIN streams \/ k = Len(streams) + 1
    BY <2>3
  <2>5. Joined' = Joined \cup {c}
    BY <2>3, <2>4 DEF Joined
  <2>6. c \notin Joined
    BY <2>1 DEF IInv, StreamsInv, StreamPc
  <2> QED
    BY <1>3, <2>1, <2>5, <2>6 DEF Abs!Subscribe
<1>6. ASSUME NEW c \in Call, NEW s \in Call, Deliver(c, s) PROVE Abs!Deliver(s)
  <2>1. /\ pc[c] = "notify" /\ pos \in DOMAIN streams /\ s = streams[pos]
        /\ got' = [got EXCEPT ![s] = Append(@, c)]
        /\ UNCHANGED <<streams, start, log>>
    BY <1>6 DEF Deliver, Notifying, joinVars
  <2>2. mu = c /\ mu # Free /\ log[Len(log)] = c
    BY <2>1, FreeIsNoCall DEF IInv, MutexInv
  <2>3. /\ start[s] \in Nat /\ Len(log) \in Nat /\ pos \in Nat
        /\ got[s] \in Seq(Call) /\ Len(got[s]) \in Nat
    BY DEF IInv, TypeOK
  <2>4. start[s] + Len(got[s]) = IF mu # Free /\ pos >= pos THEN Len(log) - 1 ELSE Len(log)
    BY <2>1 DEF IInv, LockStep
  <2>5. start[s] + Len(got[s]) = Len(log) - 1
    BY <2>2, <2>3, <2>4
  <2>6. /\ start[s] + Len(got[s]) < Len(log)
        /\ log[start[s] + Len(got[s]) + 1] = c
    BY <2>2, <2>3, <2>5
  <2>7. s \in Joined /\ Joined' = Joined
    BY <2>1 DEF Joined
  <2>8. got' = [got EXCEPT ![s] = Append(@, log[start[s] + Len(@) + 1])]
    BY <2>1, <2>6
  <2> QED
    BY <2>1, <2>6, <2>7, <2>8 DEF Abs!Deliver
<1>7. CASE Service
  <2>1. Same
    BY <1>2, <1>7 DEF Service, Start, Finish, AdminClose, StopListening, Stopped, callVars, joinVars
  <2> QED
    BY <1>1, <2>1
<1>8. ASSUME NEW c \in Call, Arrive(c) \/ Leave(c) \/ Handler(c) \/ Collector(c)
      PROVE  Abs!Next \/ Same
  <2>1. ASSUME Arrive(c) \/ Leave(c) \/ Handle(c) \/ Unlock(c) PROVE Same
    BY <2>1 DEF Arrive, Leave, Handle, Unlock, joinVars
  <2>2. ASSUME SendEvent(c) \/ LoggingEnds(c) PROVE Same
    BY <2>2 DEF SendEvent, LoggingEnds, joinVars
  <2>3. ASSUME NewTicker(c) \/ Tick(c) \/ SendStat(c) PROVE Same
    BY <1>2, <2>3 DEF NewTicker, Tick, SendStat, joinVars
  <2>4. ASSUME Collector(c) PROVE Same
    BY <2>4 DEF Collector, Collect, CollectorEnds, joinVars
  <2>5. ASSUME NEW s \in Call, StreamGone(c, s) \/ SendOnClosed(c, s) PROVE Same
    BY <1>2, <2>5 DEF StreamGone, SendOnClosed, joinVars
  <2>6. ASSUME Lock(c) \/ Join(c) PROVE Abs!Next \/ Same
    BY <1>2, <1>4, <1>5, <2>6 DEF Abs!Next
  <2>7. ASSUME NEW s \in Call, Deliver(c, s) PROVE Abs!Next
    BY <1>6, <2>7 DEF Abs!Next
  <2> QED
    BY <1>8, <2>1, <2>2, <2>3, <2>4, <2>5, <2>6, <2>7 DEF Handler
<1>9. CASE UNCHANGED vars
  <2>1. Same
    BY <1>9 DEF vars, callVars, joinVars
  <2> QED
    BY <1>1, <2>1
<1> QED
  BY <1>1, <1>7, <1>8, <1>9 DEF Next

(* The specification of the service implies that of Broadcast: what the    *)
(* mutex, the channels and the select do is publish, subscribe, deliver.   *)
THEOREM Refinement == Spec => ImplementsBroadcast
BY InitRefines, StepRefines, Invariance, PTL DEF Spec, ImplementsBroadcast, Abs!Spec

(* Two streams agree on the order of what both received: an event is at    *)
(* the same place of the log for both.                                     *)
THEOREM Agreement == Spec => []ViewsAgree
<1>1. IInv => ViewsAgree
  <2> SUFFICES ASSUME IInv, NEW s \in Joined, NEW t \in Joined,
                      NEW i \in DOMAIN got[s], NEW j \in DOMAIN got[t]
               PROVE  (got[s][i] = got[t][j]) <=> (start[s] + i = start[t] + j)
    BY DEF ViewsAgree, Abs!ViewsAgree
  <2>1. s \in Call /\ t \in Call
    BY DEF IInv, TypeOK, Joined
  <2>2. got[s][i] = log[start[s] + i] /\ got[t][j] = log[start[t] + j]
    BY <2>1 DEF IInv, ViewsAreLogSegments
  <2>3. /\ start[s] \in Nat /\ start[t] \in Nat /\ Len(log) \in Nat
        /\ DOMAIN log = 1 .. Len(log)
    BY <2>1 DEF IInv, TypeOK
  <2>6. /\ Len(got[s]) \in Nat /\ Len(got[t]) \in Nat
        /\ i \in 1 .. Len(got[s]) /\ j \in 1 .. Len(got[t])
    <3>1. got[s] \in Seq(Call) /\ got[t] \in Seq(Call)
      BY <2>1 DEF IInv, TypeOK
    <3> QED
      BY <3>1
  <2>4. start[s] + Len(got[s]) <= Len(log) /\ start[t] + Len(got[t]) <= Len(log)
    BY <2>1 DEF IInv, ViewsAreLogSegments
  <2>5. start[s] + i \in DOMAIN log /\ start[t] + j \in DOMAIN log
    <3>1. ASSUME NEW a \in Nat, NEW n \in Nat, NEW k \in 1 .. n, NEW m \in Nat, a + n <= m
          PROVE  a + k \in 1 .. m
      BY <3>1
    <3>2. start[s] + i \in 1 .. Len(log)
      BY <2>3, <2>4, <2>6, <3>1
    <3>3. start[t] + j \in 1 .. Len(log)
      BY <2>3, <2>4, <2>6, <3>1
    <3> QED
      BY <2>3, <3>2, <3>3
  <2> QED
    BY <2>2, <2>5 DEF IInv, LogInv
<1> QED
  BY <1>1, Invariance, PTL
-----------------------------------------------------------------------------
(* Why a call may be stuck, why the process may panic, and what a call has *)
(* behind it when its method runs.                                         *)

Past(c) == pc[c] \notin {"idle", "rejected", "lock"}

(* Nothing has been called before the service runs; who is past the access *)
(* check is authorised, who is past the lock has an event in the log; a    *)
(* Biz call never owns a stream; until as.Close() no channel is closed and *)
(* the context of a stream ends with its client only.                      *)
CauseInv ==
  /\ srv = "init" => \A c \in Call : pc[c] = "idle"
  /\ \A c \in Call : pc[c] \notin {"idle", "rejected"} => Authorised(c)
  /\ \A c \in Call : Past(c) => \E i \in DOMAIN log : log[i] = c
  /\ \A c \in Call : pc[c] = "handle" => Meth[c] \in BizMethod
  /\ adminNil \/ closed = {}
  /\ \A c \in ctxDone : adminNil \/ c \in Leaver \/ Meth[c] \in BizMethod
  /\ \A c \in Call : pc[c] \in {"join"} \cup StreamPc => Meth[c] \notin BizMethod
  /\ \A c \in Joined : Meth[c] \notin BizMethod

(* With it, the two properties are inductive. *)
Explained == CauseInv /\ SelfDeadlockNeedsDeparture /\ PanicNeedsClose

LEMMA InitExplained == Init => Explained
<1> SUFFICES ASSUME Init PROVE Explained
  OBVIOUS
<1>1. Joined = {} /\ ctxDone = {} /\ \A c \in Call : pc[c] = "idle"
  BY DEF Init, Joined
<1>2. CauseInv
  BY <1>1 DEF Init, CauseInv, Past, StreamPc
<1> QED
  BY <1>1, <1>2 DEF Init, Explained, SelfDeadlockNeedsDeparture, PanicNeedsClose

(* A panic with one of the three causes. *)
LEMMA PanicExplained ==
  ASSUME Explained, Panic,
         \/ adminNil
         \/ FALSE \in PortFree /\ \A c \in Call : pc[c] = "idle"
         \/ \E c \in Call, n \in Interval : pc[c] = "newticker" /\ ~PositiveInterval(n)
  PROVE  Explained'
<1> USE DEF Panic, callVars, lockVars, joinVars, loggerVars, statVars
<1>1. CauseInv'
  BY DEF Explained, CauseInv, Authorised, Past, StreamPc, Joined
<1>2. SelfDeadlockNeedsDeparture'
  BY DEF Explained, SelfDeadlockNeedsDeparture
<1>3. PanicNeedsClose'
  BY DEF PanicNeedsClose
<1> QED
  BY <1>1, <1>2, <1>3 DEF Explained

(* A step outside the interceptor: no place of a handler is reached that   *)
(* CauseInv or the properties ask anything of, and a context that becomes  *)
(* done has a reason.                                                      *)
Calm ==
  /\ UNCHANGED <<srv, alc, adminNil, closed, pos, streams, log>>
  /\ srv # "init" /\ srv # "crashed"
  /\ \A d \in Call :
       /\ pc'[d] = "relock" => pc[d] = "relock"
       /\ pc'[d] \notin {"idle", "rejected"} => Authorised(d)
       /\ pc'[d] \notin {"idle", "rejected", "lock"} => Past(d)
       /\ pc'[d] = "handle" => pc[d] = "handle"
       /\ pc'[d] \in {"join"} \cup StreamPc => pc[d] \in {"join"} \cup StreamPc
  /\ \A d \in ctxDone' \ ctxDone : adminNil \/ d \in Leaver \/ Meth[d] \in BizMethod

LEMMA CalmStep == ASSUME Explained, Calm PROVE Explained'
<1>1. CauseInv'
  <2>1. \A d \in Call : Authorised(d)' = Authorised(d)
    BY DEF Calm, Authorised
  <2>2. Joined' = Joined
    BY DEF Calm, Joined
  <2>3. \A d \in Call : Past(d)' => \E i \in DOMAIN log : log[i] = d
    BY DEF Calm, Explained, CauseInv, Past
  <2> QED
    BY <2>1, <2>2, <2>3 DEF Calm, Explained, CauseInv
<1>2. SelfDeadlockNeedsDeparture'
  BY DEF Calm, Explained, SelfDeadlockNeedsDeparture
<1>3. PanicNeedsClose'
  BY DEF Calm, PanicNeedsClose
<1> QED
  BY <1>1, <1>2, <1>3 DEF Explained

LEMMA ServiceExplained == ASSUME IInv, Explained, Service PROVE Explained'
<1> USE DEF callVars, lockVars, joinVars, loggerVars, statVars
<1>1. CASE Start
  <2>1. \A c \in Call : pc[c] = "idle"
    BY <1>1 DEF Start, Explained, CauseInv
  <2>2. CASE Panic
    <3>1. PICK free \in PortFree : ~free \/ srv' # "crashed"
      BY <1>1 DEF Start
    <3>2. free = FALSE
      BY <2>2, <3>1, ConstantsAssumption DEF Panic
    <3> QED
      BY <2>1, <2>2, <3>2, PanicExplained
  <2>3. CASE ~Panic
    <3>1. /\ srv' \in {"failed", "serving"} /\ UNCHANGED <<adminNil, closed, callVars>>
      BY <1>1, <2>3 DEF Start
    <3>2. CauseInv'
      BY <2>1, <3>1 DEF Explained, CauseInv, Past, StreamPc, Joined
    <3>3. srv' # "crashed" /\ pc' = pc
      BY <3>1
    <3>4. SelfDeadlockNeedsDeparture' /\ PanicNeedsClose'
      BY <2>1, <3>3 DEF SelfDeadlockNeedsDeparture, PanicNeedsClose
    <3> QED
      BY <3>2, <3>4 DEF Explained
  <2> QED
    BY <2>2, <2>3
<1>2. CASE Finish \/ AdminClose \/ StopListening \/ Stopped
  <2>1. /\ srv' \in {"cancelled", "closed", "draining", "stopped"}
        /\ UNCHANGED <<alc, callVars>>
        /\ adminNil' \/ UNCHANGED <<adminNil, closed>>
    BY <1>2 DEF Finish, AdminClose, StopListening, Stopped
  <2>2. CauseInv'
    <3>1. \A d \in Call : Authorised(d)' = Authorised(d)
      BY <2>1 DEF Authorised
    <3> QED
      BY <2>1, <3>1 DEF Explained, CauseInv, Past, StreamPc, Joined
  <2>3. srv' # "crashed" /\ pc' = pc /\ streams[pos]' = streams[pos] /\ (adminNil => adminNil')
    BY <2>1
  <2>4. SelfDeadlockNeedsDeparture' /\ PanicNeedsClose'
    BY <2>3 DEF Explained, SelfDeadlockNeedsDeparture, PanicNeedsClose
  <2> QED
    BY <2>2, <2>4 DEF Explained
<1> QED
  BY <1>1, <1>2 DEF Service

(* The interceptor: the holder of the mutex is alone in it, so nobody moves *)
(* the index a stuck call is at.                                            *)
LEMMA InterceptExplained ==
  ASSUME IInv, Explained, NEW c \in Call,
         \/ Lock(c) \/ Unlock(c) \/ Join(c)
         \/ \E s \in Call : Deliver(c, s) \/ SendOnClosed(c, s) \/ StreamGone(c, s)
  PROVE  Explained'
<1> USE DEF srvVars, lockVars, joinVars, loggerVars, statVars, Goto
<1>1. pc \in [Call -> Pc] /\ log \in Seq(Call) /\ streams \in Seq(Call)
  BY DEF IInv, TypeOK
<1>3. CASE Lock(c)
  <2>1. /\ pc[c] = "lock" /\ mu = Free /\ log' = Append(log, c)
        /\ pc' = [pc EXCEPT ![c] = "notify"] /\ srv \notin {"init", "crashed"}
        /\ UNCHANGED <<srv, alc, adminNil, closed, streams, ctxDone>>
    BY <1>3 DEF Lock, MuFree, Alive
  <2>2. \A d \in Call : pc'[d] # "relock"
    BY <1>1, <2>1, FreeIsNoCall DEF IInv, MutexInv
  <2>3. \A d \in Call : Past(d)' => \E i \in DOMAIN log' : log'[i] = d
    <3>1. /\ DOMAIN log = 1 .. Len(log) /\ DOMAIN log' = 1 .. Len(log) + 1
          /\ \A i \in 1 .. Len(log) : log'[i] = log[i]
          /\ log'[Len(log) + 1] = c /\ Len(log) \in Nat
      BY <1>1, <2>1, AppendFacts
    <3>2. ASSUME NEW d \in Call, Past(d), NEW i \in DOMAIN log, log[i] = d
          PROVE  i \in DOMAIN log' /\ log'[i] = d
      BY <3>1, <3>2
    <3>3. \A d \in Call : Past(d)' => d = c \/ Past(d)
      BY <1>1, <2>1 DEF Past
    <3>4. Len(log) + 1 \in DOMAIN log'
      BY <3>1
    <3> QED
      BY <3>1, <3>2, <3>3, <3>4 DEF Explained, CauseInv
  <2>4. CauseInv'
    <3>1. \A d \in Call : Authorised(d)' = Authorised(d)
      BY <2>1 DEF Authorised
    <3>2. Joined' = Joined
      BY <2>1 DEF Joined
    <3> QED
      BY <1>1, <2>1, <2>3, <3>1, <3>2 DEF Explained, CauseInv, StreamPc
  <2> QED
    BY <2>1, <2>2, <2>4 DEF Explained, SelfDeadlockNeedsDeparture, PanicNeedsClose
<1>4. CASE Unlock(c)
  <2>1. /\ pc[c] = "notify" /\ srv \notin {"init", "crashed"}
        /\ pc' = [pc EXCEPT ![c] = IF Meth[c] \in BizMethod THEN "handle" ELSE "join"]
        /\ UNCHANGED <<srv, alc, adminNil, closed, streams, log, ctxDone>>
    BY <1>4 DEF Unlock, Alive
  <2>2. \A d \in Call : pc'[d] # "relock"
    BY <1>1, <2>1 DEF IInv, MutexInv
  <2>3. CauseInv'
    <3>1. \A d \in Call : Authorised(d)' = Authorised(d)
      BY <2>1 DEF Authorised
    <3>2. Joined' = Joined
      BY <2>1 DEF Joined
    <3>3. \A d \in Call : Past(d)' => Past(d)
      BY <1>1, <2>1 DEF Past
    <3> QED
      BY <1>1, <2>1, <3>1, <3>2, <3>3 DEF Explained, CauseInv, StreamPc
  <2> QED
    BY <2>1, <2>2, <2>3 DEF Explained, SelfDeadlockNeedsDeparture, PanicNeedsClose
<1>5. CASE Join(c)
  <2>1. CASE Panic
    <3>1. adminNil
      BY <1>5, <2>1, <1>1 DEF Join, Panic, Alive
    <3> QED
      BY <2>1, <3>1, PanicExplained
  <2>2. CASE ~Panic
    <3>1. /\ pc[c] = "join" /\ mu = Free /\ streams' = Append(streams, c)
          /\ pc' = [pc EXCEPT ![c] = IF Meth[c] = "Logging" THEN "recv" ELSE "newticker"]
          /\ srv \notin {"init", "crashed"}
          /\ UNCHANGED <<srv, alc, adminNil, closed, log, ctxDone>>
      BY <1>5, <2>2 DEF Join, MuFree, Alive
    <3>2. \A d \in Call : pc'[d] # "relock"
      BY <1>1, <3>1, FreeIsNoCall DEF IInv, MutexInv
    <3>3. \A s \in Joined' : s \in Joined \cup {c}
      <4>1. /\ DOMAIN streams = 1 .. Len(streams) /\ DOMAIN streams' = 1 .. Len(streams) + 1
            /\ \A k \in 1 .. Len(streams) : streams'[k] = streams[k]
            /\ streams'[Len(streams) + 1] = c /\ Len(streams) \in Nat
        BY <1>1, <3>1, AppendFacts
      <4>2. \A k \in DOMAIN streams' : k \in DOMAIN streams \/ k = Len(streams) + 1
        BY <4>1
      <4> QED
        BY <4>1, <4>2 DEF Joined
    <3>4. CauseInv'
      <4>1. \A d \in Call : Authorised(d)' = Authorised(d)
        BY <3>1 DEF Authorised
      <4>2. \A d \in Call : Past(d)' => Past(d)
        BY <1>1, <3>1 DEF Past
      <4> QED
        BY <1>1, <3>1, <3>3, <4>1, <4>2 DEF Explained, CauseInv, StreamPc
    <3> QED
      BY <3>1, <3>2, <3>4 DEF Explained, SelfDeadlockNeedsDeparture, PanicNeedsClose
  <2> QED
    BY <2>1, <2>2
<1>6. ASSUME NEW s \in Call, SendOnClosed(c, s) PROVE Explained'
  <2>1. adminNil /\ Panic
    BY <1>6 DEF SendOnClosed, Explained, CauseInv
  <2> QED
    BY <2>1, PanicExplained
<1>7. ASSUME NEW s \in Call, Deliver(c, s) PROVE Explained'
  <2>1. /\ pc[c] = "notify" /\ srv \notin {"init", "crashed"} /\ s \in Joined
        /\ \/ pc' = [pc EXCEPT ![s] = "send"]
           \/ pc' = pc
        /\ UNCHANGED <<srv, alc, adminNil, closed, streams, log, ctxDone>>
    BY <1>7 DEF Deliver, Notifying, Alive, Joined
  <2>2. \A d \in Call : pc'[d] # "relock"
    BY <1>1, <2>1 DEF IInv, MutexInv
  <2>3. Past(s) /\ Authorised(s) /\ Meth[s] \notin BizMethod
    BY <2>1 DEF Explained, CauseInv, Past, IInv, StreamsInv, StreamPc
  <2>4. CauseInv'
    <3>1. \A d \in Call : Authorised(d)' = Authorised(d)
      BY <2>1 DEF Authorised
    <3>2. Joined' = Joined
      BY <2>1 DEF Joined
    <3>3. \A d \in Call : Past(d)' => Past(d)
      BY <1>1, <2>1, <2>3 DEF Past
    <3> QED
      BY <1>1, <2>1, <2>3, <3>1, <3>2, <3>3 DEF Explained, CauseInv, StreamPc
  <2> QED
    BY <2>1, <2>2, <2>4 DEF Explained, SelfDeadlockNeedsDeparture, PanicNeedsClose
<1>8. ASSUME NEW s \in Call, StreamGone(c, s) PROVE Explained'
  <2>1. /\ pc[c] = "notify" /\ srv \notin {"init", "crashed"} /\ s \in Joined /\ s = streams[pos]
        /\ s \in ctxDone /\ pc' = [pc EXCEPT ![c] = "relock"]
        /\ UNCHANGED <<srv, alc, adminNil, closed, pos, streams, log, ctxDone>>
    BY <1>8 DEF StreamGone, Notifying, Alive, Joined
  <2>2. \A d \in Call : pc'[d] = "relock" => d = c
    BY <1>1, <2>1 DEF IInv, MutexInv
  <2>3. adminNil \/ streams[pos] \in Leaver
    BY <2>1 DEF Explained, CauseInv
  <2>4. CauseInv'
    <3>1. \A d \in Call : Authorised(d)' = Authorised(d)
      BY <2>1 DEF Authorised
    <3>2. Joined' = Joined
      BY <2>1 DEF Joined
    <3>3. \A d \in Call : Past(d)' => Past(d)
      BY <1>1, <2>1 DEF Past
    <3> QED
      BY <1>1, <2>1, <3>1, <3>2, <3>3 DEF Explained, CauseInv, StreamPc
  <2> QED
    BY <2>1, <2>2, <2>3, <2>4 DEF Explained, SelfDeadlockNeedsDeparture, PanicNeedsClose
<1> QED
  BY <1>3, <1>4, <1>5, <1>6, <1>7, <1>8

(* Every other step is calm, except the panic of NewTicker. *)
LEMMA OtherExplained ==
  ASSUME IInv, Explained, NEW c \in Call,
         \/ Arrive(c) \/ Leave(c) \/ Handle(c) \/ SendEvent(c) \/ LoggingEnds(c)
         \/ NewTicker(c) \/ Tick(c) \/ SendStat(c) \/ Collect(c) \/ CollectorEnds(c)
  PROVE  Explained'
<1> USE DEF srvVars, lockVars, joinVars, loggerVars, statVars, Goto
<1>1. pc \in [Call -> Pc]
  BY DEF IInv, TypeOK
<1>2. \A d \in Call : pc[d] \notin {"idle", "rejected"} => Authorised(d)
  BY DEF Explained, CauseInv
<1>3. CASE Arrive(c)
  <2>1. Calm
    BY <1>1, <1>2, <1>3 DEF Arrive, Calm, Past, StreamPc
  <2> QED
    BY <2>1, CalmStep
<1>4. CASE Leave(c)
  <2>1. Calm
    BY <1>2, <1>4 DEF Leave, Calm, Past, Alive
  <2> QED
    BY <2>1, CalmStep
<1>5. CASE Handle(c)
  <2>1. Meth[c] \in BizMethod
    BY <1>5 DEF Handle, Explained, CauseInv
  <2>2. Calm
    BY <1>1, <1>2, <1>5, <2>1 DEF Handle, Return, Calm, Past, Alive, StreamPc
  <2> QED
    BY <2>2, CalmStep
<1>6. CASE SendEvent(c)
  <2>1. Calm
    BY <1>1, <1>2, <1>6 DEF SendEvent, SendFails, Return, Calm, Past, Alive, StreamPc
  <2> QED
    BY <2>1, CalmStep
<1>7. CASE LoggingEnds(c)
  <2>1. adminNil
    BY <1>7 DEF LoggingEnds, Explained, CauseInv
  <2>2. Calm
    BY <1>1, <1>2, <1>7, <2>1 DEF LoggingEnds, Return, Calm, Past, Alive, StreamPc
  <2> QED
    BY <2>2, CalmStep
<1>8. CASE NewTicker(c)
  <2>1. ASSUME NEW n \in Interval, ~PositiveInterval(n), Panic PROVE Explained'
    <3>1. pc[c] = "newticker"
      BY <1>8 DEF NewTicker
    <3> QED
      BY <2>1, <3>1, PanicExplained
  <2>2. ASSUME LaunchCollector(c), Goto(c, "tick"), UNCHANGED <<srvVars, lockVars, joinVars, ctxDone, log>>
        PROVE  Calm
    BY <1>1, <1>2, <1>8, <2>2 DEF NewTicker, Calm, Past, Alive, StreamPc
  <2> QED
    BY <1>8, <2>1, <2>2, CalmStep DEF NewTicker
<1>9. CASE Tick(c)
  <2>1. Calm
    BY <1>1, <1>2, <1>9 DEF Tick, Calm, Past, Alive, StreamPc
  <2> QED
    BY <2>1, CalmStep
<1>10. CASE SendStat(c)
  <2>1. Calm
    BY <1>1, <1>2, <1>10 DEF SendStat, SendFails, Return, Calm, Past, Alive, StreamPc
  <2> QED
    BY <2>1, CalmStep
<1>11. CASE Collect(c) \/ CollectorEnds(c)
  <2>1. Calm
    BY <1>2, <1>11 DEF Collect, CollectorEnds, Calm, Past, Alive
  <2> QED
    BY <2>1, CalmStep
<1> QED
  BY <1>3, <1>4, <1>5, <1>6, <1>7, <1>8, <1>9, <1>10, <1>11

LEMMA NextExplained == IInv /\ Explained /\ [Next]_vars => Explained'
<1> SUFFICES ASSUME IInv, Explained, [Next]_vars PROVE Explained'
  OBVIOUS
<1>1. CASE Service
  BY <1>1, ServiceExplained
<1>2. ASSUME NEW c \in Call, Arrive(c) \/ Leave(c) \/ Handler(c) \/ Collector(c)
      PROVE  Explained'
  BY <1>2, InterceptExplained, OtherExplained DEF Handler, Collector
<1>3. CASE UNCHANGED vars
  <2> USE DEF vars, srvVars, callVars, lockVars, joinVars, loggerVars, statVars
  <2>1. CauseInv'
    <3>1. \A d \in Call : Authorised(d)' = Authorised(d) /\ Past(d)' = Past(d)
      BY <1>3 DEF Authorised, Past
    <3> QED
      BY <1>3, <3>1 DEF Explained, CauseInv, Joined
  <2>2. SelfDeadlockNeedsDeparture' /\ PanicNeedsClose'
    BY <1>3 DEF Explained, SelfDeadlockNeedsDeparture, PanicNeedsClose
  <2> QED
    BY <2>1, <2>2 DEF Explained
<1> QED
  BY <1>1, <1>2, <1>3 DEF Next

LEMMA AlwaysExplained == Spec => []Explained
BY InitExplained, NextExplained, Invariance, PTL DEF Spec

(* While no client has gone away and the service is not shut down, no      *)
(* fan-out locks the mutex it holds (notifyStreams).                       *)
THEOREM SelfDeadlock == Spec => []SelfDeadlockNeedsDeparture
<1>1. Explained => SelfDeadlockNeedsDeparture
  BY DEF Explained
<1> QED
  BY <1>1, AlwaysExplained, PTL

(* The process panics for one of three reasons only (net.Listen, NewTicker *)
(* and what follows as.Close()).                                           *)
THEOREM PanicCauses == Spec => []PanicNeedsClose
<1>1. Explained => PanicNeedsClose
  BY DEF Explained
<1> QED
  BY <1>1, AlwaysExplained, PTL

(* A call whose method runs is authorised, is in the log once, and every   *)
(* stream that was open when it was published has received it.             *)
LEMMA AuditFollows == IInv /\ Explained => AuditedBeforeServed
<1> SUFFICES ASSUME IInv, Explained, NEW c \in Call,
                    pc[c] \notin {"idle", "rejected", "lock", "notify", "relock"}
             PROVE  /\ Authorised(c)
                    /\ \E i \in DOMAIN log :
                         /\ \A j \in DOMAIN log : log[j] = c <=> j = i
                         /\ \A s \in Joined : start[s] < i => i <= start[s] + Len(got[s])
  BY DEF AuditedBeforeServed
<1>1. Authorised(c)
  BY DEF Explained, CauseInv
<1>2. PICK i \in DOMAIN log : log[i] = c
  BY DEF Explained, CauseInv, Past
<1>3. \A j \in DOMAIN log : log[j] = c <=> j = i
  BY <1>2 DEF IInv, LogInv
<1>4. log \in Seq(Call) /\ Len(log) \in Nat /\ i \in 1 .. Len(log)
  <2>1. log \in Seq(Call)
    BY DEF IInv, TypeOK
  <2> QED
    BY <2>1
<1>5. mu # Free => i # Len(log)
  BY <1>2 DEF IInv, MutexInv
<1>6. ASSUME NEW k \in DOMAIN streams PROVE i <= start[streams[k]] + Len(got[streams[k]])
  <2>1. start[streams[k]] + Len(got[streams[k]])
          = IF mu # Free /\ k >= pos THEN Len(log) - 1 ELSE Len(log)
    BY DEF IInv, LockStep
  <2> QED
    BY <1>4, <1>5, <2>1
<1> QED
  BY <1>1, <1>2, <1>3, <1>6 DEF Joined

(* The audit trail is never behind what the service has done: intercept    *)
(* comes before the handler in both interceptors.                          *)
THEOREM Audited == Spec => []AuditedBeforeServed
BY AuditFollows, AlwaysExplained, Invariance, PTL

-----------------------------------------------------------------------------
(* Conservation: what the streams receive is what their clients are told.  *)
(* First, counts: they are natural numbers, an event adds one, and they    *)
(* add up in any order.                                                    *)
Stat == [byMethod : [Method -> Nat], byConsumer : [Consumer -> Nat]]
Zero == CountStatistic(<< >>)
One(e) == [byMethod |-> [m \in Method |-> IF Meth[e] = m THEN 1 ELSE 0],
           byConsumer |-> [k \in Consumer |-> IF Who[e] = k THEN 1 ELSE 0]]

(* The events of a sequence of which F, Who or Meth, is x. *)
Hits(F, es, x) == {i \in DOMAIN es : F[es[i]] = x}

LEMMA CountOneMore ==
  ASSUME NEW es \in Seq(Call), NEW e \in Call, NEW F, NEW x
  PROVE  /\ Cardinality(Hits(F, es, x)) \in Nat
         /\ Cardinality(Hits(F, Append(es, e), x))
              = Cardinality(Hits(F, es, x)) + (IF F[e] = x THEN 1 ELSE 0)
<1> DEFINE S == Hits(F, es, x)
           T == Hits(F, Append(es, e), x)
<1> USE DEF Hits
<1>1. /\ Len(es) \in Nat /\ DOMAIN es = 1 .. Len(es) /\ DOMAIN Append(es, e) = 1 .. Len(es) + 1
      /\ \A i \in 1 .. Len(es) : Append(es, e)[i] = es[i]
      /\ Append(es, e)[Len(es) + 1] = e
  BY AppendFacts
<1>2. IsFiniteSet(S)
  <2>1. IsFiniteSet(1 .. Len(es))
    <3>1. 1 \in Int /\ Len(es) \in Int
      BY <1>1
    <3> QED
      BY <3>1, FS_Interval
  <2> QED
    BY <1>1, <2>1, FS_Subset
<1>3. Cardinality(S) \in Nat
  BY <1>2, FS_CardinalityType
<1>4. Len(es) + 1 \notin S
  BY <1>1
<1>5. T = IF F[e] = x THEN S \cup {Len(es) + 1} ELSE S
  BY <1>1
<1>6. Cardinality(T) = Cardinality(S) + (IF F[e] = x THEN 1 ELSE 0)
  <2> HIDE DEF S, T, Hits
  <2>1. CASE F[e] = x
    BY <1>2, <1>3, <1>4, <1>5, <2>1, FS_AddElement
  <2>2. CASE F[e] # x
    BY <1>3, <1>5, <2>2
  <2> QED
    BY <2>1, <2>2
<1> QED
  BY <1>3, <1>6

LEMMA CountExtends ==
  ASSUME NEW es \in Seq(Call), NEW e \in Call
  PROVE  /\ CountStatistic(es) \in Stat
         /\ CountStatistic(Append(es, e)) = AddStat(CountStatistic(es), One(e))
<1> DEFINE byM(q, m) == Cardinality(Hits(Meth, q, m))
           byC(q, k) == Cardinality(Hits(Who, q, k))
<1>1. ASSUME NEW m \in Method
      PROVE  /\ byM(es, m) \in Nat
             /\ byM(Append(es, e), m) = byM(es, m) + (IF Meth[e] = m THEN 1 ELSE 0)
  BY CountOneMore
<1>2. ASSUME NEW k \in Consumer
      PROVE  /\ byC(es, k) \in Nat
             /\ byC(Append(es, e), k) = byC(es, k) + (IF Who[e] = k THEN 1 ELSE 0)
  BY CountOneMore
<1>3. \A q : CountStatistic(q) = [byMethod |-> [m \in Method |-> byM(q, m)],
                                 byConsumer |-> [k \in Consumer |-> byC(q, k)]]
  BY DEF CountStatistic, Hits
<1> HIDE DEF byM, byC
<1>4. CountStatistic(es) \in Stat
  BY <1>1, <1>2, <1>3 DEF Stat
<1>5. CountStatistic(Append(es, e)) = AddStat(CountStatistic(es), One(e))
  BY <1>1, <1>2, <1>3 DEF AddStat, One
<1> QED
  BY <1>4, <1>5

LEMMA ZeroIs ==
  /\ Zero = [byMethod |-> [m \in Method |-> 0], byConsumer |-> [k \in Consumer |-> 0]]
  /\ Zero \in Stat
<1>1. DOMAIN << >> = {}
  OBVIOUS
<1>2. Cardinality({}) = 0
  BY FS_EmptySet
<1>3. \A m : {i \in DOMAIN << >> : Meth[<< >>[i]] = m} = {} /\ {i \in DOMAIN << >> : Who[<< >>[i]] = m} = {}
  BY <1>1
<1>4. Zero = [byMethod |-> [m \in Method |-> 0], byConsumer |-> [k \in Consumer |-> 0]]
  BY <1>2, <1>3 DEF Zero, CountStatistic
<1> QED
  BY <1>4 DEF Stat

LEMMA AddFacts ==
  ASSUME NEW a \in Stat, NEW b \in Stat, NEW c \in Stat
  PROVE  /\ AddStat(a, b) \in Stat
         /\ AddStat(a, b) = AddStat(b, a)
         /\ AddStat(AddStat(a, b), c) = AddStat(a, AddStat(b, c))
         /\ AddStat(a, Zero) = a
<1>1. AddStat(a, b) \in Stat
  BY DEF Stat, AddStat
<1>2. AddStat(a, b) = AddStat(b, a)
  <2>1. /\ \A m \in Method : a.byMethod[m] + b.byMethod[m] = b.byMethod[m] + a.byMethod[m]
        /\ \A k \in Consumer : a.byConsumer[k] + b.byConsumer[k] = b.byConsumer[k] + a.byConsumer[k]
    BY DEF Stat
  <2> QED
    BY <2>1 DEF AddStat
<1>3. AddStat(AddStat(a, b), c) = AddStat(a, AddStat(b, c))
  <2>1. /\ \A m \in Method : (a.byMethod[m] + b.byMethod[m]) + c.byMethod[m]
                              = a.byMethod[m] + (b.byMethod[m] + c.byMethod[m])
        /\ \A k \in Consumer : (a.byConsumer[k] + b.byConsumer[k]) + c.byConsumer[k]
                                = a.byConsumer[k] + (b.byConsumer[k] + c.byConsumer[k])
    BY DEF Stat
  <2> QED
    BY <2>1 DEF AddStat
<1>4. AddStat(a, Zero) = a
  <2>1. /\ \A m \in Method : a.byMethod[m] + 0 = a.byMethod[m]
        /\ \A k \in Consumer : a.byConsumer[k] + 0 = a.byConsumer[k]
    BY DEF Stat
  <2> QED
    BY <2>1, ZeroIs DEF AddStat, Stat
<1> QED
  BY <1>1, <1>2, <1>3, <1>4

(* Counting one more event last or first comes to the same. *)
LEMMA CountedLater ==
  ASSUME NEW a \in Stat, NEW b \in Stat, NEW n \in Stat, NEW o \in Stat
  PROVE  AddStat(AddStat(a, AddStat(b, n)), o) = AddStat(a, AddStat(b, AddStat(n, o)))
<1> DEFINE bn == AddStat(b, n)
<1>1. bn \in Stat /\ AddStat(bn, o) = AddStat(b, AddStat(n, o))
  BY AddFacts
<1> HIDE DEF bn
<1>2. AddStat(AddStat(a, bn), o) = AddStat(a, AddStat(bn, o))
  BY <1>1, AddFacts
<1> QED
  BY <1>1, <1>2 DEF bn

LEMMA OneIsStat == ASSUME NEW e PROVE One(e) \in Stat
BY DEF One, Stat

(* What a stream has passed on, or will: all it received but the event in  *)
(* hand.  The counts of a stream that has not begun are zero, and those of *)
(* a tick are sent before the next.                                        *)
InHand(s) == pc[s] = "send" \/ col[s] = "append"
Taken(s) == IF InHand(s) THEN SubSeq(got[s], 1, Len(got[s]) - 1) ELSE got[s]

Told(s) ==
  /\ pend[s] \in Stat /\ total[s] \in Stat
  /\ Meth[s] = "Logging" => pc[s] \notin {"newticker", "tick", "sendstat"} /\ col[s] = "none"
  /\ Meth[s] # "Logging" => pc[s] \notin {"recv", "send"}
  /\ pc[s] = "send" => got[s] # << >>
  /\ pc[s] = "newticker" => col[s] = "none"
  /\ pc[s] \notin StreamPc \cup {"done"} => sent[s] = 0 /\ evs[s] = << >> /\ total[s] = Zero
  /\ pc[s] \notin {"sendstat", "done"} => pend[s] = Zero
  /\ pc[s] \in StreamPc =>
       IF Meth[s] = "Logging" THEN sent[s] = Len(Taken(s))
       ELSE CountStatistic(Taken(s)) = AddStat(total[s], AddStat(pend[s], CountStatistic(evs[s])))

ToldInv == /\ total \in [Call -> Stat] /\ pend \in [Call -> Stat]
           /\ \A s \in Call : Told(s)

(* A call to which nothing happens. *)
Unmoved(s) == /\ pc'[s] = pc[s] /\ col'[s] = col[s] /\ got'[s] = got[s] /\ sent'[s] = sent[s]
              /\ evs'[s] = evs[s] /\ pend'[s] = pend[s] /\ total'[s] = total[s]

LEMMA UnmovedTold == ASSUME NEW s, Told(s), Unmoved(s) PROVE Told(s)'
BY DEF Told, Unmoved, Taken, InHand

(* A handler outside its stream that goes to another place outside.        *)
LEMMA OutsideTold ==
  ASSUME NEW s, Told(s), pc[s] \notin StreamPc \cup {"done"}, pc'[s] \notin StreamPc,
         col'[s] = col[s], sent'[s] = sent[s], evs'[s] = evs[s], pend'[s] = pend[s],
         total'[s] = total[s]
  PROVE  Told(s)'
BY DEF Told, StreamPc

LEMMA InitTold == Init => ToldInv
<1> SUFFICES ASSUME Init PROVE ToldInv
  OBVIOUS
<1>1. \A s \in Call : /\ pc[s] = "idle" /\ col[s] = "none" /\ sent[s] = 0 /\ evs[s] = << >>
                     /\ pend[s] = Zero /\ total[s] = Zero
  BY DEF Init, Zero
<1>2. total \in [Call -> Stat] /\ pend \in [Call -> Stat]
  BY ZeroIs DEF Init, Zero
<1> QED
  BY <1>1, <1>2, ZeroIs DEF ToldInv, Told, StreamPc

(* The interceptor, and what comes before it. *)
LEMMA InterceptTold ==
  ASSUME IInv, ToldInv, NEW c \in Call,
         \/ Arrive(c) \/ Lock(c) \/ Unlock(c) \/ Handle(c) \/ Leave(c)
         \/ \E s \in Call : StreamGone(c, s)
  PROVE  ToldInv'
<1> USE DEF lockVars, joinVars, loggerVars, statVars, Goto
<1>1. /\ UNCHANGED <<col, got, sent, evs, pend, total>>
      /\ \/ pc' = pc
         \/ /\ pc[c] \in {"idle", "lock", "notify", "handle"}
            /\ \E l \in {"rejected", "lock", "notify", "relock", "handle", "join", "done"} :
                 pc' = [pc EXCEPT ![c] = l]
  BY DEF Arrive, Lock, Unlock, Handle, Leave, StreamGone, Notifying, Return
<1>2. pc \in [Call -> Pc]
  BY DEF IInv, TypeOK
<1>3. ASSUME NEW s \in Call PROVE Told(s)'
  <2>1. Told(s)
    BY DEF ToldInv
  <2>2. CASE pc'[s] = pc[s]
    BY <1>1, <2>1, <2>2, UnmovedTold DEF Unmoved
  <2>3. CASE pc'[s] # pc[s]
    <3>1. pc[s] \notin StreamPc \cup {"done"} /\ pc'[s] \notin StreamPc
      BY <1>1, <1>2, <2>3 DEF StreamPc
    <3> QED
      BY <1>1, <2>1, <3>1, OutsideTold
  <2> QED
    BY <2>2, <2>3
<1> QED
  BY <1>1, <1>3 DEF ToldInv

(* A stream receives: what it had received it has now passed on. *)
LEMMA DeliverTold ==
  ASSUME IInv, ToldInv, NEW c \in Call, NEW s \in Call, Deliver(c, s) PROVE ToldInv'
<1> USE DEF loggerVars, statVars, Goto
<1>1. /\ got' = [got EXCEPT ![s] = Append(@, c)] /\ UNCHANGED <<sent, evs, pend, total>>
      /\ pc[s] = "recv" \/ col[s] = "recv"
      /\ \/ Meth[s] = "Logging" /\ pc' = [pc EXCEPT ![s] = "send"] /\ col' = col
         \/ Meth[s] # "Logging" /\ pc' = pc /\ col' = [col EXCEPT ![s] = "append"]
  BY DEF Deliver, Receiving
<1>2. /\ pc \in [Call -> Pc] /\ got \in [Call -> Seq(Call)]
      /\ col \in [Call -> {"none", "recv", "append", "exit"}]
  BY DEF IInv, TypeOK
<1>3. Told(s)
  BY DEF ToldInv
<1>4. ~InHand(s) /\ InHand(s)'
  BY <1>1, <1>2, <1>3 DEF Told, InHand
<1>5. Taken(s) = got[s] /\ Taken(s)' = got[s]
  <2>1. got'[s] = Append(got[s], c) /\ got[s] \in Seq(Call)
    BY <1>1, <1>2
  <2>2. SubSeq(Append(got[s], c), 1, Len(Append(got[s], c)) - 1) = got[s]
    BY <2>1
  <2> QED
    BY <1>4, <2>1, <2>2 DEF Taken
<1>6. Told(s)'
  <2>0. got'[s] # << >>
    <3>1. got[s] \in Seq(Call) /\ got'[s] = Append(got[s], c)
      BY <1>1, <1>2
    <3> QED
      BY <3>1, AppendFacts
  <2>1. CASE Meth[s] = "Logging"
    <3>1. pc[s] = "recv" /\ pc'[s] = "send" /\ col'[s] = col[s]
      BY <1>1, <1>2, <1>3, <2>1 DEF Told
    <3> QED
      BY <1>1, <1>3, <1>5, <2>0, <2>1, <3>1 DEF Told, StreamPc
  <2>2. CASE Meth[s] # "Logging"
    BY <1>1, <1>3, <1>5, <2>0, <2>2 DEF Told
  <2> QED
    BY <2>1, <2>2
<1>7. ASSUME NEW t \in Call, t # s PROVE Told(t)'
  <2>1. Told(t) /\ Unmoved(t)
    BY <1>1, <1>2, <1>7 DEF ToldInv, Unmoved
  <2> QED
    BY <2>1, UnmovedTold
<1> QED
  BY <1>1, <1>6, <1>7 DEF ToldInv

(* A stream opens with nothing received and nothing told. *)
LEMMA JoinTold == ASSUME IInv, ToldInv, NEW c \in Call, Join(c), ~Panic PROVE ToldInv'
<1> USE DEF lockVars, loggerVars, statVars, Goto
<1>1. /\ pc[c] = "join" /\ UNCHANGED <<got, sent, col, evs, pend, total>>
      /\ pc' = [pc EXCEPT ![c] = IF Meth[c] = "Logging" THEN "recv" ELSE "newticker"]
  BY DEF Join
<1>2. pc \in [Call -> Pc] /\ Told(c)
  BY DEF IInv, TypeOK, ToldInv
<1>3. got[c] = << >> /\ col[c] = "none"
  BY <1>1 DEF IInv, StreamsInv, StreamPc
<1>4. Told(c)'
  <2>1. sent[c] = 0 /\ evs[c] = << >> /\ total[c] = Zero /\ pend[c] = Zero
    BY <1>1, <1>2 DEF Told, StreamPc
  <2>2. pc'[c] = (IF Meth[c] = "Logging" THEN "recv" ELSE "newticker")
    BY <1>1, <1>2
  <2>3. Taken(c)' = << >> /\ Len(<< >>) = 0
    BY <1>1, <1>3, <2>2 DEF Taken, InHand
  <2>4. CountStatistic(<< >>) = AddStat(Zero, AddStat(Zero, CountStatistic(<< >>)))
    <3>1. AddStat(Zero, AddStat(Zero, Zero)) = Zero
      BY ZeroIs, AddFacts
    <3> QED
      BY <3>1 DEF Zero
  <2> QED
    BY <1>1, <1>2, <1>3, <2>1, <2>2, <2>3, <2>4 DEF Told, StreamPc
<1>5. ASSUME NEW t \in Call, t # c PROVE Told(t)'
  <2>1. Told(t) /\ Unmoved(t)
    BY <1>1, <1>2, <1>5 DEF ToldInv, Unmoved
  <2> QED
    BY <2>1, UnmovedTold
<1> QED
  BY <1>1, <1>4, <1>5 DEF ToldInv

(* Logging: an event goes out, or the handler ends. *)
LEMMA LoggerTold ==
  ASSUME IInv, ToldInv, NEW c \in Call, SendEvent(c) \/ LoggingEnds(c) PROVE ToldInv'
<1> USE DEF lockVars, joinVars, loggerVars, statVars, Goto, Return
<1>1. /\ UNCHANGED <<got, col, evs, pend, total>>
      /\ pc[c] \in {"send", "recv"}
      /\ \/ /\ pc[c] = "send" /\ pc' = [pc EXCEPT ![c] = "recv"]
            /\ sent' = [sent EXCEPT ![c] = @ + 1]
         \/ pc' = [pc EXCEPT ![c] = "done"] /\ sent' = sent
  BY DEF SendEvent, LoggingEnds
<1>2. /\ pc \in [Call -> Pc] /\ got[c] \in Seq(Call) /\ sent \in [Call -> Nat] /\ Told(c)
  BY DEF IInv, TypeOK, ToldInv
<1>3. Meth[c] = "Logging" /\ col[c] = "none"
  BY <1>1, <1>2 DEF Told
<1>4. Told(c)'
  <2>1. CASE pc'[c] = "done"
    BY <1>1, <1>2, <1>3, <2>1 DEF Told, StreamPc
  <2>2. CASE pc[c] = "send" /\ pc'[c] = "recv" /\ sent'[c] = sent[c] + 1
    <3>1. sent[c] = Len(SubSeq(got[c], 1, Len(got[c]) - 1))
      BY <1>2, <1>3, <2>2 DEF Told, Taken, InHand, StreamPc
    <3>2. got[c] # << >>
      BY <1>2, <2>2 DEF Told
    <3>3. sent'[c] = Len(got[c])
      BY <1>2, <2>2, <3>1, <3>2
    <3>4. Taken(c)' = got[c]
      BY <1>1, <1>3, <2>2 DEF Taken, InHand
    <3> QED
      BY <1>1, <1>2, <1>3, <2>2, <3>3, <3>4 DEF Told, StreamPc
  <2> QED
    BY <1>1, <1>2, <2>1, <2>2
<1>5. ASSUME NEW t \in Call, t # c PROVE Told(t)'
  <2>1. Told(t) /\ Unmoved(t)
    BY <1>1, <1>2, <1>5 DEF ToldInv, Unmoved
  <2> QED
    BY <2>1, UnmovedTold
<1> QED
  BY <1>1, <1>4, <1>5 DEF ToldInv

(* Statistics: collecting, counting and sending move a count from one      *)
(* place to the next.                                                      *)
LEMMA NewTickerTold ==
  ASSUME IInv, ToldInv, NEW c \in Call, NewTicker(c), ~Panic PROVE ToldInv'
<1> USE DEF lockVars, joinVars, loggerVars, Goto, LaunchCollector
<1>1. /\ UNCHANGED <<got, sent, evs, pend, total>> /\ pc[c] = "newticker"
      /\ pc' = [pc EXCEPT ![c] = "tick"] /\ col' = [col EXCEPT ![c] = "recv"]
  BY DEF NewTicker
<1>2. /\ pc \in [Call -> Pc] /\ col \in [Call -> {"none", "recv", "append", "exit"}] /\ Told(c)
  BY DEF IInv, TypeOK, ToldInv
<1>3. Taken(c)' = Taken(c)
  <2>1. col[c] # "append"
    BY <1>1, <1>2 DEF Told
  <2>2. ~InHand(c) /\ ~InHand(c)' /\ got'[c] = got[c]
    BY <1>1, <1>2, <2>1 DEF InHand
  <2> QED
    BY <2>2 DEF Taken
<1>4. Told(c)'
  <2>1. /\ pc'[c] = "tick" /\ Meth[c] # "Logging" /\ pend'[c] = pend[c] /\ total'[c] = total[c]
        /\ evs'[c] = evs[c] /\ pend[c] = Zero
    BY <1>1, <1>2 DEF Told
  <2>2. CountStatistic(Taken(c)) = AddStat(total[c], AddStat(pend[c], CountStatistic(evs[c])))
    BY <1>1, <1>2, <2>1 DEF Told, StreamPc
  <2> QED
    BY <1>2, <1>3, <2>1, <2>2 DEF Told, StreamPc
<1>5. ASSUME NEW t \in Call, t # c PROVE Told(t)'
  <2>1. Told(t) /\ Unmoved(t)
    BY <1>1, <1>2, <1>5 DEF ToldInv, Unmoved
  <2> QED
    BY <2>1, UnmovedTold
<1> QED
  BY <1>1, <1>4, <1>5 DEF ToldInv

LEMMA TickTold == ASSUME IInv, ToldInv, NEW c \in Call, Tick(c) PROVE ToldInv'
<1> USE DEF lockVars, joinVars, loggerVars, Goto, FreshEvs
<1>1. /\ UNCHANGED <<got, sent, col, total>> /\ pc[c] = "tick"
      /\ pc' = [pc EXCEPT ![c] = "sendstat"]
      /\ pend' = [pend EXCEPT ![c] = CountStatistic(evs[c])]
      /\ evs' = [evs EXCEPT ![c] = << >>]
  BY DEF Tick
<1>2. /\ pc \in [Call -> Pc] /\ evs \in [Call -> Seq(Call)] /\ Told(c)
      /\ pend \in [Call -> Stat] /\ total \in [Call -> Stat]
  BY DEF IInv, TypeOK, ToldInv
<1>3. CountStatistic(evs[c]) \in Stat
  BY <1>2, CountExtends
<1>4. AddStat(Zero, CountStatistic(evs[c])) = AddStat(CountStatistic(evs[c]), Zero)
  BY <1>3, ZeroIs, AddFacts
<1>5. Taken(c)' = Taken(c)
  BY <1>1, <1>2 DEF Taken, InHand
<1>6. /\ pc'[c] = "sendstat" /\ pend'[c] = CountStatistic(evs[c]) /\ evs'[c] = << >>
      /\ CountStatistic(evs'[c]) = Zero /\ Meth[c] # "Logging" /\ pend[c] = Zero
  BY <1>1, <1>2 DEF Told, Zero
<1>7. Told(c)'
  BY <1>1, <1>2, <1>3, <1>4, <1>5, <1>6 DEF Told, StreamPc
<1>8. ASSUME NEW t \in Call, t # c PROVE Told(t)'
  <2>1. Told(t) /\ Unmoved(t)
    BY <1>1, <1>2, <1>8 DEF ToldInv, Unmoved
  <2> QED
    BY <2>1, UnmovedTold
<1>9. pend' \in [Call -> Stat]
  BY <1>1, <1>2, <1>3
<1> QED
  BY <1>1, <1>2, <1>7, <1>8, <1>9 DEF ToldInv

LEMMA SendStatTold == ASSUME IInv, ToldInv, NEW c \in Call, SendStat(c) PROVE ToldInv'
<1> USE DEF lockVars, joinVars, loggerVars, Goto, Return
<1>1. /\ UNCHANGED <<got, sent, col, evs>> /\ pc[c] = "sendstat"
      /\ pend' = [pend EXCEPT ![c] = Zero]
      /\ \/ /\ pc' = [pc EXCEPT ![c] = "tick"]
            /\ total' = [total EXCEPT ![c] = AddStat(@, pend[c])]
         \/ pc' = [pc EXCEPT ![c] = "done"] /\ total' = total
  BY DEF SendStat, Zero
<1>2. /\ pc \in [Call -> Pc] /\ evs \in [Call -> Seq(Call)] /\ Told(c)
      /\ pend \in [Call -> Stat] /\ total \in [Call -> Stat]
  BY DEF IInv, TypeOK, ToldInv
<1>3. CountStatistic(evs[c]) \in Stat
  BY <1>2, CountExtends
<1>4. Meth[c] # "Logging"
  BY <1>1, <1>2 DEF Told
<1>5. Taken(c)' = Taken(c)
  BY <1>1, <1>2 DEF Taken, InHand
<1>6. pend' \in [Call -> Stat] /\ total' \in [Call -> Stat]
  <2>1. AddStat(total[c], pend[c]) \in Stat
    BY <1>2, AddFacts
  <2> QED
    BY <1>1, <1>2, <2>1, ZeroIs
<1>7. Told(c)'
  <2>1. CASE pc'[c] = "done"
    BY <1>1, <1>2, <1>4, <1>6, <2>1 DEF Told, StreamPc
  <2>2. CASE pc'[c] = "tick" /\ total'[c] = AddStat(total[c], pend[c])
    <3>1. CountStatistic(Taken(c)) = AddStat(total[c], AddStat(pend[c], CountStatistic(evs[c])))
      BY <1>1, <1>2, <1>4 DEF Told, StreamPc
    <3>2. AddStat(Zero, CountStatistic(evs[c])) = CountStatistic(evs[c])
      BY <1>3, ZeroIs, AddFacts
    <3>3. AddStat(AddStat(total[c], pend[c]), CountStatistic(evs[c]))
            = AddStat(total[c], AddStat(pend[c], CountStatistic(evs[c])))
      BY <1>2, <1>3, AddFacts
    <3>4. CountStatistic(Taken(c))
            = AddStat(AddStat(total[c], pend[c]), AddStat(Zero, CountStatistic(evs[c])))
      BY <3>1, <3>2, <3>3
    <3>5. pend'[c] = Zero /\ evs'[c] = evs[c]
      BY <1>1, <1>2
    <3> QED
      BY <1>1, <1>2, <1>4, <1>5, <1>6, <2>2, <3>4, <3>5 DEF Told, StreamPc
  <2> QED
    BY <1>1, <1>2, <2>1, <2>2
<1>8. ASSUME NEW t \in Call, t # c PROVE Told(t)'
  <2>1. Told(t) /\ Unmoved(t)
    BY <1>1, <1>2, <1>8 DEF ToldInv, Unmoved
  <2> QED
    BY <2>1, UnmovedTold
<1> QED
  BY <1>6, <1>7, <1>8 DEF ToldInv

LEMMA CollectorTold == ASSUME IInv, ToldInv, NEW c \in Call, Collector(c) PROVE ToldInv'
<1> USE DEF lockVars, joinVars, loggerVars
<1>1. /\ UNCHANGED <<pc, got, sent, pend, total>>
      /\ \/ /\ col[c] = "append" /\ col' = [col EXCEPT ![c] = "recv"]
            /\ evs' = [evs EXCEPT ![c] = Append(@, got[c][Len(got[c])])]
         \/ col[c] = "recv" /\ col' = [col EXCEPT ![c] = "exit"] /\ evs' = evs
  BY DEF Collector, Collect, CollectorEnds, Extend
<1>2. /\ evs \in [Call -> Seq(Call)] /\ Told(c)
      /\ got[c] \in Seq(Call) /\ col \in [Call -> {"none", "recv", "append", "exit"}]
      /\ pend[c] \in Stat /\ total[c] \in Stat
  BY DEF IInv, TypeOK, ToldInv
<1>3. Meth[c] # "Logging"
  BY <1>1, <1>2 DEF Told
<1>4. pc[c] \in StreamPc \cup {"done"}
  BY <1>1 DEF IInv, StreamsInv
<1>5. Told(c)'
  <2>1. CASE col[c] = "recv" /\ col'[c] = "exit" /\ evs'[c] = evs[c]
    <3>1. Taken(c)' = Taken(c)
      BY <1>1, <2>1 DEF Taken, InHand
    <3> QED
      BY <1>1, <1>2, <1>3, <2>1, <3>1 DEF Told
  <2>2. CASE /\ col[c] = "append" /\ col'[c] = "recv"
             /\ evs'[c] = Append(evs[c], got[c][Len(got[c])])
    <3> DEFINE e == got[c][Len(got[c])]
               taken == SubSeq(got[c], 1, Len(got[c]) - 1)
    <3>1. got[c] # << >>
      BY <2>2 DEF IInv, StreamsInv
    <3>2. e \in Call /\ taken \in Seq(Call) /\ got[c] = Append(taken, e)
      BY <1>2, <3>1
    <3>3. Taken(c) = taken /\ Taken(c)' = got[c]
      BY <1>1, <1>2, <1>3, <2>2 DEF Taken, InHand, Told
    <3>4. evs[c] \in Seq(Call) /\ evs'[c] = Append(evs[c], e)
      BY <1>2, <2>2
    <3> HIDE DEF e, taken
    <3>5. /\ CountStatistic(evs[c]) \in Stat /\ One(e) \in Stat
          /\ CountStatistic(got[c]) = AddStat(CountStatistic(taken), One(e))
          /\ CountStatistic(evs'[c]) = AddStat(CountStatistic(evs[c]), One(e))
      BY <3>2, <3>4, CountExtends, OneIsStat
    <3>6. ASSUME CountStatistic(taken) = AddStat(total[c], AddStat(pend[c], CountStatistic(evs[c])))
          PROVE  CountStatistic(got[c]) = AddStat(total[c], AddStat(pend[c], CountStatistic(evs'[c])))
      BY <1>2, <3>5, <3>6, CountedLater
    <3> QED
      BY <1>1, <1>2, <1>3, <1>4, <2>2, <3>3, <3>6 DEF Told
  <2> QED
    BY <1>1, <1>2, <2>1, <2>2
<1>6. ASSUME NEW t \in Call, t # c PROVE Told(t)'
  <2>1. Told(t) /\ Unmoved(t)
    BY <1>1, <1>2, <1>6 DEF ToldInv, Unmoved
  <2> QED
    BY <2>1, UnmovedTold
<1> QED
  BY <1>1, <1>5, <1>6 DEF ToldInv

(* Every step keeps the counts. *)
LEMMA NextTold == IInv /\ ToldInv /\ [Next]_vars => ToldInv'
<1> SUFFICES ASSUME IInv, ToldInv, [Next]_vars PROVE ToldInv'
  OBVIOUS
<1>1. ASSUME UNCHANGED callVars PROVE ToldInv'
  <2>1. UNCHANGED <<pc, got, col, sent, evs, pend, total>>
    BY <1>1 DEF callVars, lockVars, joinVars, loggerVars, statVars
  <2> QED
    BY <2>1, UnmovedTold DEF ToldInv, Unmoved
<1>2. ASSUME Panic PROVE ToldInv'
  BY <1>1, <1>2 DEF Panic
<1>3. CASE Service
  BY <1>1, <1>2, <1>3 DEF Service, Start, Finish, AdminClose, StopListening, Stopped
<1>4. ASSUME NEW c \in Call, Arrive(c) \/ Leave(c) \/ Handler(c) \/ Collector(c)
      PROVE  ToldInv'
  <2>1. ASSUME NEW s \in Call, SendOnClosed(c, s) PROVE ToldInv'
    BY <1>2, <2>1 DEF SendOnClosed
  <2> QED
    BY <1>2, <1>4, <2>1, InterceptTold, DeliverTold, JoinTold, LoggerTold, NewTickerTold, TickTold,
       SendStatTold, CollectorTold DEF Handler
<1>5. CASE UNCHANGED vars
  BY <1>1, <1>5 DEF vars
<1> QED
  BY <1>3, <1>4, <1>5 DEF Next

LEMMA TellsAll == IInv /\ ToldInv => Conservation
<1> SUFFICES ASSUME IInv, ToldInv, NEW s \in Joined, pc[s] # "done"
             PROVE  LET inHand == IF InHand(s) THEN 1 ELSE 0
                        taken  == SubSeq(got[s], 1, Len(got[s]) - inHand)
                    IN  IF Meth[s] = "Logging" THEN sent[s] = Len(taken)
                        ELSE CountStatistic(taken)
                               = AddStat(total[s], AddStat(pend[s], CountStatistic(evs[s])))
  BY DEF Conservation, InHand
<1>1. s \in Call /\ got[s] \in Seq(Call)
  BY DEF Joined, IInv, TypeOK
<1>2. pc[s] \in StreamPc /\ Told(s)
  BY <1>1 DEF IInv, StreamsInv, ToldInv
<1>3. SubSeq(got[s], 1, Len(got[s]) - (IF InHand(s) THEN 1 ELSE 0)) = Taken(s)
  <2>1. Len(got[s]) - 0 = Len(got[s]) /\ SubSeq(got[s], 1, Len(got[s])) = got[s]
    BY <1>1
  <2> QED
    BY <2>1 DEF Taken
<1> QED
  BY <1>2, <1>3 DEF Told

(* No event is lost or counted twice between a channel and its client, for *)
(* any interleaving of publishers, collectors, ticks and departures        *)
(* (Logging and Statistics in HW/hw7_microservice/admin_service.go).       *)
THEOREM NothingUntold == Spec => []Conservation
BY InitTold, NextTold, TellsAll, InitIInv, NextIInv, PTL DEF Spec
=============================================================================

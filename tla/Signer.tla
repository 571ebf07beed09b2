------------------------------- MODULE Signer -------------------------------
(***************************************************************************)
(* The hash pipeline of hw2 (HW/hw2_signer): ExecutePipeline runs a source,*)
(* SingleHash, MultiHash, CombineResults and a sink as goroutines joined   *)
(* by channels of capacity one; SingleHash and MultiHash start a goroutine *)
(* for every value and more for every hash; MD5 must be computed by one    *)
(* goroutine at a time.  Hashes are symbolic terms.  What a goroutine does *)
(* between two points where it can block or be observed is one action.     *)
(***************************************************************************)
EXTENDS Naturals, Sequences, FiniteSets

CONSTANTS Input,       \* the sequence of values the source sends
          ThMax,       \* MultiHash computes the hashes 0 .. ThMax (there, 5)
          Nobody       \* su is not locked

ASSUME SignerAssumption ==
  /\ ThMax \in Nat /\ Nobody \notin DOMAIN Input
  /\ Len(Input) \in Nat /\ DOMAIN Input = 1 .. Len(Input)

W == DOMAIN Input               \* a stage has one worker per value
Th == 0 .. ThMax

Source == 1   SingleHash == 2   MultiHash == 3   CombineResults == 4   Sink == 5
Job == Source .. Sink

VARIABLES
  job,       \* where the goroutine of each job is
  ch,        \* ch[k] is the buffer of the out channel of job k
  shut,      \* the jobs whose out channel is closed
  next,      \* the index of the value the source sends next
  combined,  \* what CombineResults has collected
  answer,    \* what the sink received
  single,    \* the workers of SingleHash, with their goroutines and channels
  multi,     \* the workers of MultiHash, likewise
  su,        \* the holder of the global mutex
  overheat   \* dataSignerOverheat

jobVars == <<job, shut, next, combined, answer>>
md5Vars == <<su, overheat>>
vars == <<jobVars, ch, single, multi, md5Vars>>

-----------------------------------------------------------------------------
Crc(x) == <<"crc", x>>
Md5(x) == <<"md5", x>>
None == << >>

(* sort.Strings and strings.Join keep what was collected and not its order: *)
(* the answer stands for the bag of the results.                            *)
Sorted(results) ==
  [x \in {results[i] : i \in DOMAIN results} |->
     Cardinality({i \in DOMAIN results : results[i] = x})]

(* A worker of SingleHash: its place, the value it was given and then the   *)
(* one it sends, the buffers of firstRes and secondRes, its goroutines: crc *)
(* and md5 by place, crcMd5 by its argument.                                *)
IdleSingle == [at |-> "none", val |-> None, first |-> None, second |-> None,
               crc |-> "none", md5 |-> "none", crcMd5 |-> None]

(* A worker of MultiHash: the same, the goroutines yet to send, the buffer *)
(* of res and the array result.                                            *)
IdleMulti == [at |-> "none", val |-> None, calc |-> {}, res |-> None,
              result |-> [th \in Th |-> None]]

Init ==
  /\ job = [k \in Job |-> "run"]
  /\ ch = [k \in Job |-> None]
  /\ shut = {}
  /\ next = 1
  /\ combined = None
  /\ answer = None
  /\ single = [w \in W |-> IdleSingle]
  /\ multi = [w \in W |-> IdleMulti]
  /\ su = Nobody
  /\ overheat = 0

-----------------------------------------------------------------------------
(* Mutant: a send that does not wait. *)
SendOverwrites(k, v) == ch' = [ch EXCEPT ![k] = <<v>>]

(* out <- v waits for room.  Were the channel closed it would panic: that  *)
(* this cannot be is NoSendOnClosed.                                       *)
Send(k, v) == ch[k] = None /\ ch' = [ch EXCEPT ![k] = <<v>>]

(* for val := range in, where in is the out channel of the job before. *)
HasValue(k) == ch[k - 1] # None
Recv(k) == ch' = [ch EXCEPT ![k - 1] = None]
Drained(k) == ch[k - 1] = None /\ k - 1 \in shut

Goto(k, from, to) == job[k] = from /\ job' = [job EXCEPT ![k] = to]

Fresh(workers, w) == /\ workers[w].at = "none"
                     /\ \A v \in W : workers[v].at = "none" => w <= v

(* wg.Wait() in SingleHash and MultiHash.  Mutant: no waiting. *)
NoWait(workers) == TRUE
AllDone(workers) == \A w \in W : workers[w].at \in {"none", "done"}

(* The source of the tests sends the input and returns. *)
SourceSend == /\ job[Source] = "run" /\ next \in W
              /\ Send(Source, Input[next])
              /\ next' = next + 1
              /\ UNCHANGED <<job, shut, combined, answer, single, multi, md5Vars>>

SourceReturn == /\ next \notin W
                /\ Goto(Source, "run", "return")
                /\ UNCHANGED <<ch, shut, next, combined, answer, single, multi, md5Vars>>

(* SingleHash and MultiHash, k: the end of the range, and of wg.Wait().    *)
RangeEnds(k) == /\ k \in {SingleHash, MultiHash} /\ Drained(k)
                /\ Goto(k, "run", "wait")
                /\ UNCHANGED <<ch, shut, next, combined, answer, single, multi, md5Vars>>

WaitEnds(k) == /\ k \in {SingleHash, MultiHash}
               /\ AllDone(IF k = SingleHash THEN single ELSE multi)
               /\ Goto(k, "wait", "return")
               /\ UNCHANGED <<ch, shut, next, combined, answer, single, multi, md5Vars>>

(* The deferred close(out) and wg.Done() of ExecutePipeline, ... *)
CloseOut(k) == /\ Goto(k, "return", "done")
               /\ shut' = shut \cup {k}
               /\ UNCHANGED <<ch, next, combined, answer, single, multi, md5Vars>>

(* ... which returns when every job has. *)
Returned == \A k \in Job : job[k] = "done"

-----------------------------------------------------------------------------
(* SingleHash takes a value and starts a worker, which starts getCrc32 and *)
(* getMd5 before it first waits.                                           *)
SingleRecv(w) ==
  /\ job[SingleHash] = "run" /\ HasValue(SingleHash)
  /\ Fresh(single, w)
  /\ Recv(SingleHash)
  /\ single' = [single EXCEPT ![w] = [IdleSingle EXCEPT !.at = "md5", !.crc = "run", !.md5 = "lock",
                                                        !.val = ch[Source][1]]]
  /\ UNCHANGED <<jobVars, multi, md5Vars>>

(* A step of one worker of SingleHash, or of one of its goroutines. *)
Only(w, worker) == /\ single' = [single EXCEPT ![w] = worker]
                   /\ UNCHANGED <<jobVars, multi>>

(* go getCrc32(<-secondRes, secondRes): the worker itself receives the MD5 *)
(* and hands it to a goroutine that answers on the same channel.           *)
SingleMd5(w) == LET me == single[w] IN
  /\ me.at = "md5" /\ me.second # None
  /\ Only(w, [me EXCEPT !.at = "join", !.crcMd5 = me.second, !.second = None])
  /\ UNCHANGED <<ch, md5Vars>>

(* <-firstRes + "~" + <-secondRes *)
SingleJoin(w) == LET me == single[w] IN
  /\ me.at = "join" /\ me.first # None /\ me.second # None
  /\ Only(w, [me EXCEPT !.at = "send", !.val = me.first \o me.second,
                        !.first = None, !.second = None])
  /\ UNCHANGED <<ch, md5Vars>>

(* A worker has its result.  Mutant: it keeps it until the input ends. *)
ReadyAtEnd(w) == single[w].at = "send" /\ job[SingleHash] = "wait"
Ready(w) == single[w].at = "send"

SingleSend(w) == /\ Ready(w)
                 /\ Send(SingleHash, single[w].val)
                 /\ Only(w, [single[w] EXCEPT !.at = "close"])
                 /\ UNCHANGED md5Vars

(* close(firstRes), close(secondRes), wg.Done() *)
SingleDone(w) == /\ single[w].at = "close"
                 /\ Only(w, [single[w] EXCEPT !.at = "done"])
                 /\ UNCHANGED <<ch, md5Vars>>

(* getCrc32(str, firstRes), and getCrc32 of the MD5. *)
CrcPut(w) == LET me == single[w] IN
  /\ me.crc = "run" /\ me.first = None
  /\ Only(w, [me EXCEPT !.crc = "done", !.first = <<Crc(me.val)>>])
  /\ UNCHANGED <<ch, md5Vars>>

CrcMd5Put(w) == LET me == single[w] IN
  /\ me.crcMd5 # None /\ me.second = None
  /\ Only(w, [me EXCEPT !.crcMd5 = None, !.second = <<Crc(me.crcMd5[1])>>])
  /\ UNCHANGED <<ch, md5Vars>>

-----------------------------------------------------------------------------
(* su.Lock() in getMd5.  Mutant: it does not wait. *)
Unguarded == TRUE
SuFree == su = Nobody

Hasher(w, from, to) == single[w].md5 = from /\ Only(w, [single[w] EXCEPT !.md5 = to])

Md5Lock(w) == /\ SuFree
              /\ Hasher(w, "lock", "overheat")
              /\ su' = w
              /\ UNCHANGED <<ch, overheat>>

(* OverheatLock() retries, a second later, until the flag is 0. *)
OverheatLock(w) == /\ Hasher(w, "overheat", "hash")
                   /\ overheat = 0
                   /\ overheat' = 1
                   /\ UNCHANGED <<ch, su>>

(* The deferred OverheatUnlock() of DataSignerMd5. *)
OverheatUnlock(w) == /\ Hasher(w, "hash", "put")
                     /\ overheat = 1
                     /\ overheat' = 0
                     /\ UNCHANGED <<ch, su>>

(* res <- ..., still under su. *)
Md5Put(w) == LET me == single[w] IN
  /\ me.md5 = "put" /\ me.second = None
  /\ Only(w, [me EXCEPT !.md5 = "unlock", !.second = <<Md5(me.val)>>])
  /\ UNCHANGED <<ch, md5Vars>>

Md5Unlock(w) == /\ Hasher(w, "unlock", "done")
                /\ su' = Nobody
                /\ UNCHANGED <<ch, overheat>>

-----------------------------------------------------------------------------
(* MultiHash takes a value and starts a worker, which starts one goroutine *)
(* per hash.                                                               *)
MultiRecv(w) ==
  /\ job[MultiHash] = "run" /\ HasValue(MultiHash)
  /\ Fresh(multi, w)
  /\ Recv(MultiHash)
  /\ multi' = [multi EXCEPT ![w] = [IdleMulti EXCEPT !.at = "collect", !.calc = Th,
                                                     !.val = ch[SingleHash][1]]]
  /\ UNCHANGED <<jobVars, single, md5Vars>>

OnlyMulti(w, worker) == /\ multi' = [multi EXCEPT ![w] = worker]
                        /\ UNCHANGED <<jobVars, single, md5Vars>>

(* getCrc32WithOrder: res has room for every hash. *)
MultiPut(w, th) == LET me == multi[w] IN
  /\ th \in me.calc
  /\ OnlyMulti(w, [me EXCEPT !.calc = @ \ {th},
                             !.res = Append(@, [id |-> th, data |-> Crc(<<th, me.val>>)])])
  /\ UNCHANGED ch

(* Where in the array a hash goes.  Mutant: in the order of arrival. *)
NextSlot(worker) == Cardinality({th \in Th : worker.result[th] # None})
Slot(worker) == Head(worker.res).id

MultiCollect(w) == LET me == multi[w] IN
  /\ me.at = "collect" /\ me.res # None
  /\ OnlyMulti(w, [me EXCEPT !.result[Slot(me)] = Head(me.res).data, !.res = Tail(@)])
  /\ UNCHANGED ch

(* out <- strings.Join(result), after ThMax + 1 hashes. *)
MultiSend(w) == LET me == multi[w] IN
  /\ me.at = "collect" /\ me.calc = {} /\ me.res = None
  /\ Send(MultiHash, me.result)
  /\ OnlyMulti(w, [me EXCEPT !.at = "close"])

(* The deferred close(res) and wg.Done(). *)
MultiDone(w) == /\ multi[w].at = "close"
                /\ OnlyMulti(w, [multi[w] EXCEPT !.at = "done"])
                /\ UNCHANGED ch

-----------------------------------------------------------------------------
(* CombineResults collects until its input is closed, then sends once. *)
CombineRecv == /\ job[CombineResults] = "run" /\ HasValue(CombineResults)
               /\ Recv(CombineResults)
               /\ combined' = combined \o ch[MultiHash]
               /\ UNCHANGED <<job, shut, next, answer, single, multi, md5Vars>>

CombineSend == /\ Drained(CombineResults)
               /\ Goto(CombineResults, "run", "return")
               /\ Send(CombineResults, Sorted(combined))
               /\ UNCHANGED <<shut, next, combined, answer, single, multi, md5Vars>>

(* The sink of TestSigner receives once and returns. *)
SinkRecv == /\ HasValue(Sink) \/ Drained(Sink)
            /\ Goto(Sink, "run", "return")
            /\ answer' = ch[CombineResults]
            /\ Recv(Sink)
            /\ UNCHANGED <<shut, next, combined, single, multi, md5Vars>>

-----------------------------------------------------------------------------
Stage == \/ \E k \in Job : RangeEnds(k) \/ WaitEnds(k) \/ CloseOut(k)
         \/ SourceReturn \/ CombineRecv \/ CombineSend \/ SinkRecv

SingleWorker(w) ==
  \/ SingleRecv(w) \/ SingleMd5(w) \/ SingleJoin(w) \/ SingleSend(w) \/ SingleDone(w)
  \/ CrcPut(w) \/ CrcMd5Put(w)
  \/ Md5Lock(w) \/ OverheatLock(w) \/ OverheatUnlock(w) \/ Md5Put(w) \/ Md5Unlock(w)

MultiWorker(w) == \/ MultiRecv(w) \/ MultiCollect(w) \/ MultiSend(w) \/ MultiDone(w)
                  \/ \E th \in Th : MultiPut(w, th)

Next == SourceSend \/ Stage \/ \E w \in W : SingleWorker(w) \/ MultiWorker(w)

Spec == Init /\ [][Next]_vars

(* Every goroutine that can go on does.  Nothing is asked of the source,   *)
(* which may pause between two values for as long as it likes.             *)
FairSpec == Spec /\ WF_vars(Stage)
                 /\ \A w \in W : WF_vars(SingleWorker(w)) /\ WF_vars(MultiWorker(w))

-----------------------------------------------------------------------------
Md5Places == {"none", "lock", "overheat", "hash", "put", "unlock", "done"}

TypeOK ==
  /\ job \in [Job -> {"run", "wait", "return", "done"}]
  /\ \A k \in Job : Len(ch[k]) <= 1
  /\ shut \subseteq Job
  /\ next \in 1 .. Len(Input) + 1
  /\ \A w \in W : /\ single[w].at \in {"none", "md5", "join", "send", "close", "done"}
                  /\ single[w].crc \in {"none", "run", "done"}
                  /\ single[w].md5 \in Md5Places
                  /\ multi[w].at \in {"none", "collect", "close", "done"}
                  /\ multi[w].calc \subseteq Th
                  /\ Len(multi[w].res) <= ThMax + 1
  /\ su \in W \cup {Nobody}
  /\ overheat \in {0, 1}

(* No goroutine is about to send on a channel that is closed: a stage is   *)
(* not closed while one of its workers has yet to send, and a worker does  *)
(* not close its own channels before its goroutines have sent.             *)
NoSendOnClosed ==
  /\ \A w \in W :
       /\ single[w].at \in {"md5", "join", "send"} => SingleHash \notin shut
       /\ multi[w].at = "collect" => MultiHash \notin shut
       /\ single[w].at = "done" =>
            /\ single[w].crc = "done" /\ single[w].crcMd5 = None
            /\ single[w].md5 \in {"unlock", "done"}
       /\ multi[w].at = "done" => multi[w].calc = {}
  /\ \A k \in shut : job[k] = "done"

(* MD5 is computed by one goroutine at a time, so that nobody ever finds   *)
(* the signer overheated and loses a second.                               *)
NoOverheat ==
  /\ \A w \in W : single[w].md5 = "overheat" => overheat = 0
  /\ \A v, w \in W : single[v].md5 = "hash" /\ single[w].md5 = "hash" => v = w

(* The inductive invariant behind the two properties above.  The holder of *)
(* su is the goroutine between su.Lock() and su.Unlock(), and the flag is  *)
(* set exactly while it hashes.                                            *)
Md5Inv ==
  /\ \A w \in W : su = w <=> single[w].md5 \in {"overheat", "hash", "put", "unlock"}
  /\ \A w \in W : su = w => (overheat = 1 <=> single[w].md5 = "hash")
  /\ su = Nobody => overheat = 0
  /\ su \in W \cup {Nobody} /\ overheat \in {0, 1}

(* What the channels of a worker of SingleHash hold follows from where its *)
(* goroutines are: secondRes carries the MD5 first, then its crc32.        *)
WorkerInv(me) ==
  /\ me.at \in {"none", "md5", "join", "send", "close", "done"}
  /\ me.at = "none" => me.md5 = "none"
  /\ me.at \in {"md5", "join"} => \/ (me.crc = "run" /\ me.first = None)
                                 \/ (me.crc = "done" /\ me.first # None)
  /\ me.at = "md5" => /\ me.crcMd5 = None
                      /\ me.md5 \in {"lock", "overheat", "hash", "put", "unlock", "done"}
                      /\ me.second = None <=> me.md5 \notin {"unlock", "done"}
  /\ me.at = "join" => /\ me.md5 \in {"unlock", "done"}
                       /\ me.crcMd5 = None <=> me.second # None
  /\ me.at \in {"send", "close", "done"} =>
       me.crc = "done" /\ me.crcMd5 = None /\ me.md5 \in {"unlock", "done"}

StageInv ==
  /\ DOMAIN job = Job
  /\ \A k \in shut : job[k] = "done"
  /\ \A w \in W :
       /\ single[w].at \in {"md5", "join", "send", "close"} =>
            job[SingleHash] \notin {"return", "done"}
       /\ multi[w].at \in {"none", "collect", "close", "done"}
       /\ multi[w].at \in {"collect", "close"} => job[MultiHash] \notin {"return", "done"}
       /\ multi[w].at # "collect" => multi[w].calc = {}

Shape ==
  /\ DOMAIN single = W /\ \A w \in W : DOMAIN single[w] = DOMAIN IdleSingle
  /\ DOMAIN multi = W /\ \A w \in W : DOMAIN multi[w] = DOMAIN IdleMulti

IInv == Shape /\ Md5Inv /\ StageInv /\ \A w \in W : WorkerInv(single[w])

Count(S(_)) == Cardinality({w \in W : S(w)})

(* Between two stages no value is lost or doubled: what the source sent,   *)
(* what SingleHash sent and what MultiHash sent is what the next stage     *)
(* took and what is still in the channel.                                  *)
NothingLost ==
  /\ next - 1 = Len(ch[Source]) + Count(LAMBDA w : single[w].at # "none")
  /\ Count(LAMBDA w : single[w].at \in {"close", "done"})
       = Len(ch[SingleHash]) + Count(LAMBDA w : multi[w].at # "none")
  /\ Count(LAMBDA w : multi[w].at \in {"close", "done"})
       = Len(ch[MultiHash]) + Len(combined)

(* What hw2.md defines: crc32(data)~crc32(md5(data)), then the hashes of    *)
(* that value with th = 0 .. 5 in order, then all results, sorted.          *)
Expected ==
  Sorted([i \in W |->
    LET s == <<Crc(Input[i]), Crc(Md5(Input[i]))>>
    IN  [th \in Th |-> Crc(<<th, s>>)]])

(* Whatever the order in which goroutines ran, the pipeline's answer is    *)
(* the one the definition gives for its input, and what CombineResults has *)
(* collected before is a part of it.                                       *)
AnswerIsExpected ==
  /\ LET sofar == Sorted(combined)
     IN  \A x \in DOMAIN sofar : x \in DOMAIN Expected /\ sofar[x] <= Expected[x]
  /\ Returned => answer = <<Expected>>

(* Once the source has sent everything, ExecutePipeline returns. *)
Terminates == (next > Len(Input)) ~> Returned

(* A stage does not hold values back: each value goes through SingleHash   *)
(* and MultiHash even if the source never sends another one (TestPipeline).*)
FlowsFreely == \A n \in W : (next > n) ~> (Len(combined) >= n)

(* Every value arrives: alone while the source pauses, and all of them,    *)
(* with the pipeline's return, when it is done.                            *)
EveryValueArrives == FlowsFreely /\ Terminates
=============================================================================

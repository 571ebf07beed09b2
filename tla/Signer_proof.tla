---------------------------- MODULE Signer_proof ----------------------------
(***************************************************************************)
(* Theorems about Signer for inputs of every length and any number of      *)
(* hashes: no goroutine sends on a closed channel, MD5 is never computed   *)
(* by two at once, no value is lost or doubled, and the pipeline's answer  *)
(* is the one its definition gives for its input.                          *)
(***************************************************************************)
EXTENDS Signer, FiniteSetTheorems, SequenceTheorems, TLAPS

(* The mutex has no holder when its holder is not a worker. *)
LEMMA NobodyIsNoWorker == Nobody \notin W
BY SignerAssumption DEF W

LEMMA JobsDiffer ==
  /\ Source \in Job /\ SingleHash \in Job /\ MultiHash \in Job
  /\ CombineResults \in Job /\ Sink \in Job
  /\ SingleHash # Source /\ SingleHash # MultiHash /\ SingleHash # CombineResults
  /\ SingleHash # Sink /\ MultiHash # Source /\ MultiHash # CombineResults /\ MultiHash # Sink
  /\ CombineResults # Source /\ CombineResults # Sink /\ Source # Sink
BY DEF Source, SingleHash, MultiHash, CombineResults, Sink, Job

LEMMA InitIInv == Init => IInv
<1> SUFFICES ASSUME Init PROVE IInv
  OBVIOUS
<1> USE DEF Init, IdleSingle, IdleMulti, None
<1>1. Shape
  BY DEF Shape
<1>2. Md5Inv
  BY NobodyIsNoWorker DEF Md5Inv
<1>3. StageInv
  BY DEF StageInv
<1>4. \A w \in W : WorkerInv(single[w])
  BY DEF WorkerInv
<1> QED
  BY <1>1, <1>2, <1>3, <1>4 DEF IInv

-----------------------------------------------------------------------------
(* A step of a stage that moves job k to a place l, where l is not "return" *)
(* for a stage with a worker at large.                                      *)
LEMMA JobStep ==
  ASSUME IInv, NEW k \in Job, NEW from, NEW to, Goto(k, from, to), from # "done",
         UNCHANGED <<single, multi, su, overheat>>,
         shut' = shut \/ (to = "done" /\ from = "return" /\ shut' = shut \cup {k}),
         to \in {"return", "done"} =>
           \/ from \in {"return", "done"}
           \/ k \notin {SingleHash, MultiHash}
           \/ k = SingleHash /\ AllDone(single)
           \/ k = MultiHash /\ AllDone(multi)
  PROVE  IInv'
<1>1. Shape' /\ Md5Inv' /\ \A w \in W : WorkerInv(single'[w])
  BY DEF IInv, Shape, Md5Inv, WorkerInv
<1>2. DOMAIN job' = Job /\ job' = [job EXCEPT ![k] = to] /\ job[k] = from
  BY DEF Goto, IInv, StageInv
<1>3. \A j \in shut' : job'[j] = "done"
  BY <1>2 DEF IInv, StageInv
<1>4. \A w \in W :
       /\ single'[w].at \in {"md5", "join", "send", "close"} =>
            job'[SingleHash] \notin {"return", "done"}
       /\ multi'[w].at \in {"collect", "close"} => job'[MultiHash] \notin {"return", "done"}
  BY <1>2, JobsDiffer DEF IInv, StageInv, AllDone
<1>5. StageInv'
  BY <1>2, <1>3, <1>4 DEF IInv, StageInv
<1> QED
  BY <1>1, <1>5 DEF IInv

LEMMA StageStep == ASSUME IInv, Stage PROVE IInv'
<1> USE DEF jobVars, md5Vars
<1>1. ASSUME NEW k \in Job, RangeEnds(k) \/ WaitEnds(k) PROVE IInv'
  <2>1. CASE RangeEnds(k)
    BY <2>1, JobStep DEF RangeEnds
  <2>2. CASE WaitEnds(k)
    BY <2>2, JobStep DEF WaitEnds
  <2> QED
    BY <1>1, <2>1, <2>2
<1>2. ASSUME NEW k \in Job, CloseOut(k) PROVE IInv'
  BY <1>2, JobStep DEF CloseOut
<1>3. CASE SourceReturn
  BY <1>3, JobStep, JobsDiffer DEF SourceReturn
<1>4. CASE CombineSend
  BY <1>4, JobStep, JobsDiffer DEF CombineSend
<1>5. CASE SinkRecv
  BY <1>5, JobStep, JobsDiffer DEF SinkRecv
<1>6. CASE CombineRecv
  BY <1>6 DEF CombineRecv, IInv, Shape, Md5Inv, StageInv, WorkerInv
<1> QED
  BY <1>1, <1>2, <1>3, <1>4, <1>5, <1>6 DEF Stage

LEMMA SourceStep == ASSUME IInv, SourceSend PROVE IInv'
BY DEF SourceSend, md5Vars, IInv, Shape, Md5Inv, StageInv, WorkerInv

-----------------------------------------------------------------------------
(* A step that changes one worker of SingleHash: what must be shown of it. *)
LEMMA SingleStep ==
  ASSUME IInv, NEW w \in W, NEW worker,
         single' = [single EXCEPT ![w] = worker],
         UNCHANGED <<job, shut, multi>>,
         DOMAIN worker = DOMAIN IdleSingle,
         WorkerInv(worker),
         worker.at \in {"md5", "join", "send", "close"} =>
           single[w].at \in {"md5", "join", "send", "close"} \/ job[SingleHash] = "run",
         Md5Inv'
  PROVE  IInv'
<1>1. single'[w] = worker /\ \A v \in W \ {w} : single'[v] = single[v]
  BY DEF IInv, Shape
<1>2. Shape'
  BY <1>1 DEF IInv, Shape
<1>3. StageInv'
  BY <1>1 DEF IInv, StageInv
<1>4. \A v \in W : WorkerInv(single'[v])
  BY <1>1 DEF IInv
<1> QED
  BY <1>2, <1>3, <1>4 DEF IInv

(* The mutex and the flag are not touched, and the goroutine of w that     *)
(* runs getMd5 stays inside, or outside, each of its two regions.          *)
LEMMA SameMd5 ==
  ASSUME IInv, NEW w \in W, NEW worker,
         single' = [single EXCEPT ![w] = worker], UNCHANGED <<su, overheat>>,
         worker.md5 \in {"overheat", "hash", "put", "unlock"}
           <=> single[w].md5 \in {"overheat", "hash", "put", "unlock"},
         worker.md5 = "hash" <=> single[w].md5 = "hash"
  PROVE  Md5Inv'
<1>1. single'[w] = worker /\ \A v \in W \ {w} : single'[v] = single[v]
  BY DEF IInv, Shape
<1> QED
  BY <1>1 DEF IInv, Md5Inv

LEMMA SingleWorkerStep == ASSUME IInv, NEW w \in W, SingleWorker(w) PROVE IInv'
<1> USE DEF Only, jobVars, md5Vars
<1> DEFINE me == single[w]
<1>0. /\ DOMAIN me = DOMAIN IdleSingle /\ WorkerInv(me)
      /\ DOMAIN IdleSingle = {"at", "val", "first", "second", "crc", "md5", "crcMd5"}
  BY DEF IInv, Shape, IdleSingle
<1>1. CASE SingleRecv(w)
  <2> DEFINE new == [IdleSingle EXCEPT !.at = "md5", !.crc = "run", !.md5 = "lock",
                                       !.val = ch[Source][1]]
  <2>1. /\ me.at = "none" /\ job[SingleHash] = "run"
        /\ single' = [single EXCEPT ![w] = new] /\ UNCHANGED <<job, shut, multi, su, overheat>>
    BY <1>1 DEF SingleRecv, Fresh
  <2>2. DOMAIN new = DOMAIN IdleSingle /\ WorkerInv(new) /\ new.md5 = "lock"
    BY DEF WorkerInv, IdleSingle, None
  <2>3. me.md5 = "none"
    BY <1>0, <2>1 DEF WorkerInv
  <2>4. Md5Inv'
    BY <2>1, <2>2, <2>3, SameMd5
  <2> QED
    BY <2>1, <2>2, <2>4, SingleStep
<1>2. CASE SingleMd5(w)
  <2> DEFINE new == [me EXCEPT !.at = "join", !.crcMd5 = me.second, !.second = None]
  <2>1. /\ me.at = "md5" /\ me.second # None
        /\ single' = [single EXCEPT ![w] = new] /\ UNCHANGED <<job, shut, multi, su, overheat>>
    BY <1>2 DEF SingleMd5
  <2>2. /\ DOMAIN new = DOMAIN IdleSingle /\ new.at = "join" /\ new.md5 = me.md5
        /\ new.crcMd5 = me.second /\ new.second = None /\ new.crc = me.crc /\ new.first = me.first
    BY <1>0
  <2>3. WorkerInv(new)
    BY <1>0, <2>1, <2>2 DEF WorkerInv
  <2>4. Md5Inv'
    BY <2>1, <2>2, SameMd5
  <2> QED
    BY <2>1, <2>2, <2>3, <2>4, SingleStep
<1>3. CASE SingleJoin(w)
  <2> DEFINE new == [me EXCEPT !.at = "send", !.val = me.first \o me.second,
                               !.first = None, !.second = None]
  <2>1. /\ me.at = "join" /\ me.first # None /\ me.second # None
        /\ single' = [single EXCEPT ![w] = new] /\ UNCHANGED <<job, shut, multi, su, overheat>>
    BY <1>3 DEF SingleJoin
  <2>2. /\ DOMAIN new = DOMAIN IdleSingle /\ new.at = "send" /\ new.md5 = me.md5
        /\ new.crcMd5 = me.crcMd5 /\ new.crc = me.crc
    BY <1>0
  <2>3. WorkerInv(new)
    BY <1>0, <2>1, <2>2 DEF WorkerInv
  <2>4. Md5Inv'
    BY <2>1, <2>2, SameMd5
  <2> QED
    BY <2>1, <2>2, <2>3, <2>4, SingleStep
<1>4. CASE SingleSend(w) \/ SingleDone(w)
  <2> DEFINE new(l) == [me EXCEPT !.at = l]
  <2>1. PICK l \in {"close", "done"} :
          /\ me.at \in {"send", "close"}
          /\ single' = [single EXCEPT ![w] = new(l)]
          /\ UNCHANGED <<job, shut, multi, su, overheat>>
    BY <1>4 DEF SingleSend, SingleDone, Ready
  <2>2. /\ DOMAIN new(l) = DOMAIN IdleSingle /\ new(l).at = l /\ new(l).md5 = me.md5
        /\ new(l).crcMd5 = me.crcMd5 /\ new(l).crc = me.crc
    BY <1>0
  <2>3. WorkerInv(new(l))
    BY <1>0, <2>1, <2>2 DEF WorkerInv
  <2>4. Md5Inv'
    BY <2>1, <2>2, SameMd5
  <2> QED
    BY <2>1, <2>2, <2>3, <2>4, SingleStep
<1>5. CASE CrcPut(w)
  <2> DEFINE new == [me EXCEPT !.crc = "done", !.first = <<Crc(me.val)>>]
  <2>1. /\ me.crc = "run" /\ me.first = None
        /\ single' = [single EXCEPT ![w] = new] /\ UNCHANGED <<job, shut, multi, su, overheat>>
    BY <1>5 DEF CrcPut
  <2>2. /\ DOMAIN new = DOMAIN IdleSingle /\ new.at = me.at /\ new.md5 = me.md5
        /\ new.crcMd5 = me.crcMd5 /\ new.second = me.second /\ new.crc = "done"
        /\ new.first # None
    BY <1>0 DEF None
  <2>3. WorkerInv(new)
    BY <1>0, <2>1, <2>2 DEF WorkerInv
  <2>4. Md5Inv'
    BY <2>1, <2>2, SameMd5
  <2> QED
    BY <2>1, <2>2, <2>3, <2>4, SingleStep
<1>6. CASE CrcMd5Put(w)
  <2> DEFINE new == [me EXCEPT !.crcMd5 = None, !.second = <<Crc(me.crcMd5[1])>>]
  <2>1. /\ me.crcMd5 # None /\ me.second = None
        /\ single' = [single EXCEPT ![w] = new] /\ UNCHANGED <<job, shut, multi, su, overheat>>
    BY <1>6 DEF CrcMd5Put
  <2>2. /\ DOMAIN new = DOMAIN IdleSingle /\ new.at = me.at /\ new.md5 = me.md5
        /\ new.crcMd5 = None /\ new.second # None /\ new.crc = me.crc /\ new.first = me.first
    BY <1>0 DEF None
  <2>3. WorkerInv(new)
    BY <1>0, <2>1, <2>2 DEF WorkerInv
  <2>4. Md5Inv'
    BY <2>1, <2>2, SameMd5
  <2> QED
    BY <2>1, <2>2, <2>3, <2>4, SingleStep
<1>7. CASE Md5Put(w)
  <2> DEFINE new == [me EXCEPT !.md5 = "unlock", !.second = <<Md5(me.val)>>]
  <2>1. /\ me.md5 = "put" /\ me.second = None
        /\ single' = [single EXCEPT ![w] = new] /\ UNCHANGED <<job, shut, multi, su, overheat>>
    BY <1>7 DEF Md5Put
  <2>2. /\ DOMAIN new = DOMAIN IdleSingle /\ new.at = me.at /\ new.md5 = "unlock"
        /\ new.crcMd5 = me.crcMd5 /\ new.second # None /\ new.crc = me.crc /\ new.first = me.first
    BY <1>0 DEF None
  <2>3. WorkerInv(new)
    BY <1>0, <2>1, <2>2 DEF WorkerInv
  <2>4. Md5Inv'
    BY <2>1, <2>2, SameMd5
  <2> QED
    BY <2>1, <2>2, <2>3, <2>4, SingleStep
<1>8. ASSUME NEW from, NEW to, Hasher(w, from, to),
             <<from, to>> \in {<<"lock", "overheat">>, <<"overheat", "hash">>,
                               <<"hash", "put">>, <<"unlock", "done">>},
             Md5Inv'
      PROVE  IInv'
  <2> DEFINE new == [me EXCEPT !.md5 = to]
  <2>1. /\ me.md5 = from /\ single' = [single EXCEPT ![w] = new]
        /\ UNCHANGED <<job, shut, multi>>
    BY <1>8 DEF Hasher
  <2>2. /\ DOMAIN new = DOMAIN IdleSingle /\ new.at = me.at /\ new.md5 = to
        /\ new.crcMd5 = me.crcMd5 /\ new.second = me.second /\ new.crc = me.crc
        /\ new.first = me.first
    BY <1>0
  <2>3. WorkerInv(new)
    BY <1>0, <1>8, <2>1, <2>2 DEF WorkerInv
  <2> QED
    BY <1>8, <2>1, <2>2, <2>3, SingleStep
<1>9. ASSUME NEW from, NEW to, Hasher(w, from, to)
      PROVE  /\ me.md5 = from /\ single'[w].md5 = to
             /\ \A v \in W \ {w} : single'[v] = single[v]
  BY <1>0, <1>9 DEF Hasher, IInv, Shape
<1>10. CASE Md5Lock(w)
  <2>1. Md5Inv'
    BY <1>9, <1>10, NobodyIsNoWorker DEF Md5Lock, SuFree, IInv, Md5Inv
  <2> QED
    BY <1>8, <1>10, <2>1 DEF Md5Lock
<1>11. CASE OverheatLock(w)
  <2>1. Md5Inv'
    BY <1>9, <1>11, NobodyIsNoWorker DEF OverheatLock, IInv, Md5Inv
  <2> QED
    BY <1>8, <1>11, <2>1 DEF OverheatLock
<1>12. CASE OverheatUnlock(w)
  <2>1. Md5Inv'
    BY <1>9, <1>12, NobodyIsNoWorker DEF OverheatUnlock, IInv, Md5Inv
  <2> QED
    BY <1>8, <1>12, <2>1 DEF OverheatUnlock
<1>13. CASE Md5Unlock(w)
  <2>1. Md5Inv'
    BY <1>9, <1>13, NobodyIsNoWorker DEF Md5Unlock, IInv, Md5Inv
  <2> QED
    BY <1>8, <1>13, <2>1 DEF Md5Unlock
<1> QED
  BY <1>1, <1>2, <1>3, <1>4, <1>5, <1>6, <1>7, <1>10, <1>11, <1>12, <1>13 DEF SingleWorker

-----------------------------------------------------------------------------
(* A step that changes one worker of MultiHash. *)
LEMMA MultiStep ==
  ASSUME IInv, NEW w \in W, NEW worker,
         multi' = [multi EXCEPT ![w] = worker],
         UNCHANGED <<job, shut, single, su, overheat>>,
         DOMAIN worker = DOMAIN IdleMulti,
         worker.at \in {"collect", "close", "done"},
         worker.at \in {"collect", "close"} =>
           multi[w].at \in {"collect", "close"} \/ job[MultiHash] = "run",
         worker.at # "collect" => worker.calc = {}
  PROVE  IInv'
<1>1. multi'[w] = worker /\ \A v \in W \ {w} : multi'[v] = multi[v]
  BY DEF IInv, Shape
<1>2. Shape'
  BY <1>1 DEF IInv, Shape
<1>3. StageInv'
  BY <1>1 DEF IInv, StageInv
<1>4. Md5Inv' /\ \A v \in W : WorkerInv(single'[v])
  BY DEF IInv, Md5Inv
<1> QED
  BY <1>2, <1>3, <1>4 DEF IInv

LEMMA MultiWorkerStep == ASSUME IInv, NEW w \in W, MultiWorker(w) PROVE IInv'
<1> USE DEF OnlyMulti, jobVars, md5Vars
<1> DEFINE me == multi[w]
<1>0. /\ DOMAIN me = DOMAIN IdleMulti
      /\ DOMAIN IdleMulti = {"at", "val", "calc", "res", "result"}
      /\ me.at \in {"none", "collect", "close", "done"}
      /\ me.at # "collect" => me.calc = {}
  BY DEF IInv, Shape, StageInv, IdleMulti
<1>1. CASE MultiRecv(w)
  <2> DEFINE new == [IdleMulti EXCEPT !.at = "collect", !.calc = Th, !.val = ch[SingleHash][1]]
  <2>1. DOMAIN new = DOMAIN IdleMulti /\ new.at = "collect"
    BY DEF IdleMulti
  <2> QED
    BY <1>1, <2>1, MultiStep DEF MultiRecv
<1>2. ASSUME NEW th \in Th, MultiPut(w, th) PROVE IInv'
  <2> DEFINE new == [me EXCEPT !.calc = @ \ {th},
                        !.res = Append(@, [id |-> th, data |-> Crc(<<th, me.val>>)])]
  <2>1. th \in me.calc /\ multi' = [multi EXCEPT ![w] = new]
    BY <1>2 DEF MultiPut
  <2>2. DOMAIN new = DOMAIN IdleMulti /\ new.at = me.at /\ new.calc = me.calc \ {th}
    BY <1>0
  <2>3. me.at = "collect"
    BY <1>0, <2>1
  <2> QED
    BY <1>0, <1>2, <2>1, <2>2, <2>3, MultiStep DEF MultiPut
<1>3. CASE MultiCollect(w)
  <2> DEFINE new == [me EXCEPT !.result[Slot(me)] = Head(me.res).data, !.res = Tail(@)]
  <2>1. me.at = "collect" /\ multi' = [multi EXCEPT ![w] = new]
    BY <1>3 DEF MultiCollect
  <2>2. DOMAIN new = DOMAIN IdleMulti /\ new.at = me.at
    BY <1>0
  <2> QED
    BY <1>3, <2>1, <2>2, MultiStep DEF MultiCollect
<1>4. CASE MultiSend(w)
  <2> DEFINE new == [me EXCEPT !.at = "close"]
  <2>1. me.at = "collect" /\ me.calc = {} /\ multi' = [multi EXCEPT ![w] = new]
    BY <1>4 DEF MultiSend
  <2>2. DOMAIN new = DOMAIN IdleMulti /\ new.at = "close" /\ new.calc = me.calc
    BY <1>0
  <2> QED
    BY <1>4, <2>1, <2>2, MultiStep DEF MultiSend
<1>5. CASE MultiDone(w)
  <2> DEFINE new == [me EXCEPT !.at = "done"]
  <2>1. me.at = "close" /\ multi' = [multi EXCEPT ![w] = new]
    BY <1>5 DEF MultiDone
  <2>2. DOMAIN new = DOMAIN IdleMulti /\ new.at = "done" /\ new.calc = me.calc
    BY <1>0
  <2> QED
    BY <1>0, <1>5, <2>1, <2>2, MultiStep DEF MultiDone
<1> QED
  BY <1>1, <1>2, <1>3, <1>4, <1>5 DEF MultiWorker

-----------------------------------------------------------------------------
LEMMA NextIInv == IInv /\ [Next]_vars => IInv'
<1> SUFFICES ASSUME IInv, [Next]_vars PROVE IInv'
  OBVIOUS
<1>1. CASE UNCHANGED vars
  BY <1>1 DEF vars, jobVars, md5Vars, IInv, Shape, Md5Inv, StageInv, WorkerInv
<1> QED
  BY <1>1, SourceStep, StageStep, SingleWorkerStep, MultiWorkerStep DEF Next

(* The inductive invariant of the pipeline. *)
THEOREM Invariance == Spec => []IInv
BY InitIInv, NextIInv, PTL DEF Spec

(* However many values are hashed, no two goroutines compute MD5 at once,  *)
(* and the overheat lock never makes one wait (getMd5, DataSignerMd5).     *)
THEOREM Md5Exclusion == Spec => []NoOverheat
<1>1. IInv => NoOverheat
  BY NobodyIsNoWorker DEF IInv, Md5Inv, NoOverheat
<1> QED
  BY <1>1, Invariance, PTL

(* However many values are hashed, no goroutine of SingleHash or MultiHash *)
(* finds its channel closed when it sends.                                 *)
THEOREM CloseAfterSend == Spec => []NoSendOnClosed
<1>1. IInv => NoSendOnClosed
  BY JobsDiffer DEF IInv, StageInv, WorkerInv, NoSendOnClosed
<1> QED
  BY <1>1, Invariance, PTL
-----------------------------------------------------------------------------
(* No value is lost or doubled.  The counts of NothingLost are the sizes   *)
(* of these sets; each action changes one of them, and one buffer, by one. *)
Begun(workers) == {w \in W : workers[w].at # "none"}
Ended(workers) == {w \in W : workers[w].at \in {"close", "done"}}

Lengths ==
  /\ next - 1 = Len(ch[Source]) + Cardinality(Begun(single))
  /\ Cardinality(Ended(single)) = Len(ch[SingleHash]) + Cardinality(Begun(multi))
  /\ Cardinality(Ended(multi)) = Len(ch[MultiHash]) + Len(combined)

LEMMA LengthsAreCounts == NothingLost <=> Lengths
BY DEF NothingLost, Lengths, Count, Begun, Ended

(* A channel holds nothing or one value. *)
Buffers ==
  /\ next \in Nat
  /\ DOMAIN ch = Job
  /\ \A k \in Job : ch[k] = None \/ \E v : ch[k] = <<v>>
  /\ \E T : combined \in Seq(T)

Flow == Buffers /\ Lengths

LEMMA WorkersAreFinite ==
  /\ IsFiniteSet(W)
  /\ \A S \in SUBSET W : IsFiniteSet(S) /\ Cardinality(S) \in Nat
<1>1. IsFiniteSet(W)
  BY SignerAssumption, FS_Interval DEF W
<1> QED
  BY <1>1, FS_Subset, FS_CardinalityType

LEMMA OneMore ==
  ASSUME NEW S \in SUBSET W, NEW w \in W \ S
  PROVE  Cardinality(S \cup {w}) = Cardinality(S) + 1
BY WorkersAreFinite, FS_AddElement

LEMMA BufferLengths == Len(None) = 0 /\ \A v : Len(<<v>>) = 1 /\ <<v>> # None
BY DEF None

LEMMA SetsAreFinite ==
  /\ Cardinality(Begun(single)) \in Nat /\ Cardinality(Ended(single)) \in Nat
  /\ Cardinality(Begun(multi)) \in Nat /\ Cardinality(Ended(multi)) \in Nat
BY WorkersAreFinite DEF Begun, Ended

LEMMA InitFlow == Init => Flow
<1> SUFFICES ASSUME Init PROVE Flow
  OBVIOUS
<1>1. Begun(single) = {} /\ Ended(single) = {} /\ Begun(multi) = {} /\ Ended(multi) = {}
  BY DEF Init, Begun, Ended, IdleSingle, IdleMulti
<1>2. Lengths
  <2>1. /\ Len(ch[Source]) = 0 /\ Len(ch[SingleHash]) = 0 /\ Len(ch[MultiHash]) = 0
        /\ Len(combined) = 0 /\ next = 1
    BY BufferLengths, JobsDiffer DEF Init
  <2>2. Cardinality({}) = 0
    BY FS_EmptySet
  <2> QED
    BY <1>1, <2>1, <2>2 DEF Lengths
<1>3. Buffers
  <2>1. combined \in Seq({})
    BY EmptySeq DEF Init, None
  <2> QED
    BY <2>1 DEF Init, Buffers
<1> QED
  BY <1>2, <1>3 DEF Flow

-----------------------------------------------------------------------------
(* A step that stays at its place, or moves between places that the counts *)
(* do not tell apart, and sends and receives nothing.                      *)
LEMMA SilentStep ==
  ASSUME Flow, UNCHANGED <<ch, next, combined>>,
         Begun(single') = Begun(single), Ended(single') = Ended(single),
         Begun(multi') = Begun(multi), Ended(multi') = Ended(multi)
  PROVE  Flow'
BY DEF Flow, Buffers, Lengths

LEMMA StageFlow == ASSUME IInv, Flow, Stage \/ SourceSend PROVE Flow'
<1> USE DEF jobVars, md5Vars
<1>1. CASE SourceSend
  <2>1. /\ next' = next + 1 /\ ch[Source] = None /\ ch' = [ch EXCEPT ![Source] = <<Input[next]>>]
        /\ UNCHANGED <<combined, single, multi>>
    BY <1>1 DEF SourceSend, Send
  <2>2. Buffers'
    BY <2>1, JobsDiffer DEF Flow, Buffers
  <2>3. /\ ch'[Source] = <<Input[next]>> /\ ch'[SingleHash] = ch[SingleHash]
        /\ ch'[MultiHash] = ch[MultiHash]
    BY <2>1, JobsDiffer DEF Flow, Buffers
  <2>4. Lengths'
    <3>1. Len(ch[Source]) = 0 /\ Len(ch'[Source]) = 1
      BY <2>1, <2>3, BufferLengths
    <3>2. Begun(single') = Begun(single) /\ Ended(single') = Ended(single)
          /\ Begun(multi') = Begun(multi) /\ Ended(multi') = Ended(multi)
      BY <2>1
    <3>3. next \in Nat
      BY DEF Flow, Buffers
    <3>4. next - 1 = Cardinality(Begun(single)) /\ next' = next + 1
      BY <2>1, <3>1, SetsAreFinite DEF Flow, Lengths
    <3>5. next' - 1 = Len(ch'[Source]) + Cardinality(Begun(single'))
      BY <3>1, <3>2, <3>3, <3>4, SetsAreFinite
    <3>6. Cardinality(Ended(single')) = Len(ch'[SingleHash]) + Cardinality(Begun(multi'))
      BY <2>3, <3>2 DEF Flow, Lengths
    <3>7. Cardinality(Ended(multi')) = Len(ch'[MultiHash]) + Len(combined')
      BY <2>1, <2>3, <3>2 DEF Flow, Lengths
    <3> QED
      BY <3>5, <3>6, <3>7 DEF Lengths
  <2> QED
    BY <2>2, <2>4 DEF Flow
<1>2. CASE CombineRecv
  <2>1. /\ ch[MultiHash] # None /\ ch' = [ch EXCEPT ![MultiHash] = None]
        /\ combined' = combined \o ch[MultiHash]
        /\ UNCHANGED <<next, single, multi>>
    BY <1>2 DEF CombineRecv, HasValue, Recv, CombineResults, MultiHash
  <2>2. PICK v : ch[MultiHash] = <<v>>
    BY <2>1, JobsDiffer DEF Flow, Buffers
  <2>3. PICK T : combined \in Seq(T)
    BY DEF Flow, Buffers
  <2>4. combined' \in Seq(T \cup {v}) /\ Len(combined') = Len(combined) + 1
        /\ Len(combined) \in Nat
    <3>1. combined \in Seq(T \cup {v})
      BY <2>3, SeqMonotonic
    <3>2. <<v>> \in Seq(T \cup {v}) /\ Len(<<v>>) = 1
      OBVIOUS
    <3> QED
      BY <2>1, <2>2, <3>1, <3>2, ConcatProperties, LenProperties
  <2>5. Buffers'
    BY <2>1, <2>4 DEF Flow, Buffers
  <2>6. ch'[MultiHash] = None /\ ch'[Source] = ch[Source] /\ ch'[SingleHash] = ch[SingleHash]
    BY <2>1, JobsDiffer DEF Flow, Buffers
  <2>7. Lengths'
    <3>1. Len(ch[MultiHash]) = 1 /\ Len(ch'[MultiHash]) = 0
      BY <2>2, <2>6, BufferLengths
    <3>2. Begun(single') = Begun(single) /\ Ended(single') = Ended(single)
          /\ Begun(multi') = Begun(multi) /\ Ended(multi') = Ended(multi)
      BY <2>1
    <3>3. next' - 1 = Len(ch'[Source]) + Cardinality(Begun(single'))
      BY <2>1, <2>6, <3>2 DEF Flow, Lengths
    <3>4. Cardinality(Ended(single')) = Len(ch'[SingleHash]) + Cardinality(Begun(multi'))
      BY <2>6, <3>2 DEF Flow, Lengths
    <3>5. Cardinality(Ended(multi)) = 1 + Len(combined)
      BY <3>1 DEF Flow, Lengths
    <3>6. Cardinality(Ended(multi')) = Len(ch'[MultiHash]) + Len(combined')
      BY <2>4, <3>1, <3>2, <3>5
    <3> QED
      BY <3>3, <3>4, <3>6 DEF Lengths
  <2> QED
    BY <2>5, <2>7 DEF Flow
<1>3. CASE CombineSend \/ SinkRecv
  <2>1. /\ \/ ch' = [ch EXCEPT ![CombineResults] = None]
           \/ \E v : ch' = [ch EXCEPT ![CombineResults] = <<v>>]
        /\ UNCHANGED <<combined, next, single, multi>>
    BY <1>3 DEF CombineSend, SinkRecv, Send, Recv, Sink, CombineResults
  <2>2. Buffers'
    BY <2>1 DEF Flow, Buffers
  <2>3. /\ ch'[Source] = ch[Source] /\ ch'[SingleHash] = ch[SingleHash]
        /\ ch'[MultiHash] = ch[MultiHash]
    BY <2>1, JobsDiffer DEF Flow, Buffers, CombineResults, Source, SingleHash, MultiHash
  <2>4. Lengths'
    BY <2>1, <2>3 DEF Flow, Lengths
  <2> QED
    BY <2>2, <2>4 DEF Flow
<1>4. CASE SourceReturn \/ \E k \in Job : RangeEnds(k) \/ WaitEnds(k) \/ CloseOut(k)
  <2>1. UNCHANGED <<ch, next, combined, single, multi>>
    BY <1>4 DEF SourceReturn, RangeEnds, WaitEnds, CloseOut
  <2> QED
    BY <2>1, SilentStep
<1> QED
  BY <1>1, <1>2, <1>3, <1>4 DEF Stage

(* A stage's worker takes a value out of a buffer, or puts one into it. *)
LEMMA SingleFlow == ASSUME IInv, Flow, NEW w \in W, SingleWorker(w) PROVE Flow'
<1> USE DEF jobVars, md5Vars
<1>0. DOMAIN single = W /\ DOMAIN single[w] = DOMAIN IdleSingle /\ "at" \in DOMAIN IdleSingle
  BY DEF IInv, Shape, IdleSingle
<1>1. CASE SingleRecv(w)
  <2> DEFINE new == [IdleSingle EXCEPT !.at = "md5", !.crc = "run", !.md5 = "lock",
                                       !.val = ch[Source][1]]
  <2>1. /\ single[w].at = "none" /\ single' = [single EXCEPT ![w] = new]
        /\ ch[Source] # None /\ ch' = [ch EXCEPT ![Source] = None]
        /\ UNCHANGED <<next, combined, multi>>
    BY <1>1 DEF SingleRecv, Fresh, HasValue, Recv, SingleHash, Source
  <2>2. new.at = "md5"
    BY DEF IdleSingle
  <2>3. /\ w \notin Begun(single) /\ Begun(single') = Begun(single) \cup {w}
        /\ Ended(single') = Ended(single)
    <3>1. single'[w].at = new.at /\ \A v \in W \ {w} : single'[v] = single[v]
      BY <1>0, <2>1
    <3> QED
      BY <2>1, <2>2, <3>1 DEF Begun, Ended
  <2>4. Cardinality(Begun(single')) = Cardinality(Begun(single)) + 1
    BY <2>3, OneMore DEF Begun
  <2>5. Buffers'
    BY <2>1 DEF Flow, Buffers
  <2>6. /\ ch'[Source] = None /\ ch'[SingleHash] = ch[SingleHash]
        /\ ch'[MultiHash] = ch[MultiHash] /\ Len(ch[Source]) = 1
    BY <2>1, JobsDiffer, BufferLengths DEF Flow, Buffers
  <2>7. Lengths'
    BY <2>1, <2>3, <2>4, <2>6, BufferLengths, SetsAreFinite DEF Flow, Lengths
  <2> QED
    BY <2>5, <2>7 DEF Flow
<1>2. CASE SingleSend(w)
  <2> DEFINE new == [single[w] EXCEPT !.at = "close"]
  <2>1. /\ single[w].at = "send" /\ single' = [single EXCEPT ![w] = new]
        /\ ch[SingleHash] = None /\ ch' = [ch EXCEPT ![SingleHash] = <<single[w].val>>]
        /\ UNCHANGED <<next, combined, multi>>
    BY <1>2 DEF SingleSend, Ready, Send, Only
  <2>2. new.at = "close"
    BY <1>0
  <2>3. /\ w \notin Ended(single) /\ Ended(single') = Ended(single) \cup {w}
        /\ Begun(single') = Begun(single)
    <3>1. single'[w].at = new.at /\ \A v \in W \ {w} : single'[v] = single[v]
      BY <1>0, <2>1
    <3> QED
      BY <2>1, <2>2, <3>1 DEF Begun, Ended
  <2>4. Cardinality(Ended(single')) = Cardinality(Ended(single)) + 1
    BY <2>3, OneMore DEF Ended
  <2>5. Buffers'
    BY <2>1 DEF Flow, Buffers
  <2>6. /\ ch'[SingleHash] = <<single[w].val>> /\ ch'[Source] = ch[Source]
        /\ ch'[MultiHash] = ch[MultiHash]
    BY <2>1, JobsDiffer DEF Flow, Buffers
  <2>7. Lengths'
    BY <2>1, <2>3, <2>4, <2>6, BufferLengths, SetsAreFinite DEF Flow, Lengths
  <2> QED
    BY <2>5, <2>7 DEF Flow
<1>3. ASSUME NEW worker, Only(w, worker), UNCHANGED ch,
             worker.at = "none" <=> single[w].at = "none",
             worker.at \in {"close", "done"} <=> single[w].at \in {"close", "done"}
      PROVE  Flow'
  <2>1. single' = [single EXCEPT ![w] = worker] /\ UNCHANGED <<ch, next, combined, multi>>
    BY <1>3 DEF Only
  <2>2. Begun(single') = Begun(single) /\ Ended(single') = Ended(single)
    <3>1. single'[w].at = worker.at /\ \A v \in W \ {w} : single'[v] = single[v]
      BY <1>0, <2>1
    <3> QED
      BY <1>3, <3>1 DEF Begun, Ended
  <2> QED
    BY <2>1, <2>2, SilentStep
<1>4. CASE SingleMd5(w)
  <2> DEFINE new == [single[w] EXCEPT !.at = "join", !.crcMd5 = single[w].second, !.second = None]
  <2>1. single[w].at = "md5" /\ Only(w, new) /\ UNCHANGED ch /\ new.at = "join"
    BY <1>0, <1>4 DEF SingleMd5
  <2> QED
    BY <1>3, <2>1
<1>5. CASE SingleJoin(w)
  <2> DEFINE new == [single[w] EXCEPT !.at = "send", !.val = single[w].first \o single[w].second,
                                      !.first = None, !.second = None]
  <2>1. single[w].at = "join" /\ Only(w, new) /\ UNCHANGED ch /\ new.at = "send"
    BY <1>0, <1>5 DEF SingleJoin
  <2> QED
    BY <1>3, <2>1
<1>6. CASE SingleDone(w)
  <2> DEFINE new == [single[w] EXCEPT !.at = "done"]
  <2>1. single[w].at = "close" /\ Only(w, new) /\ UNCHANGED ch /\ new.at = "done"
    BY <1>0, <1>6 DEF SingleDone
  <2> QED
    BY <1>3, <2>1
<1>7. CASE CrcPut(w)
  <2> DEFINE new == [single[w] EXCEPT !.crc = "done", !.first = <<Crc(single[w].val)>>]
  <2>1. Only(w, new) /\ UNCHANGED ch /\ new.at = single[w].at
    BY <1>0, <1>7 DEF CrcPut
  <2> QED
    BY <1>3, <2>1
<1>8. CASE CrcMd5Put(w)
  <2> DEFINE new == [single[w] EXCEPT !.crcMd5 = None, !.second = <<Crc(single[w].crcMd5[1])>>]
  <2>1. Only(w, new) /\ UNCHANGED ch /\ new.at = single[w].at
    BY <1>0, <1>8 DEF CrcMd5Put
  <2> QED
    BY <1>3, <2>1
<1>9. CASE Md5Put(w)
  <2> DEFINE new == [single[w] EXCEPT !.md5 = "unlock", !.second = <<Md5(single[w].val)>>]
  <2>1. Only(w, new) /\ UNCHANGED ch /\ new.at = single[w].at
    BY <1>0, <1>9 DEF Md5Put
  <2> QED
    BY <1>3, <2>1
<1>10. ASSUME NEW from, NEW to, Hasher(w, from, to), UNCHANGED ch PROVE Flow'
  <2> DEFINE new == [single[w] EXCEPT !.md5 = to]
  <2>1. Only(w, new) /\ UNCHANGED ch /\ new.at = single[w].at
    BY <1>0, <1>10 DEF Hasher
  <2> QED
    BY <1>3, <2>1
<1>11. CASE Md5Lock(w) \/ OverheatLock(w) \/ OverheatUnlock(w) \/ Md5Unlock(w)
  BY <1>10, <1>11 DEF Md5Lock, OverheatLock, OverheatUnlock, Md5Unlock
<1> QED
  BY <1>1, <1>2, <1>4, <1>5, <1>6, <1>7, <1>8, <1>9, <1>11 DEF SingleWorker

LEMMA MultiFlow == ASSUME IInv, Flow, NEW w \in W, MultiWorker(w) PROVE Flow'
<1> USE DEF jobVars, md5Vars
<1>0. DOMAIN multi = W /\ DOMAIN multi[w] = DOMAIN IdleMulti /\ "at" \in DOMAIN IdleMulti
  BY DEF IInv, Shape, IdleMulti
<1>1. CASE MultiRecv(w)
  <2> DEFINE new == [IdleMulti EXCEPT !.at = "collect", !.calc = Th, !.val = ch[SingleHash][1]]
  <2>1. /\ multi[w].at = "none" /\ multi' = [multi EXCEPT ![w] = new]
        /\ ch[SingleHash] # None /\ ch' = [ch EXCEPT ![SingleHash] = None]
        /\ UNCHANGED <<next, combined, single>>
    BY <1>1 DEF MultiRecv, Fresh, HasValue, Recv, SingleHash, MultiHash
  <2>2. new.at = "collect"
    BY DEF IdleMulti
  <2>3. /\ w \notin Begun(multi) /\ Begun(multi') = Begun(multi) \cup {w}
        /\ Ended(multi') = Ended(multi)
    <3>1. multi'[w].at = new.at /\ \A v \in W \ {w} : multi'[v] = multi[v]
      BY <1>0, <2>1
    <3> QED
      BY <2>1, <2>2, <3>1 DEF Begun, Ended
  <2>4. Cardinality(Begun(multi')) = Cardinality(Begun(multi)) + 1
    BY <2>3, OneMore DEF Begun
  <2>5. Buffers'
    BY <2>1 DEF Flow, Buffers
  <2>6. /\ ch'[SingleHash] = None /\ ch'[Source] = ch[Source]
        /\ ch'[MultiHash] = ch[MultiHash] /\ Len(ch[SingleHash]) = 1
    BY <2>1, JobsDiffer, BufferLengths DEF Flow, Buffers
  <2>7. Lengths'
    BY <2>1, <2>3, <2>4, <2>6, BufferLengths, SetsAreFinite DEF Flow, Lengths
  <2> QED
    BY <2>5, <2>7 DEF Flow
<1>2. CASE MultiSend(w)
  <2> DEFINE new == [multi[w] EXCEPT !.at = "close"]
  <2>1. /\ multi[w].at = "collect" /\ multi' = [multi EXCEPT ![w] = new]
        /\ ch[MultiHash] = None /\ ch' = [ch EXCEPT ![MultiHash] = <<multi[w].result>>]
        /\ UNCHANGED <<next, combined, single>>
    BY <1>2 DEF MultiSend, Send, OnlyMulti
  <2>2. new.at = "close"
    BY <1>0
  <2>3. /\ w \notin Ended(multi) /\ Ended(multi') = Ended(multi) \cup {w}
        /\ Begun(multi') = Begun(multi)
    <3>1. multi'[w].at = new.at /\ \A v \in W \ {w} : multi'[v] = multi[v]
      BY <1>0, <2>1
    <3> QED
      BY <2>1, <2>2, <3>1 DEF Begun, Ended
  <2>4. Cardinality(Ended(multi')) = Cardinality(Ended(multi)) + 1
    BY <2>3, OneMore DEF Ended
  <2>5. Buffers'
    BY <2>1 DEF Flow, Buffers
  <2>6. /\ ch'[MultiHash] = <<multi[w].result>> /\ ch'[Source] = ch[Source]
        /\ ch'[SingleHash] = ch[SingleHash]
    BY <2>1, JobsDiffer DEF Flow, Buffers
  <2>8. PICK T : combined \in Seq(T)
    BY DEF Flow, Buffers
  <2>9. Len(combined) \in Nat
    BY <2>8, LenProperties
  <2>7. Lengths'
    <3>1. Len(ch[MultiHash]) = 0 /\ Len(ch'[MultiHash]) = 1
      BY <2>1, <2>6, BufferLengths
    <3>2. Begun(single') = Begun(single) /\ Ended(single') = Ended(single)
      BY <2>1
    <3>3. next' - 1 = Len(ch'[Source]) + Cardinality(Begun(single'))
      BY <2>1, <2>6, <3>2 DEF Flow, Lengths
    <3>4. Cardinality(Ended(single')) = Len(ch'[SingleHash]) + Cardinality(Begun(multi'))
      BY <2>3, <2>6, <3>2 DEF Flow, Lengths
    <3>5. Cardinality(Ended(multi)) = Len(combined)
      BY <2>9, <3>1, SetsAreFinite DEF Flow, Lengths
    <3>6. Cardinality(Ended(multi')) = Len(ch'[MultiHash]) + Len(combined')
      BY <2>1, <2>4, <2>9, <3>1, <3>5
    <3> QED
      BY <3>3, <3>4, <3>6 DEF Lengths
  <2> QED
    BY <2>5, <2>7 DEF Flow
<1>3. ASSUME NEW worker, OnlyMulti(w, worker), UNCHANGED ch,
             worker.at = "none" <=> multi[w].at = "none",
             worker.at \in {"close", "done"} <=> multi[w].at \in {"close", "done"}
      PROVE  Flow'
  <2>1. multi' = [multi EXCEPT ![w] = worker] /\ UNCHANGED <<ch, next, combined, single>>
    BY <1>3 DEF OnlyMulti
  <2>2. Begun(multi') = Begun(multi) /\ Ended(multi') = Ended(multi)
    <3>1. multi'[w].at = worker.at /\ \A v \in W \ {w} : multi'[v] = multi[v]
      BY <1>0, <2>1
    <3> QED
      BY <1>3, <3>1 DEF Begun, Ended
  <2> QED
    BY <2>1, <2>2, SilentStep
<1>4. ASSUME NEW th \in Th, MultiPut(w, th) PROVE Flow'
  <2> DEFINE new == [multi[w] EXCEPT !.calc = @ \ {th},
                       !.res = Append(@, [id |-> th, data |-> Crc(<<th, multi[w].val>>)])]
  <2>1. OnlyMulti(w, new) /\ UNCHANGED ch
    BY <1>4 DEF MultiPut
  <2>2. new.at = multi[w].at
    BY <1>0
  <2> QED
    BY <1>3, <2>1, <2>2
<1>5. CASE MultiCollect(w)
  <2> DEFINE new == [multi[w] EXCEPT !.result[Slot(multi[w])] = Head(multi[w].res).data, !.res = Tail(@)]
  <2>1. OnlyMulti(w, new) /\ UNCHANGED ch
    BY <1>5 DEF MultiCollect
  <2>2. new.at = multi[w].at
    BY <1>0
  <2> QED
    BY <1>3, <2>1, <2>2
<1>6. CASE MultiDone(w)
  <2> DEFINE new == [multi[w] EXCEPT !.at = "done"]
  <2>1. multi[w].at = "close" /\ OnlyMulti(w, new) /\ UNCHANGED ch /\ new.at = "done"
    BY <1>0, <1>6 DEF MultiDone
  <2> QED
    BY <1>3, <2>1
<1> QED
  BY <1>1, <1>2, <1>4, <1>5, <1>6 DEF MultiWorker

LEMMA NextFlow == IInv /\ Flow /\ [Next]_vars => Flow'
<1> SUFFICES ASSUME IInv, Flow, [Next]_vars PROVE Flow'
  OBVIOUS
<1>1. CASE UNCHANGED vars
  <2>1. UNCHANGED <<ch, next, combined, single, multi>>
    BY <1>1 DEF vars, jobVars
  <2> QED
    BY <2>1, SilentStep
<1> QED
  BY <1>1, StageFlow, SingleFlow, MultiFlow DEF Next

(* However many values go through the pipeline, each stage has taken what  *)
(* the one before has sent, but for the value in the channel between them  *)
(* (SingleHash, MultiHash, CombineResults).                                *)
THEOREM EveryValueFlows == Spec => []NothingLost
<1>1. Spec => []Flow
  BY InitFlow, NextFlow, Invariance, PTL DEF Spec
<1>2. Flow => NothingLost
  BY LengthsAreCounts DEF Flow
<1> QED
  BY <1>1, <1>2, PTL
-----------------------------------------------------------------------------
(***************************************************************************)
(* The answer.  What a value has become at each point of its way is known  *)
(* from the input it came from; what remains is that no two values meet on *)
(* that way, and that all have arrived when CombineResults sends.          *)
(***************************************************************************)
(* What SingleHash and MultiHash make of the w-th value. *)
Hashed(w) == <<Crc(Input[w]), Crc(Md5(Input[w]))>>
Hashes(w) == [th \in Th |-> Crc(<<th, Hashed(w)>>)]

(* The w-th worker of SingleHash has the w-th value, and its buffers hold  *)
(* that value's hashes.                                                    *)
SingleOK(w, me) ==
  /\ me.at = "none" => me.crc = "none" /\ me.crcMd5 = None
  /\ me.at \in {"md5", "join"} => me.val = Input[w] /\ me.first \in {None, <<Crc(Input[w])>>}
  /\ me.at = "md5" => me.second \in {None, <<Md5(Input[w])>>}
  /\ me.at = "join" => /\ me.crcMd5 \in {None, <<Md5(Input[w])>>}
                       /\ me.second \in {None, <<Crc(Md5(Input[w]))>>}
  /\ me.at = "send" => me.val = Hashed(w)

(* The source's values are taken in their order. *)
SourceOK ==
  /\ next \in 1 .. Len(Input) + 1
  /\ \/ ch[Source] = None /\ \A w \in W : single[w].at = "none" <=> next <= w
     \/ /\ next - 1 \in W /\ ch[Source] = <<Input[next - 1]>>
        /\ \A w \in W : single[w].at = "none" <=> next - 1 <= w

(* Each hash of a value of MultiHash is to come, on its way or in place.   *)
Found(val) == {[id |-> th, data |-> Crc(<<th, val>>)] : th \in Th}
MultiOK(me) ==
  me.at = "collect" =>
    /\ me.res \in Seq(Found(me.val))
    /\ me.result = [th \in Th |-> me.result[th]]
    /\ \A th \in Th : \/ th \in me.calc \/ me.result[th] = Crc(<<th, me.val>>)
                      \/ \E i \in 1 .. Len(me.res) : me.res[i].id = th

(* A stage ends after the one before it, and leaves nothing behind.        *)
InOrder ==
  /\ job[Source] # "run" => next \notin W
  /\ job[SingleHash] # "run" => job[Source] = "done" /\ ch[Source] = None
  /\ job[SingleHash] \in {"return", "done"} => \A w \in W : single[w].at \in {"none", "done"}
  /\ job[MultiHash] # "run" => job[SingleHash] = "done" /\ ch[SingleHash] = None
  /\ job[MultiHash] \in {"return", "done"} => \A w \in W : multi[w].at \in {"none", "done"}
  /\ job[CombineResults] # "run" => job[MultiHash] = "done" /\ ch[MultiHash] = None

(* Where the values are, each at its stage and, where a stage has many, at *)
(* its number there: a worker of MultiHash, a place in combined.           *)
Placed(w, a, n) ==
  /\ a = "single" <=> single[w].at \notin {"close", "done"}
  /\ a = "toMulti" => n = 0 /\ ch[SingleHash] = <<Hashed(w)>>
  /\ a = "multi" => n \in W /\ multi[n].at = "collect" /\ multi[n].val = Hashed(w)
  /\ a = "toCombine" => n = 0 /\ ch[MultiHash] = <<Hashes(w)>>
  /\ a = "combined" => n \in 1 .. Len(combined) /\ combined[n] = Hashes(w)

Filled(at, no) ==
  /\ ch[SingleHash] # None => \E w \in W : at[w] = "toMulti"
  /\ \A m \in W : multi[m].at = "collect" => \E w \in W : at[w] = "multi" /\ no[w] = m
  /\ ch[MultiHash] # None => \E w \in W : at[w] = "toCombine"
  /\ \A i \in 1 .. Len(combined) : \E w \in W : at[w] = "combined" /\ no[w] = i

Apart(at, no) == \A v, w \in W : at[v] = at[w] /\ no[v] = no[w] /\ at[v] # "single" => v = w

Tracks(at, no) ==
  /\ at \in [W -> {"single", "toMulti", "multi", "toCombine", "combined"}] /\ no \in [W -> Nat]
  /\ \A w \in W : Placed(w, at[w], no[w])
  /\ Apart(at, no) /\ Filled(at, no)

(* The answer waits for the sink, or is there.                             *)
Answered ==
  IF job[CombineResults] = "run" THEN ch[CombineResults] = None /\ job[Sink] = "run"
  ELSE IF job[Sink] = "run" THEN ch[CombineResults] = <<Expected>>
  ELSE answer = <<Expected>>

AnswerIInv ==
  /\ \A w \in W : SingleOK(w, single[w]) /\ MultiOK(multi[w])
  /\ SourceOK /\ InOrder /\ Answered
  /\ \E at, no : Tracks(at, no)

LEMMA PairIs == ASSUME NEW a, NEW b PROVE <<a>> \o <<b>> = <<a, b>>
<1> DEFINE S == {a, b}
<1>1. <<a>> \in Seq(S) /\ <<b>> \in Seq(S) /\ Len(<<a>>) = 1 /\ Len(<<b>>) = 1
  OBVIOUS
<1>2. /\ <<a>> \o <<b>> \in Seq(S) /\ Len(<<a>> \o <<b>>) = 2
      /\ (<<a>> \o <<b>>)[1] = a /\ (<<a>> \o <<b>>)[2] = b
  BY <1>1, ConcatProperties
<1>3. <<a, b>> \in Seq(S) /\ Len(<<a, b>>) = 2
  OBVIOUS
<1>4. \A i \in 1 .. 2 : (<<a>> \o <<b>>)[i] = <<a, b>>[i]
  <2>1. \A i \in 1 .. 2 : i = 1 \/ i = 2
    OBVIOUS
  <2> QED
    BY <1>2, <2>1
<1> QED
  BY <1>2, <1>3, <1>4, SeqEqual

LEMMA InitAnswer == Init => AnswerIInv
<1> SUFFICES ASSUME Init PROVE AnswerIInv
  OBVIOUS
<1>1. \A w \in W : SingleOK(w, single[w]) /\ MultiOK(multi[w])
  BY DEF Init, SingleOK, MultiOK, IdleSingle, IdleMulti
<1>2. SourceOK
  BY JobsDiffer, SignerAssumption DEF Init, SourceOK, IdleSingle, W
<1>3. InOrder /\ Answered
  BY JobsDiffer DEF Init, InOrder, Answered
<1>4. Tracks([w \in W |-> "single"], [w \in W |-> 0])
  <2>1. ch[SingleHash] = None /\ ch[MultiHash] = None /\ Len(combined) = 0
    BY JobsDiffer, BufferLengths DEF Init
  <2>2. \A w \in W : single[w].at = "none" /\ multi[w].at = "none"
    BY DEF Init, IdleSingle, IdleMulti
  <2> QED
    BY <2>1, <2>2 DEF Tracks, Placed, Apart, Filled
<1> QED
  BY <1>1, <1>2, <1>3, <1>4 DEF AnswerIInv

(* A step that moves no value to the next stage. *)
LEMMA QuietTracks ==
  ASSUME AnswerIInv,
         ch'[SingleHash] = ch[SingleHash], ch'[MultiHash] = ch[MultiHash], combined' = combined,
         \A w \in W : /\ single'[w].at \in {"close", "done"} <=> single[w].at \in {"close", "done"}
                      /\ multi'[w].at = "collect" <=> multi[w].at = "collect"
                      /\ multi[w].at = "collect" => multi'[w].val = multi[w].val
  PROVE  (\E at, no : Tracks(at, no))'
<1>1. PICK at, no : Tracks(at, no)
  BY DEF AnswerIInv
<1>2. \A w \in W : Placed(w, at[w], no[w])'
  BY <1>1 DEF Tracks, Placed
<1>3. Filled(at, no)'
  BY <1>1 DEF Tracks, Filled
<1>4. Tracks(at, no)'
  BY <1>1, <1>2, <1>3 DEF Tracks, Apart
<1> QED
  BY <1>4

(* A step of a worker of SingleHash that neither takes nor sends a value.  *)
LEMMA InnerSingle ==
  ASSUME IInv, AnswerIInv, NEW w \in W, NEW new, Only(w, new), UNCHANGED ch,
         SingleOK(w, new),
         new.at = "none" <=> single[w].at = "none",
         new.at \in {"close", "done"} <=> single[w].at \in {"close", "done"},
         single[w].at = "done" => new.at = "done"
  PROVE  AnswerIInv'
<1> USE DEF Only, jobVars
<1>1. single'[w] = new /\ \A v \in W \ {w} : single'[v] = single[v]
  BY DEF IInv, Shape
<1>2. \A v \in W : SingleOK(v, single[v])' /\ MultiOK(multi[v])'
  BY <1>1 DEF AnswerIInv, SingleOK, MultiOK
<1>3. SourceOK'
  BY <1>1 DEF AnswerIInv, SourceOK
<1>4. InOrder'
  BY <1>1 DEF AnswerIInv, InOrder
<1>5. (\E at, no : Tracks(at, no))'
  BY <1>1, QuietTracks
<1>6. Answered'
  BY DEF AnswerIInv, Answered
<1> QED
  BY <1>2, <1>3, <1>4, <1>5, <1>6 DEF AnswerIInv

(* One value goes on, to a stage and a number where no other is. *)
LEMMA Moved ==
  ASSUME NEW at, NEW no, Tracks(at, no), NEW x \in W,
         NEW a \in {"toMulti", "multi", "toCombine", "combined"}, NEW n \in Nat,
         \A v \in W \ {x} : (at[v] = a => no[v] # n) /\ Placed(v, at[v], no[v])',
         Placed(x, a, n)',
         Filled([at EXCEPT ![x] = a], [no EXCEPT ![x] = n])'
  PROVE  (\E s, m : Tracks(s, m))'
<1> DEFINE AT == [at EXCEPT ![x] = a]
           NO == [no EXCEPT ![x] = n]
<1>1. /\ AT \in [W -> {"single", "toMulti", "multi", "toCombine", "combined"}]
      /\ NO \in [W -> Nat] /\ AT[x] = a /\ NO[x] = n
      /\ \A v \in W \ {x} : AT[v] = at[v] /\ NO[v] = no[v]
  BY DEF Tracks
<1> HIDE DEF AT, NO
<1>2. \A v \in W : Placed(v, AT[v], NO[v])'
  <2> SUFFICES ASSUME NEW v \in W PROVE Placed(v, AT[v], NO[v])'
    OBVIOUS
  <2>1. CASE v = x
    BY <1>1, <2>1
  <2>2. CASE v # x
    BY <1>1, <2>2
  <2> QED
    BY <2>1, <2>2
<1>3. Apart(AT, NO)
  BY <1>1 DEF Tracks, Apart
<1>4. Filled(AT, NO)'
  BY DEF AT, NO
<1>5. Tracks(AT, NO)'
  BY <1>1, <1>2, <1>3, <1>4 DEF Tracks, Apart
<1> QED
  BY <1>5

(* A value goes from its worker of SingleHash into the channel, ... *)
LEMMA SendTracked ==
  ASSUME IInv, Buffers, AnswerIInv, NEW w \in W, SingleSend(w)
  PROVE  (\E at, no : Tracks(at, no))'
<1> USE DEF jobVars, md5Vars
<1>1. /\ single[w].at = "send" /\ single[w].val = Hashed(w) /\ ch[SingleHash] = None
      /\ ch' = [ch EXCEPT ![SingleHash] = <<Hashed(w)>>] /\ UNCHANGED <<multi, combined>>
  BY DEF SingleSend, Ready, Send, Only, AnswerIInv, SingleOK
<1>2. ch'[SingleHash] = <<Hashed(w)>> /\ ch'[MultiHash] = ch[MultiHash]
  BY <1>1, JobsDiffer DEF Buffers
<1>3. single'[w].at = "close" /\ \A v \in W \ {w} : single'[v] = single[v]
  BY DEF SingleSend, Only, IInv, Shape, IdleSingle
<1>4. PICK at, no : Tracks(at, no)
  BY DEF AnswerIInv
<1>5. \A v \in W : at[v] # "toMulti" /\ Placed(v, at[v], no[v])
  BY <1>1, <1>4, BufferLengths DEF Tracks, Placed
<1>6. \A v \in W \ {w} : Placed(v, at[v], no[v])'
  BY <1>1, <1>2, <1>3, <1>5 DEF Placed
<1>7. Placed(w, "toMulti", 0)'
  BY <1>2, <1>3 DEF Placed
<1>8. at[w] = "single"
  BY <1>1, <1>5 DEF Placed
<1>9. Filled([at EXCEPT ![w] = "toMulti"], [no EXCEPT ![w] = 0])'
  BY <1>1, <1>2, <1>4, <1>8 DEF Filled, Tracks
<1> QED
  BY <1>4, <1>5, <1>6, <1>7, <1>9, Moved

(* ... from there to a worker of MultiHash, ... *)
LEMMA TakenTracked ==
  ASSUME IInv, Buffers, AnswerIInv, NEW m \in W, MultiRecv(m)
  PROVE  (\E at, no : Tracks(at, no))'
<1> USE DEF jobVars, md5Vars
<1>1. /\ multi[m].at = "none" /\ ch[SingleHash] # None
      /\ ch' = [ch EXCEPT ![SingleHash] = None] /\ UNCHANGED <<single, combined>>
  BY DEF MultiRecv, HasValue, Recv, Fresh, MultiHash, SingleHash
<1>2. ch'[SingleHash] = None /\ ch'[MultiHash] = ch[MultiHash]
  BY <1>1, JobsDiffer DEF Buffers
<1>3. /\ multi'[m].at = "collect" /\ multi'[m].val = ch[SingleHash][1]
      /\ \A v \in W \ {m} : multi'[v] = multi[v]
  BY DEF MultiRecv, IInv, Shape, IdleMulti
<1>4. PICK at, no : Tracks(at, no)
  BY DEF AnswerIInv
<1>5. PICK x \in W : at[x] = "toMulti"
  BY <1>1, <1>4 DEF Tracks, Filled
<1>6. ch[SingleHash] = <<Hashed(x)>> /\ no[x] = 0 /\ m \in Nat
  BY <1>4, <1>5, SignerAssumption DEF Tracks, Placed, W
<1>7. \A v \in W \ {x} : /\ at[v] # "toMulti" /\ (at[v] = "multi" => no[v] # m)
                         /\ Placed(v, at[v], no[v])
  BY <1>1, <1>4, <1>5, <1>6 DEF Tracks, Placed, Apart
<1>8. \A v \in W \ {x} : Placed(v, at[v], no[v])'
  BY <1>1, <1>2, <1>3, <1>7 DEF Placed
<1>9. Placed(x, "multi", m)'
  <2>1. multi'[m].val = Hashed(x)
    BY <1>3, <1>6
  <2>2. single[x].at \in {"close", "done"}
    BY <1>4, <1>5 DEF Tracks, Placed
  <2> QED
    BY <1>1, <1>3, <2>1, <2>2 DEF Placed
<1>10. Filled([at EXCEPT ![x] = "multi"], [no EXCEPT ![x] = m])'
  BY <1>1, <1>2, <1>3, <1>4, <1>5 DEF Filled, Tracks
<1> QED
  BY <1>4, <1>6, <1>7, <1>8, <1>9, <1>10, Moved

(* ... with its hashes into the next channel, ... *)
LEMMA JoinedTracked ==
  ASSUME IInv, Buffers, AnswerIInv, NEW m \in W, MultiSend(m)
  PROVE  (\E at, no : Tracks(at, no))'
<1> USE DEF jobVars, md5Vars, OnlyMulti
<1>1. /\ multi[m].at = "collect" /\ multi[m].calc = {} /\ multi[m].res = None /\ ch[MultiHash] = None
      /\ ch' = [ch EXCEPT ![MultiHash] = <<multi[m].result>>] /\ UNCHANGED <<single, combined>>
  BY DEF MultiSend, Send
<1>2. ch'[MultiHash] = <<multi[m].result>> /\ ch'[SingleHash] = ch[SingleHash]
  BY <1>1, JobsDiffer DEF Buffers
<1>3. multi'[m].at = "close" /\ \A v \in W \ {m} : multi'[v] = multi[v]
  BY DEF MultiSend, IInv, Shape, IdleMulti
<1>4. PICK at, no : Tracks(at, no)
  BY DEF AnswerIInv
<1>5. PICK x \in W : at[x] = "multi" /\ no[x] = m
  BY <1>1, <1>4 DEF Tracks, Filled
<1>6. multi[m].result = Hashes(x)
  <2>1. multi[m].val = Hashed(x)
    BY <1>4, <1>5 DEF Tracks, Placed
  <2>2. \A th \in Th : multi[m].result[th] = Crc(<<th, multi[m].val>>)
    <3>1. MultiOK(multi[m])
      BY DEF AnswerIInv
    <3>2. 1 .. Len(multi[m].res) = {}
      BY <1>1, BufferLengths
    <3> QED
      BY <1>1, <3>1, <3>2 DEF MultiOK
  <2>3. multi[m].result = [th \in Th |-> multi[m].result[th]]
    BY <1>1 DEF AnswerIInv, MultiOK
  <2> QED
    BY <2>1, <2>2, <2>3 DEF Hashes
<1>7. \A v \in W \ {x} : /\ at[v] # "toCombine" /\ (at[v] = "multi" => no[v] # m)
                         /\ Placed(v, at[v], no[v])
  <2>1. \A v \in W : Placed(v, at[v], no[v])
    BY <1>4 DEF Tracks
  <2>2. \A v \in W : at[v] # "toCombine"
    BY <1>1, <2>1, BufferLengths DEF Placed
  <2> QED
    BY <1>4, <1>5, <2>1, <2>2 DEF Tracks, Apart
<1>8. \A v \in W \ {x} : Placed(v, at[v], no[v])'
  BY <1>1, <1>2, <1>3, <1>7 DEF Placed
<1>9. Placed(x, "toCombine", 0)'
  <2>1. single[x].at \in {"close", "done"}
    BY <1>4, <1>5 DEF Tracks, Placed
  <2> QED
    BY <1>1, <1>2, <1>6, <2>1 DEF Placed
<1>10. Filled([at EXCEPT ![x] = "toCombine"], [no EXCEPT ![x] = 0])'
  BY <1>1, <1>2, <1>3, <1>4, <1>5 DEF Filled, Tracks
<1> QED
  BY <1>4, <1>7, <1>8, <1>9, <1>10, Moved

(* ... and from there to the end of what CombineResults has collected. *)
LEMMA CombinedTracked ==
  ASSUME IInv, Buffers, AnswerIInv, CombineRecv
  PROVE  (\E at, no : Tracks(at, no))'
<1> USE DEF jobVars, md5Vars
<1>1. /\ ch[MultiHash] # None /\ ch' = [ch EXCEPT ![MultiHash] = None]
      /\ combined' = combined \o ch[MultiHash] /\ UNCHANGED <<single, multi>>
  BY DEF CombineRecv, HasValue, Recv, MultiHash, CombineResults
<1>2. ch'[MultiHash] = None /\ ch'[SingleHash] = ch[SingleHash]
  BY <1>1, JobsDiffer DEF Buffers
<1>3. PICK at, no : Tracks(at, no)
  BY DEF AnswerIInv
<1>4. PICK x \in W : at[x] = "toCombine"
  BY <1>1, <1>3 DEF Tracks, Filled
<1>0. PICK n \in Nat : n = Len(combined)
  BY LenProperties DEF Buffers
<1>5. /\ Len(combined') = n + 1 /\ combined'[n + 1] = Hashes(x)
      /\ \A i \in 1 .. n : combined'[i] = combined[i]
  <2>1. PICK T : combined \in Seq(T)
    BY DEF Buffers
  <2>2. combined \in Seq(T \cup {Hashes(x)})
    BY <2>1, SeqMonotonic
  <2>3. /\ <<Hashes(x)>> \in Seq(T \cup {Hashes(x)}) /\ Len(<<Hashes(x)>>) = 1
        /\ <<Hashes(x)>>[1] = Hashes(x)
    OBVIOUS
  <2>4. combined' = combined \o <<Hashes(x)>>
    BY <1>1, <1>3, <1>4 DEF Tracks, Placed
  <2>6. /\ Len(combined') = n + 1
        /\ \A i \in 1 .. n + 1 : combined'[i] = IF i <= n THEN combined[i] ELSE <<Hashes(x)>>[i - n]
    BY <1>0, <2>2, <2>3, <2>4, ConcatProperties
  <2> QED
    BY <1>0, <2>3, <2>6
<1>6. 1 .. Len(combined) = 1 .. n /\ 1 .. Len(combined') = 1 .. n \cup {n + 1}
  BY <1>5, <1>0
<1>7. \A v \in W \ {x} : /\ at[v] # "toCombine" /\ (at[v] = "combined" => no[v] # n + 1)
                         /\ Placed(v, at[v], no[v])
  <2>1. \A v \in W : Placed(v, at[v], no[v])
    BY <1>3 DEF Tracks
  <2>2. \A v \in W : at[v] = "combined" => no[v] # n + 1
    BY <1>5, <1>6, <2>1 DEF Placed
  <2>3. \A v \in W : at[v] = "toCombine" => no[v] = 0
    BY <2>1 DEF Placed
  <2> QED
    BY <1>3, <1>4, <2>1, <2>2, <2>3 DEF Tracks, Apart
<1>8. \A v \in W \ {x} : Placed(v, at[v], no[v])'
  BY <1>1, <1>2, <1>5, <1>6, <1>7 DEF Placed
<1>9. Placed(x, "combined", n + 1)'
  <2>1. single[x].at \in {"close", "done"}
    BY <1>3, <1>4 DEF Tracks, Placed
  <2>2. n + 1 \in 1 .. Len(combined') /\ combined'[n + 1] = Hashes(x)
    BY <1>5, <1>6
  <2> QED
    BY <1>1, <2>1, <2>2 DEF Placed
<1> DEFINE AT == [at EXCEPT ![x] = "combined"]
           NO == [no EXCEPT ![x] = n + 1]
<1>10. Filled(AT, NO)'
  <2>1. /\ AT[x] = "combined" /\ NO[x] = n + 1
        /\ \A v \in W \ {x} : AT[v] = at[v] /\ NO[v] = no[v]
    BY <1>3 DEF Tracks
  <2> HIDE DEF AT, NO
  <2>2. \A i \in 1 .. n : \E v \in W : at[v] = "combined" /\ no[v] = i
    BY <1>3, <1>6 DEF Tracks, Filled
  <2>3. \A i \in 1 .. n : \E v \in W : AT[v] = "combined" /\ NO[v] = i
    BY <1>4, <2>1, <2>2
  <2>4. \A i \in 1 .. Len(combined') : \E v \in W : AT[v] = "combined" /\ NO[v] = i
    BY <1>6, <2>1, <2>3
  <2>5. /\ ch[SingleHash] # None => \E v \in W : AT[v] = "toMulti"
        /\ \A m \in W : multi[m].at = "collect" => \E v \in W : AT[v] = "multi" /\ NO[v] = m
    BY <1>3, <1>4, <2>1 DEF Tracks, Filled
  <2> QED
    BY <1>1, <1>2, <2>4, <2>5 DEF Filled
<1>11. n + 1 \in Nat
  OBVIOUS
<1> QED
  BY <1>3, <1>7, <1>8, <1>9, <1>10, <1>11, Moved

(* The w-th worker of SingleHash is the one that takes the w-th value.     *)
LEMMA SingleRecvAnswer ==
  ASSUME IInv, Buffers, AnswerIInv, NEW w \in W, SingleRecv(w) PROVE AnswerIInv'
<1> USE DEF jobVars, md5Vars
<1> DEFINE new == [IdleSingle EXCEPT !.at = "md5", !.crc = "run", !.md5 = "lock", !.val = ch[Source][1]]
<1>1. /\ single[w].at = "none" /\ \A v \in W : single[v].at = "none" => w <= v
      /\ ch[Source] # None /\ ch' = [ch EXCEPT ![Source] = None] /\ job[SingleHash] = "run"
      /\ single' = [single EXCEPT ![w] = new]
      /\ UNCHANGED <<job, next, multi, combined, answer>>
  BY DEF SingleRecv, Fresh, HasValue, Recv, SingleHash, Source
<1>2. /\ new.at = "md5" /\ new.crc = "run" /\ new.crcMd5 = None /\ new.val = ch[Source][1]
      /\ new.first = None /\ new.second = None
  BY DEF IdleSingle
<1>3. single'[w] = new /\ \A v \in W \ {w} : single'[v] = single[v]
  BY <1>1 DEF IInv, Shape
<1> HIDE DEF new
<1>4. /\ ch'[Source] = None /\ \A k \in Job \ {Source} : ch'[k] = ch[k]
  BY <1>1, JobsDiffer DEF Buffers
<1>5. next - 1 = w /\ ch[Source] = <<Input[w]>> /\ next \in Nat
  <2>1. /\ next \in 1 .. Len(Input) + 1 /\ next - 1 \in W /\ ch[Source] = <<Input[next - 1]>>
        /\ \A v \in W : single[v].at = "none" <=> next - 1 <= v
    BY <1>1 DEF AnswerIInv, SourceOK
  <2>2. w \in Nat /\ next - 1 \in Nat /\ next \in Nat
    BY <2>1, SignerAssumption DEF W
  <2>3. next - 1 <= w /\ w <= next - 1
    BY <1>1, <2>1, <2>2
  <2> QED
    BY <2>1, <2>2, <2>3
<1>6. SingleOK(w, new)
  BY <1>2, <1>5 DEF SingleOK
<1>7. \A v \in W : SingleOK(v, single[v])' /\ MultiOK(multi[v])'
  BY <1>1, <1>3, <1>6 DEF AnswerIInv, SingleOK, MultiOK
<1>8. SourceOK'
  <2>1. \A v \in W : single[v].at = "none" <=> next - 1 <= v
    BY <1>1 DEF AnswerIInv, SourceOK
  <2>2. \A v \in W : v \in Nat
    BY SignerAssumption DEF W
  <2>3. \A v \in W : single'[v].at = "none" <=> next <= v
    BY <1>2, <1>3, <1>5, <2>1, <2>2
  <2> QED
    BY <1>1, <1>4, <2>3 DEF AnswerIInv, SourceOK
<1>9. InOrder'
  BY <1>1, <1>4, JobsDiffer DEF AnswerIInv, InOrder
<1>10. (\E at, no : Tracks(at, no))'
  BY <1>1, <1>2, <1>3, <1>4, QuietTracks, JobsDiffer
<1>11. Answered'
  BY <1>1, <1>4, JobsDiffer DEF AnswerIInv, Answered
<1> QED
  BY <1>7, <1>8, <1>9, <1>10, <1>11 DEF AnswerIInv

LEMMA SingleSendAnswer ==
  ASSUME IInv, Buffers, AnswerIInv, NEW w \in W, SingleSend(w) PROVE AnswerIInv'
<1> USE DEF jobVars, md5Vars
<1>1. /\ single[w].at = "send" /\ ch' = [ch EXCEPT ![SingleHash] = <<single[w].val>>]
      /\ UNCHANGED <<job, next, multi, combined, answer>>
  BY DEF SingleSend, Ready, Send, Only
<1>2. single'[w].at = "close" /\ \A v \in W \ {w} : single'[v] = single[v]
  BY DEF SingleSend, Only, IInv, Shape, IdleSingle
<1>3. \A k \in Job \ {SingleHash} : ch'[k] = ch[k]
  BY <1>1, JobsDiffer DEF Buffers
<1>4. \A v \in W : SingleOK(v, single[v])' /\ MultiOK(multi[v])'
  BY <1>1, <1>2 DEF AnswerIInv, SingleOK, MultiOK
<1>5. SourceOK'
  BY <1>1, <1>2, <1>3, JobsDiffer DEF AnswerIInv, SourceOK
<1>6. InOrder'
  <2>1. job[SingleHash] \notin {"return", "done"}
    BY <1>1 DEF IInv, StageInv
  <2> QED
    BY <1>1, <1>2, <1>3, <2>1, JobsDiffer DEF AnswerIInv, InOrder
<1>7. Answered'
  BY <1>1, <1>3, JobsDiffer DEF AnswerIInv, Answered
<1> QED
  BY <1>4, <1>5, <1>6, <1>7, SendTracked DEF AnswerIInv

LEMMA SingleAnswer ==
  ASSUME IInv, Buffers, AnswerIInv, NEW w \in W, SingleWorker(w) PROVE AnswerIInv'
<1> USE DEF Only, jobVars, md5Vars
<1> DEFINE me == single[w]
<1>0. /\ DOMAIN me = {"at", "val", "first", "second", "crc", "md5", "crcMd5"}
      /\ WorkerInv(me) /\ SingleOK(w, me)
  BY DEF IInv, Shape, IdleSingle, AnswerIInv
<1>1. ASSUME NEW new, Only(w, new), UNCHANGED ch, SingleOK(w, new),
             new.at = "none" <=> me.at = "none",
             new.at \in {"close", "done"} <=> me.at \in {"close", "done"},
             me.at = "done" => new.at = "done"
      PROVE  AnswerIInv'
  BY <1>1, InnerSingle
<1>2. CASE SingleMd5(w)
  <2> DEFINE new == [me EXCEPT !.at = "join", !.crcMd5 = me.second, !.second = None]
  <2>1. me.at = "md5" /\ me.second # None /\ Only(w, new) /\ UNCHANGED ch
    BY <1>2 DEF SingleMd5
  <2>2. /\ new.at = "join" /\ new.val = me.val /\ new.first = me.first
        /\ new.crcMd5 = me.second /\ new.second = None
    BY <1>0
  <2>3. SingleOK(w, new)
    BY <1>0, <2>1, <2>2 DEF SingleOK
  <2> QED
    BY <1>1, <2>1, <2>2, <2>3
<1>3. CASE SingleJoin(w)
  <2> DEFINE new == [me EXCEPT !.at = "send", !.val = me.first \o me.second,
                               !.first = None, !.second = None]
  <2>1. me.at = "join" /\ me.first # None /\ me.second # None /\ Only(w, new) /\ UNCHANGED ch
    BY <1>3 DEF SingleJoin
  <2>2. new.at = "send" /\ new.val = me.first \o me.second
    BY <1>0
  <2>3. me.first = <<Crc(Input[w])>> /\ me.second = <<Crc(Md5(Input[w]))>>
    BY <1>0, <2>1 DEF SingleOK
  <2>4. new.val = Hashed(w)
    BY <2>2, <2>3, PairIs DEF Hashed
  <2>5. SingleOK(w, new)
    BY <2>2, <2>4 DEF SingleOK
  <2> QED
    BY <1>1, <2>1, <2>2, <2>5
<1>4. CASE SingleDone(w)
  <2> DEFINE new == [me EXCEPT !.at = "done"]
  <2>1. me.at = "close" /\ Only(w, new) /\ UNCHANGED ch
    BY <1>4 DEF SingleDone
  <2>2. new.at = "done"
    BY <1>0
  <2>3. SingleOK(w, new)
    BY <2>2 DEF SingleOK
  <2> QED
    BY <1>1, <2>1, <2>2, <2>3
<1>5. CASE CrcPut(w)
  <2> DEFINE new == [me EXCEPT !.crc = "done", !.first = <<Crc(me.val)>>]
  <2>1. me.crc = "run" /\ Only(w, new) /\ UNCHANGED ch
    BY <1>5 DEF CrcPut
  <2>2. me.at \in {"md5", "join"}
    BY <1>0, <2>1 DEF WorkerInv, SingleOK
  <2>3. /\ new.at = me.at /\ new.val = me.val /\ new.crcMd5 = me.crcMd5 /\ new.second = me.second
        /\ new.first = <<Crc(me.val)>>
    BY <1>0
  <2>4. SingleOK(w, new)
    BY <1>0, <2>2, <2>3 DEF SingleOK
  <2> QED
    BY <1>1, <2>1, <2>3, <2>4
<1>6. CASE CrcMd5Put(w)
  <2> DEFINE new == [me EXCEPT !.crcMd5 = None, !.second = <<Crc(me.crcMd5[1])>>]
  <2>1. me.crcMd5 # None /\ Only(w, new) /\ UNCHANGED ch
    BY <1>6 DEF CrcMd5Put
  <2>2. me.at = "join" /\ me.crcMd5 = <<Md5(Input[w])>>
    BY <1>0, <2>1 DEF WorkerInv, SingleOK
  <2>3. /\ new.at = "join" /\ new.val = me.val /\ new.first = me.first /\ new.crcMd5 = None
        /\ new.second = <<Crc(me.crcMd5[1])>>
    BY <1>0, <2>2
  <2>4. SingleOK(w, new)
    BY <1>0, <2>2, <2>3 DEF SingleOK
  <2> QED
    BY <1>1, <2>1, <2>2, <2>3, <2>4
<1>7. CASE Md5Put(w)
  <2> DEFINE new == [me EXCEPT !.md5 = "unlock", !.second = <<Md5(me.val)>>]
  <2>1. me.md5 = "put" /\ Only(w, new) /\ UNCHANGED ch
    BY <1>7 DEF Md5Put
  <2>2. me.at = "md5" /\ me.val = Input[w]
    BY <1>0, <2>1 DEF WorkerInv, SingleOK
  <2>3. /\ new.at = "md5" /\ new.val = me.val /\ new.first = me.first
        /\ new.second = <<Md5(Input[w])>>
    BY <1>0, <2>2
  <2>4. SingleOK(w, new)
    BY <1>0, <2>2, <2>3 DEF SingleOK
  <2> QED
    BY <1>1, <2>1, <2>2, <2>3, <2>4
<1>8. ASSUME NEW from, NEW to, Hasher(w, from, to), UNCHANGED ch PROVE AnswerIInv'
  <2> DEFINE new == [me EXCEPT !.md5 = to]
  <2>1. Only(w, new) /\ UNCHANGED ch
    BY <1>8 DEF Hasher
  <2>2. /\ new.at = me.at /\ new.val = me.val /\ new.first = me.first /\ new.second = me.second
        /\ new.crc = me.crc /\ new.crcMd5 = me.crcMd5
    BY <1>0
  <2>3. SingleOK(w, new)
    BY <1>0, <2>2 DEF SingleOK
  <2> QED
    BY <1>1, <2>1, <2>2, <2>3
<1>9. CASE Md5Lock(w) \/ OverheatLock(w) \/ OverheatUnlock(w) \/ Md5Unlock(w)
  BY <1>8, <1>9 DEF Md5Lock, OverheatLock, OverheatUnlock, Md5Unlock
<1> QED
  BY <1>2, <1>3, <1>4, <1>5, <1>6, <1>7, <1>9, SingleRecvAnswer, SingleSendAnswer DEF SingleWorker

(* A step of a worker of MultiHash that neither takes nor sends a value.   *)
LEMMA InnerMulti ==
  ASSUME IInv, AnswerIInv, NEW w \in W, NEW new, OnlyMulti(w, new), UNCHANGED ch,
         MultiOK(new), multi[w].at # "none",
         new.at = "collect" <=> multi[w].at = "collect",
         multi[w].at = "collect" => new.val = multi[w].val,
         multi[w].at = "done" => new.at = "done"
  PROVE  AnswerIInv'
<1> USE DEF OnlyMulti, jobVars
<1>1. multi'[w] = new /\ \A v \in W \ {w} : multi'[v] = multi[v]
  BY DEF IInv, Shape
<1>2. \A v \in W : SingleOK(v, single[v])' /\ MultiOK(multi[v])'
  <2>1. \A v \in W : SingleOK(v, single[v])'
    BY DEF AnswerIInv, SingleOK
  <2>2. \A v \in W : MultiOK(multi[v])'
    BY <1>1 DEF AnswerIInv, MultiOK
  <2> QED
    BY <2>1, <2>2
<1>3. SourceOK' /\ Answered'
  BY DEF AnswerIInv, SourceOK, Answered
<1>4. InOrder'
  BY <1>1 DEF AnswerIInv, InOrder
<1>5. (\E at, no : Tracks(at, no))'
  BY <1>1, QuietTracks
<1> QED
  BY <1>2, <1>3, <1>4, <1>5 DEF AnswerIInv

LEMMA MultiRecvAnswer ==
  ASSUME IInv, Buffers, AnswerIInv, NEW w \in W, MultiRecv(w) PROVE AnswerIInv'
<1> USE DEF jobVars, md5Vars
<1> DEFINE new == [IdleMulti EXCEPT !.at = "collect", !.calc = Th, !.val = ch[SingleHash][1]]
<1>1. /\ multi[w].at = "none" /\ job[MultiHash] = "run"
      /\ ch' = [ch EXCEPT ![SingleHash] = None] /\ multi' = [multi EXCEPT ![w] = new]
      /\ UNCHANGED <<job, next, single, combined, answer>>
  BY DEF MultiRecv, Fresh, HasValue, Recv, SingleHash, MultiHash
<1>2. new.at = "collect" /\ new.calc = Th /\ new.res = None /\ new.result = [th \in Th |-> None]
  BY DEF IdleMulti
<1>3. multi'[w] = new /\ \A v \in W \ {w} : multi'[v] = multi[v]
  BY <1>1 DEF IInv, Shape
<1> HIDE DEF new
<1>4. ch'[SingleHash] = None /\ \A k \in Job \ {SingleHash} : ch'[k] = ch[k]
  BY <1>1, JobsDiffer DEF Buffers
<1>5. MultiOK(new)
  <2>1. new.res \in Seq(Found(new.val))
    BY <1>2, EmptySeq DEF None
  <2>2. new.result = [th \in Th |-> new.result[th]]
    BY <1>2
  <2> QED
    BY <1>2, <2>1, <2>2 DEF MultiOK
<1>6. \A v \in W : SingleOK(v, single[v])' /\ MultiOK(multi[v])'
  <2>1. \A v \in W : SingleOK(v, single[v])'
    BY <1>1 DEF AnswerIInv, SingleOK
  <2>2. \A v \in W : MultiOK(multi[v])'
    BY <1>3, <1>5 DEF AnswerIInv, MultiOK
  <2> QED
    BY <2>1, <2>2
<1>7. SourceOK'
  BY <1>1, <1>4, JobsDiffer DEF AnswerIInv, SourceOK
<1>8. InOrder'
  BY <1>1, <1>4, JobsDiffer DEF AnswerIInv, InOrder
<1>9. Answered'
  BY <1>1, <1>4, JobsDiffer DEF AnswerIInv, Answered
<1> QED
  BY <1>6, <1>7, <1>8, <1>9, TakenTracked DEF AnswerIInv

LEMMA MultiSendAnswer ==
  ASSUME IInv, Buffers, AnswerIInv, NEW w \in W, MultiSend(w) PROVE AnswerIInv'
<1> USE DEF jobVars, md5Vars, OnlyMulti
<1>1. /\ multi[w].at = "collect" /\ ch' = [ch EXCEPT ![MultiHash] = <<multi[w].result>>]
      /\ UNCHANGED <<job, next, single, combined, answer>>
  BY DEF MultiSend, Send
<1>2. multi'[w].at = "close" /\ \A v \in W \ {w} : multi'[v] = multi[v]
  BY DEF MultiSend, IInv, Shape, IdleMulti
<1>3. \A k \in Job \ {MultiHash} : ch'[k] = ch[k]
  BY <1>1, JobsDiffer DEF Buffers
<1>4. \A v \in W : SingleOK(v, single[v])' /\ MultiOK(multi[v])'
  <2>1. \A v \in W : SingleOK(v, single[v])'
    BY <1>1 DEF AnswerIInv, SingleOK
  <2>2. \A v \in W : MultiOK(multi[v])'
    BY <1>2 DEF AnswerIInv, MultiOK
  <2> QED
    BY <2>1, <2>2
<1>5. SourceOK'
  BY <1>1, <1>3, JobsDiffer DEF AnswerIInv, SourceOK
<1>6. InOrder'
  <2>1. job[MultiHash] \notin {"return", "done"}
    BY <1>1 DEF IInv, StageInv
  <2> QED
    BY <1>1, <1>2, <1>3, <2>1, JobsDiffer DEF AnswerIInv, InOrder
<1>7. Answered'
  BY <1>1, <1>3, JobsDiffer DEF AnswerIInv, Answered
<1> QED
  BY <1>4, <1>5, <1>6, <1>7, JoinedTracked DEF AnswerIInv

LEMMA MultiAnswer ==
  ASSUME IInv, Buffers, AnswerIInv, NEW w \in W, MultiWorker(w) PROVE AnswerIInv'
<1> DEFINE me == multi[w]
           val == me.val
<1>0. /\ DOMAIN me = {"at", "val", "calc", "res", "result"} /\ MultiOK(me)
      /\ me.at # "collect" => me.calc = {}
  BY DEF IInv, Shape, IdleMulti, AnswerIInv, StageInv
<1>1. ASSUME NEW th \in Th, MultiPut(w, th) PROVE AnswerIInv'
  <2> DEFINE hash == [id |-> th, data |-> Crc(<<th, val>>)]
             new == [me EXCEPT !.calc = @ \ {th}, !.res = Append(@, hash)]
  <2>1. th \in me.calc /\ OnlyMulti(w, new) /\ UNCHANGED ch
    BY <1>1 DEF MultiPut
  <2>2. /\ new.at = me.at /\ new.val = val /\ new.calc = me.calc \ {th}
        /\ new.res = Append(me.res, hash) /\ new.result = me.result
    BY <1>0
  <2>3. me.at = "collect"
    BY <1>0, <2>1
  <2>4. me.res \in Seq(Found(val)) /\ hash \in Found(val) /\ hash.id = th
    BY <1>0, <2>3 DEF MultiOK, Found
  <2>5. /\ new.res \in Seq(Found(val)) /\ Len(new.res) = Len(me.res) + 1 /\ Len(me.res) \in Nat
        /\ \A i \in 1 .. Len(me.res) : new.res[i] = me.res[i]
        /\ new.res[Len(me.res) + 1] = hash
    BY <2>2, <2>4, AppendProperties, LenProperties
  <2> HIDE DEF hash, new
  <2>6. \A t \in Th : \/ t \in new.calc \/ new.result[t] = Crc(<<t, val>>)
                      \/ \E i \in 1 .. Len(new.res) : new.res[i].id = t
    <3> SUFFICES ASSUME NEW t \in Th, t \notin new.calc, new.result[t] # Crc(<<t, val>>)
                 PROVE  \E i \in 1 .. Len(new.res) : new.res[i].id = t
      OBVIOUS
    <3>1. CASE t = th
      BY <2>4, <2>5, <3>1
    <3>2. CASE t # th
      <4>1. PICK i \in 1 .. Len(me.res) : me.res[i].id = t
        BY <1>0, <2>2, <2>3, <3>2 DEF MultiOK
      <4> QED
        BY <2>5, <4>1
    <3> QED
      BY <3>1, <3>2
  <2>7. new.result = [t \in Th |-> new.result[t]]
    BY <1>0, <2>2, <2>3 DEF MultiOK
  <2>8. MultiOK(new)
    BY <2>2, <2>5, <2>6, <2>7 DEF MultiOK
  <2> QED
    BY <2>1, <2>2, <2>3, <2>8, InnerMulti
<1>2. CASE MultiCollect(w)
  <2> DEFINE slot == Head(me.res).id
             new == [me EXCEPT !.result[slot] = Head(me.res).data, !.res = Tail(@)]
  <2>1. me.at = "collect" /\ me.res # None /\ OnlyMulti(w, new) /\ UNCHANGED ch
    BY <1>2 DEF MultiCollect, Slot
  <2>2. /\ new.at = me.at /\ new.val = val /\ new.calc = me.calc
        /\ new.result = [me.result EXCEPT ![slot] = Head(me.res).data] /\ new.res = Tail(me.res)
    BY <1>0
  <2>3. /\ me.res \in Seq(Found(val)) /\ me.res # << >>
        /\ me.result = [t \in Th |-> me.result[t]]
    BY <1>0, <2>1 DEF MultiOK, None
  <2>9. Len(me.res) \in Nat /\ Len(me.res) # 0
    BY <2>3, LenProperties, EmptySeq
  <2>10. Head(me.res) = me.res[1]
    BY <2>3, <2>9
  <2>4. /\ me.res[1] \in Found(val)
        /\ Tail(me.res) \in Seq(Found(val)) /\ Len(Tail(me.res)) = Len(me.res) - 1
        /\ \A i \in 1 .. Len(Tail(me.res)) : Tail(me.res)[i] = me.res[i + 1]
    BY <2>3, <2>10, HeadTailProperties
  <2>5. slot \in Th /\ Head(me.res).data = Crc(<<slot, val>>)
    <3>1. PICK th \in Th : me.res[1] = [id |-> th, data |-> Crc(<<th, val>>)]
      BY <2>4 DEF Found
    <3>2. me.res[1].id = th /\ me.res[1].data = Crc(<<th, val>>)
      BY <3>1
    <3> QED
      BY <2>10, <3>2
  <2>6. /\ new.result = [t \in Th |-> new.result[t]] /\ new.result[slot] = Crc(<<slot, val>>)
        /\ \A t \in Th \ {slot} : new.result[t] = me.result[t]
    BY <2>2, <2>3, <2>5
  <2> HIDE DEF new
  <2>7. \A t \in Th : \/ t \in new.calc \/ new.result[t] = Crc(<<t, val>>)
                      \/ \E i \in 1 .. Len(new.res) : new.res[i].id = t
    <3> SUFFICES ASSUME NEW t \in Th, t \notin new.calc, new.result[t] # Crc(<<t, val>>)
                 PROVE  \E i \in 1 .. Len(new.res) : new.res[i].id = t
      OBVIOUS
    <3>1. t # slot
      BY <2>6
    <3>2. PICK i \in 1 .. Len(me.res) : me.res[i].id = t
      BY <1>0, <2>1, <2>2, <2>6, <3>1 DEF MultiOK
    <3>3. i # 1
      BY <2>10, <3>1, <3>2
    <3>4. i - 1 \in 1 .. Len(new.res) /\ new.res[i - 1] = me.res[i]
      BY <2>2, <2>4, <2>9, <3>2, <3>3
    <3> QED
      BY <3>2, <3>4
  <2>8. MultiOK(new)
    BY <2>2, <2>4, <2>6, <2>7 DEF MultiOK
  <2> QED
    BY <2>1, <2>2, <2>8, InnerMulti
<1>3. CASE MultiDone(w)
  <2> DEFINE new == [me EXCEPT !.at = "done"]
  <2>1. me.at = "close" /\ OnlyMulti(w, new) /\ UNCHANGED ch
    BY <1>3 DEF MultiDone
  <2>2. new.at = "done"
    BY <1>0
  <2>3. MultiOK(new)
    BY <2>2 DEF MultiOK
  <2> QED
    BY <2>1, <2>2, <2>3, InnerMulti
<1> QED
  BY <1>1, <1>2, <1>3, MultiRecvAnswer, MultiSendAnswer DEF MultiWorker

-----------------------------------------------------------------------------
(* How often a result has been collected, and how often it is due. *)
Places(x) == {i \in DOMAIN combined : combined[i] = x}
Owners(x) == {w \in W : Hashes(w) = x}

LEMMA SortedIs ==
  /\ Sorted(combined) = [x \in {combined[i] : i \in DOMAIN combined} |-> Cardinality(Places(x))]
  /\ Expected = [x \in {Hashes(w) : w \in W} |-> Cardinality(Owners(x))]
<1> DEFINE all == [w \in W |-> Hashes(w)]
<1>1. Expected = Sorted(all)
  BY DEF Expected, Hashes, Hashed
<1>2. /\ {all[i] : i \in DOMAIN all} = {Hashes(w) : w \in W}
      /\ \A x : {i \in DOMAIN all : all[i] = x} = Owners(x)
  BY DEF Owners
<1>3. Sorted(all) = [x \in {Hashes(w) : w \in W} |-> Cardinality(Owners(x))]
  <2> HIDE DEF all
  <2> QED
    BY <1>2 DEF Sorted
<1> QED
  BY <1>1, <1>3 DEF Sorted, Places

(* Each result that was collected belongs to a value of its own. *)
LEMMA OwnersOfPlaces ==
  ASSUME Buffers, NEW at, NEW no, Tracks(at, no), NEW x
  PROVE  /\ Cardinality(Places(x)) \in Nat /\ Cardinality(Owners(x)) \in Nat
         /\ Cardinality(Places(x)) <= Cardinality(Owners(x))
         /\ (\A w \in W : at[w] = "combined") => Cardinality(Places(x)) = Cardinality(Owners(x))
<1>1. DOMAIN combined = 1 .. Len(combined)
  BY LenProperties DEF Buffers
<1>2. \A i \in DOMAIN combined : \E w \in W : at[w] = "combined" /\ no[w] = i
  BY <1>1 DEF Tracks, Filled
<1>3. \A w \in W : at[w] = "combined" => no[w] \in DOMAIN combined /\ combined[no[w]] = Hashes(w)
  BY <1>1 DEF Tracks, Placed
<1>4. \A v, w \in W : at[v] = "combined" /\ at[w] = "combined" /\ no[v] = no[w] => v = w
  BY DEF Tracks, Apart
<1> DEFINE own == [i \in Places(x) |-> CHOOSE w \in W : at[w] = "combined" /\ no[w] = i]
<1>5. \A i \in Places(x) : own[i] \in W /\ at[own[i]] = "combined" /\ no[own[i]] = i
  BY <1>2 DEF Places
<1>6. own \in [Places(x) -> Owners(x)]
  <2>1. \A i \in Places(x) : own[i] \in Owners(x)
    <3> HIDE DEF own
    <3> QED
      BY <1>3, <1>5 DEF Places, Owners
  <2> QED
    BY <2>1
<1> HIDE DEF own
<1>7. own \in Injection(Places(x), Owners(x))
  <2>1. \A i, j \in Places(x) : own[i] = own[j] => i = j
    BY <1>5
  <2> QED
    BY <1>6, <2>1 DEF Injection, IsInjective
<1>8. IsFiniteSet(Owners(x)) /\ Cardinality(Owners(x)) \in Nat
  BY WorkersAreFinite DEF Owners
<1>9. /\ IsFiniteSet(Places(x)) /\ Cardinality(Places(x)) <= Cardinality(Owners(x))
      /\ Cardinality(Places(x)) = Cardinality(Owners(x)) <=> own \in Surjection(Places(x), Owners(x))
  BY <1>7, <1>8, FS_Injection
<1>10. ASSUME \A w \in W : at[w] = "combined" PROVE own \in Surjection(Places(x), Owners(x))
  <2>1. \A w \in Owners(x) : no[w] \in Places(x) /\ own[no[w]] = w
    BY <1>3, <1>4, <1>5, <1>10 DEF Places, Owners
  <2> QED
    BY <1>6, <2>1 DEF Surjection
<1> QED
  BY <1>8, <1>9, <1>10, FS_CardinalityType

LEMMA PartOfTheAnswer ==
  ASSUME Buffers, AnswerIInv, NEW x \in DOMAIN Sorted(combined)
  PROVE  x \in DOMAIN Expected /\ Sorted(combined)[x] <= Expected[x]
<1>1. PICK at, no : Tracks(at, no)
  BY DEF AnswerIInv
<1>2. PICK i \in DOMAIN combined : x = combined[i]
  BY SortedIs
<1>3. \E w \in W : Hashes(w) = x
  <2>1. i \in 1 .. Len(combined)
    BY <1>2, LenProperties DEF Buffers
  <2> QED
    BY <1>1, <1>2, <2>1 DEF Tracks, Filled, Placed
<1>4. /\ Sorted(combined)[x] = Cardinality(Places(x))
      /\ x \in DOMAIN Expected /\ Expected[x] = Cardinality(Owners(x))
  BY <1>2, <1>3, SortedIs
<1> QED
  BY <1>1, <1>4, OwnersOfPlaces

LEMMA TheWholeAnswer ==
  ASSUME Buffers, NEW at, NEW no, Tracks(at, no), \A w \in W : at[w] = "combined"
  PROVE  Sorted(combined) = Expected
<1>1. \A x : Cardinality(Places(x)) = Cardinality(Owners(x))
  BY OwnersOfPlaces
<1>2. {combined[i] : i \in DOMAIN combined} = {Hashes(w) : w \in W}
  <2>1. DOMAIN combined = 1 .. Len(combined)
    BY LenProperties DEF Buffers
  <2>2. \A i \in 1 .. Len(combined) : \E w \in W : combined[i] = Hashes(w)
    BY DEF Tracks, Filled, Placed
  <2>3. \A w \in W : \E i \in 1 .. Len(combined) : combined[i] = Hashes(w)
    BY DEF Tracks, Placed
  <2> QED
    BY <2>1, <2>2, <2>3
<1> QED
  BY <1>1, <1>2, SortedIs

(* When the hashes are all joined and taken, all values are where they     *)
(* belong: the stages before have ended, and left nothing behind.          *)
LEMMA AllCombined ==
  ASSUME IInv, AnswerIInv, NEW at, NEW no, Tracks(at, no),
         job[MultiHash] = "done", ch[MultiHash] = None
  PROVE  \A w \in W : at[w] = "combined"
<1>1. /\ job[SingleHash] = "done" /\ ch[SingleHash] = None
      /\ job[Source] = "done" /\ ch[Source] = None /\ next \notin W
      /\ \A w \in W : single[w].at \in {"none", "done"} /\ multi[w].at \in {"none", "done"}
  BY DEF AnswerIInv, InOrder
<1>2. \A w \in W : single[w].at # "none"
  <2>1. next \in 1 .. Len(Input) + 1 /\ \A w \in W : single[w].at = "none" <=> next <= w
    BY <1>1, BufferLengths DEF AnswerIInv, SourceOK
  <2>2. next = Len(Input) + 1 /\ W = 1 .. Len(Input) /\ Len(Input) \in Nat
    BY <1>1, <2>1, SignerAssumption DEF W
  <2> QED
    BY <2>1, <2>2
<1>3. \A w \in W : single[w].at = "done"
  BY <1>1, <1>2
<1>4. \A w \in W : Placed(w, at[w], no[w])
  BY DEF Tracks
<1>5. \A w \in W : at[w] \notin {"single", "toMulti", "multi", "toCombine"}
  BY <1>1, <1>3, <1>4, BufferLengths DEF Placed
<1> QED
  BY <1>5 DEF Tracks

LEMMA SourceAnswer == ASSUME IInv, Buffers, AnswerIInv, SourceSend PROVE AnswerIInv'
<1> USE DEF md5Vars
<1>1. /\ job[Source] = "run" /\ next \in W /\ ch[Source] = None /\ next' = next + 1
      /\ ch' = [ch EXCEPT ![Source] = <<Input[next]>>]
      /\ UNCHANGED <<job, combined, answer, single, multi>>
  BY DEF SourceSend, Send
<1>2. ch'[Source] = <<Input[next]>> /\ \A k \in Job \ {Source} : ch'[k] = ch[k]
  BY <1>1, JobsDiffer DEF Buffers
<1>3. \A w \in W : SingleOK(w, single[w])' /\ MultiOK(multi[w])'
  BY <1>1 DEF AnswerIInv, SingleOK, MultiOK
<1>4. SourceOK'
  <2>1. next \in 1 .. Len(Input) /\ Len(Input) \in Nat
    BY <1>1, SignerAssumption DEF W
  <2>2. next' - 1 = next /\ next' \in 1 .. Len(Input) + 1
    BY <1>1, <2>1
  <2>3. \A w \in W : single[w].at = "none" <=> next <= w
    BY <1>1, BufferLengths DEF AnswerIInv, SourceOK
  <2> QED
    BY <1>1, <1>2, <2>2, <2>3 DEF SourceOK
<1>5. InOrder'
  <2>1. /\ job[SingleHash] = "run" /\ job[MultiHash] = "run" /\ job[CombineResults] = "run"
    BY <1>1 DEF AnswerIInv, InOrder
  <2> QED
    BY <1>1, <2>1 DEF InOrder
<1>6. (\E at, no : Tracks(at, no))'
  BY <1>1, <1>2, JobsDiffer, QuietTracks
<1>7. Answered'
  BY <1>1, <1>2, JobsDiffer DEF AnswerIInv, Answered
<1> QED
  BY <1>3, <1>4, <1>5, <1>6, <1>7 DEF AnswerIInv

(* A step that moves a stage and no value. *)
LEMMA StageMoves ==
  ASSUME IInv, AnswerIInv, NEW k \in Job, NEW from, NEW to, Goto(k, from, to),
         UNCHANGED <<ch, next, combined, answer, single, multi>>, InOrder', Answered'
  PROVE  AnswerIInv'
<1>1. \A w \in W : SingleOK(w, single[w])' /\ MultiOK(multi[w])'
  <2>1. single' = single /\ multi' = multi
    OBVIOUS
  <2> QED
    BY <2>1 DEF AnswerIInv, SingleOK, MultiOK
<1>2. SourceOK'
  BY DEF AnswerIInv, SourceOK
<1>3. (\E at, no : Tracks(at, no))'
  BY QuietTracks
<1> QED
  BY <1>1, <1>2, <1>3 DEF AnswerIInv

LEMMA StageAnswer == ASSUME IInv, Buffers, AnswerIInv, Stage PROVE AnswerIInv'
<1> USE DEF jobVars, md5Vars
<1>0. ASSUME NEW k \in Job, NEW from, NEW to, Goto(k, from, to)
      PROVE  /\ job[k] = from /\ job'[k] = to /\ \A j \in Job \ {k} : job'[j] = job[j]
  BY <1>0 DEF Goto, IInv, StageInv
<1>1. CASE SourceReturn
  <2>1. /\ next \notin W /\ Goto(Source, "run", "return")
        /\ UNCHANGED <<ch, next, combined, answer, single, multi>>
    BY <1>1 DEF SourceReturn
  <2>2. /\ job[Source] = "run" /\ job'[Source] = "return"
        /\ \A j \in Job \ {Source} : job'[j] = job[j]
    BY <1>0, <2>1, JobsDiffer
  <2>3. InOrder' /\ Answered'
    BY <2>1, <2>2, JobsDiffer DEF AnswerIInv, InOrder, Answered
  <2> QED
    BY <2>1, <2>3, JobsDiffer, StageMoves
<1>2. ASSUME NEW k \in Job, RangeEnds(k) PROVE AnswerIInv'
  <2>1. /\ k \in {SingleHash, MultiHash} /\ ch[k - 1] = None /\ k - 1 \in shut
        /\ Goto(k, "run", "wait") /\ UNCHANGED <<ch, next, combined, answer, single, multi>>
    BY <1>2 DEF RangeEnds, Drained
  <2>2. job[k] = "run" /\ job'[k] = "wait" /\ \A j \in Job \ {k} : job'[j] = job[j]
    BY <1>0, <2>1
  <2>3. job[k - 1] = "done"
    BY <2>1 DEF IInv, StageInv
  <2>4. SingleHash - 1 = Source /\ MultiHash - 1 = SingleHash
    BY DEF Source, SingleHash, MultiHash
  <2>5. InOrder'
    BY <2>1, <2>2, <2>3, <2>4, JobsDiffer DEF AnswerIInv, InOrder
  <2>6. Answered'
    BY <2>1, <2>2, JobsDiffer DEF AnswerIInv, Answered
  <2> QED
    BY <2>1, <2>5, <2>6, StageMoves
<1>3. ASSUME NEW k \in Job, WaitEnds(k) PROVE AnswerIInv'
  <2>1. /\ k \in {SingleHash, MultiHash} /\ Goto(k, "wait", "return")
        /\ k = SingleHash => AllDone(single)
        /\ k = MultiHash => AllDone(multi)
        /\ UNCHANGED <<ch, next, combined, answer, single, multi>>
    BY <1>3, JobsDiffer DEF WaitEnds
  <2>2. job[k] = "wait" /\ job'[k] = "return" /\ \A j \in Job \ {k} : job'[j] = job[j]
    BY <1>0, <2>1
  <2>3. InOrder'
    BY <2>1, <2>2, JobsDiffer DEF AnswerIInv, InOrder, AllDone
  <2>4. Answered'
    BY <2>1, <2>2, JobsDiffer DEF AnswerIInv, Answered
  <2> QED
    BY <2>1, <2>3, <2>4, StageMoves
<1>4. ASSUME NEW k \in Job, CloseOut(k) PROVE AnswerIInv'
  <2>1. Goto(k, "return", "done") /\ UNCHANGED <<ch, next, combined, answer, single, multi>>
    BY <1>4 DEF CloseOut
  <2>2. job[k] = "return" /\ job'[k] = "done" /\ \A j \in Job \ {k} : job'[j] = job[j]
    BY <1>0, <2>1
  <2>3. InOrder'
    BY <2>1, <2>2, JobsDiffer DEF AnswerIInv, InOrder
  <2>4. Answered'
    BY <2>1, <2>2, JobsDiffer DEF AnswerIInv, Answered
  <2> QED
    BY <2>1, <2>3, <2>4, StageMoves
<1>5. CASE CombineRecv
  <2>1. /\ job[CombineResults] = "run" /\ ch' = [ch EXCEPT ![MultiHash] = None]
        /\ UNCHANGED <<job, next, answer, single, multi>>
    BY <1>5 DEF CombineRecv, Recv, MultiHash, CombineResults
  <2>2. \A k \in Job \ {MultiHash} : ch'[k] = ch[k]
    BY <2>1, JobsDiffer DEF Buffers
  <2>3. \A w \in W : SingleOK(w, single[w])' /\ MultiOK(multi[w])'
    BY <2>1 DEF AnswerIInv, SingleOK, MultiOK
  <2>4. SourceOK' /\ InOrder' /\ Answered'
    BY <2>1, <2>2, JobsDiffer DEF AnswerIInv, SourceOK, InOrder, Answered
  <2> QED
    BY <1>5, <2>3, <2>4, CombinedTracked DEF AnswerIInv
<1>6. CASE CombineSend
  <2>1. /\ ch[MultiHash] = None /\ MultiHash \in shut /\ Goto(CombineResults, "run", "return")
        /\ ch[CombineResults] = None
        /\ ch' = [ch EXCEPT ![CombineResults] = <<Sorted(combined)>>]
        /\ UNCHANGED <<next, combined, answer, single, multi>>
    BY <1>6 DEF CombineSend, Drained, Send, MultiHash, CombineResults
  <2>2. /\ job[CombineResults] = "run" /\ job'[CombineResults] = "return"
        /\ \A j \in Job \ {CombineResults} : job'[j] = job[j]
    BY <1>0, <2>1, JobsDiffer
  <2>3. /\ ch'[CombineResults] = <<Sorted(combined)>>
        /\ \A k \in Job \ {CombineResults} : ch'[k] = ch[k]
    BY <2>1, JobsDiffer DEF Buffers
  <2>4. job[MultiHash] = "done"
    BY <2>1 DEF IInv, StageInv
  <2>5. Sorted(combined) = Expected
    <3>1. PICK at, no : Tracks(at, no)
      BY DEF AnswerIInv
    <3>2. \A w \in W : at[w] = "combined"
      BY <2>1, <2>4, <3>1, AllCombined
    <3> QED
      BY <3>1, <3>2, TheWholeAnswer
  <2>6. \A w \in W : SingleOK(w, single[w])' /\ MultiOK(multi[w])'
    BY <2>1 DEF AnswerIInv, SingleOK, MultiOK
  <2>7. SourceOK'
    BY <2>1, <2>3, JobsDiffer DEF AnswerIInv, SourceOK
  <2>8. InOrder'
    BY <2>1, <2>2, <2>3, <2>4, JobsDiffer DEF AnswerIInv, InOrder
  <2>9. (\E at, no : Tracks(at, no))'
    BY <2>1, <2>3, JobsDiffer, QuietTracks
  <2>10. Answered'
    <3>1. job'[Sink] = "run"
      BY <2>2, JobsDiffer DEF AnswerIInv, Answered
    <3>2. ch'[CombineResults] = <<Expected>> /\ Expected' = Expected
      BY <2>3, <2>5 DEF Expected, Sorted
    <3> QED
      BY <2>2, <3>1, <3>2 DEF Answered
  <2> QED
    BY <2>6, <2>7, <2>8, <2>9, <2>10 DEF AnswerIInv
<1>7. CASE SinkRecv
  <2>1. /\ ch[CombineResults] # None \/ CombineResults \in shut
        /\ Goto(Sink, "run", "return") /\ answer' = ch[CombineResults]
        /\ ch' = [ch EXCEPT ![CombineResults] = None]
        /\ UNCHANGED <<next, combined, single, multi>>
    BY <1>7 DEF SinkRecv, HasValue, Drained, Recv, Sink, CombineResults
  <2>2. /\ job[Sink] = "run" /\ job'[Sink] = "return" /\ \A j \in Job \ {Sink} : job'[j] = job[j]
    BY <1>0, <2>1, JobsDiffer
  <2>3. \A k \in Job \ {CombineResults} : ch'[k] = ch[k]
    BY <2>1, JobsDiffer DEF Buffers
  <2>4. job[CombineResults] # "run"
    BY <2>1 DEF AnswerIInv, Answered, IInv, StageInv
  <2>5. answer' = <<Expected>>
    BY <2>1, <2>2, <2>4 DEF AnswerIInv, Answered
  <2>6. \A w \in W : SingleOK(w, single[w])' /\ MultiOK(multi[w])'
    BY <2>1 DEF AnswerIInv, SingleOK, MultiOK
  <2>7. SourceOK' /\ InOrder'
    BY <2>1, <2>2, <2>3, JobsDiffer DEF AnswerIInv, SourceOK, InOrder
  <2>8. (\E at, no : Tracks(at, no))'
    BY <2>1, <2>3, JobsDiffer, QuietTracks
  <2>9. Answered'
    BY <2>2, <2>4, <2>5, JobsDiffer DEF Answered
  <2> QED
    BY <2>6, <2>7, <2>8, <2>9 DEF AnswerIInv
<1> QED
  BY <1>1, <1>2, <1>3, <1>4, <1>5, <1>6, <1>7 DEF Stage

LEMMA NextAnswer == IInv /\ Flow /\ AnswerIInv /\ [Next]_vars => AnswerIInv'
<1> SUFFICES ASSUME IInv, Buffers, AnswerIInv, [Next]_vars PROVE AnswerIInv'
  BY DEF Flow
<1>1. CASE UNCHANGED vars
  <2>1. \A w \in W : SingleOK(w, single[w])' /\ MultiOK(multi[w])'
    BY <1>1 DEF vars, AnswerIInv, SingleOK, MultiOK
  <2>2. SourceOK' /\ InOrder' /\ Answered'
    BY <1>1 DEF vars, jobVars, AnswerIInv, SourceOK, InOrder, Answered
  <2>3. (\E at, no : Tracks(at, no))'
    BY <1>1, QuietTracks DEF vars, jobVars
  <2> QED
    BY <2>1, <2>2, <2>3 DEF AnswerIInv
<1> QED
  BY <1>1, SourceAnswer, StageAnswer, SingleAnswer, MultiAnswer DEF Next

(* Whatever the order in which the goroutines of SingleHash and MultiHash  *)
(* run and in which values overtake one another, ExecutePipeline's answer  *)
(* is the one hw2.md defines for its input; and what CombineResults has    *)
(* collected before that is a part of it.                                  *)
THEOREM TheAnswerIsExpected == Spec => []AnswerIsExpected
<1>1. Spec => [](IInv /\ Flow /\ AnswerIInv)
  BY InitFlow, NextFlow, InitAnswer, NextAnswer, Invariance, PTL DEF Spec
<1>2. Buffers /\ AnswerIInv => AnswerIsExpected
  <2> SUFFICES ASSUME Buffers, AnswerIInv PROVE AnswerIsExpected
    OBVIOUS
  <2>1. \A x \in DOMAIN Sorted(combined) : x \in DOMAIN Expected /\ Sorted(combined)[x] <= Expected[x]
    BY PartOfTheAnswer
  <2>2. Returned => answer = <<Expected>>
    BY JobsDiffer DEF Returned, AnswerIInv, Answered
  <2> QED
    BY <2>1, <2>2 DEF AnswerIsExpected
<1> QED
  BY <1>1, <1>2, PTL DEF Flow
=============================================================================

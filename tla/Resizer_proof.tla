----------------------------- MODULE Resizer_proof -----------------------------
(***************************************************************************)
(* Theorems about Resizer for any uploads, processes, goroutines, sizes    *)
(* and prefetch count, and any number of failures and crashes: a task that *)
(* was accepted is kept until its image is resized.                        *)
(***************************************************************************)
EXTENDS Resizer, FunctionTheorems, FiniteSetTheorems, SequenceTheorems, WellFoundedInduction, TLAPS

(* A set of numbers that is not empty has a smallest. *)
LEMMA SmallestOf ==
  ASSUME NEW I \in SUBSET Nat, I # {}
  PROVE  \E x \in I : \A j \in I : x <= j
<1> DEFINE R == OpToRel(<, Nat)
<1>1. R = {q \in Nat \X Nat : q[1] < q[2]}
  BY DEF OpToRel
<1>2. IsWellFoundedOn(R, Nat)
  BY NatLessThanWellFounded
<1> HIDE DEF R
<1>3. PICK x \in I : \A y \in I : ~(<<y, x>> \in R)
  BY <1>2, WFMin
<1>4. \A y \in I : ~(y < x) /\ x \in Nat /\ y \in Nat
  BY <1>1, <1>3
<1> QED
  BY <1>4

(***************************************************************************)
(* How often an image occurs in a sequence of tasks.                       *)
(***************************************************************************)
Occurs(s, i) == {k \in DOMAIN s : s[k] = i}
Times(s, i) == Cardinality(Occurs(s, i))

LEMMA TimesType ==
  ASSUME NEW s \in Seq(Image), NEW i
  PROVE  /\ IsFiniteSet(Occurs(s, i)) /\ Times(s, i) \in Nat /\ Times(s, i) <= Len(s)
         /\ Times(s, i) > 0 <=> i \in ToSet(s)
<1>1. Occurs(s, i) \subseteq 1 .. Len(s) /\ Len(s) \in Nat
  BY DEF Occurs
<1>2. IsFiniteSet(1 .. Len(s)) /\ Cardinality(1 .. Len(s)) = Len(s)
  <2>1. 1 \in Int /\ Len(s) \in Int /\ Len(s) - 1 + 1 = Len(s) /\ (1 > Len(s) => Len(s) = 0)
    BY <1>1
  <2> QED
    BY <2>1, FS_Interval
<1>3. IsFiniteSet(Occurs(s, i)) /\ Times(s, i) \in Nat /\ Times(s, i) <= Len(s)
  <2>1. IsFiniteSet(Occurs(s, i)) /\ Cardinality(Occurs(s, i)) <= Cardinality(1 .. Len(s))
    BY <1>1, <1>2, FS_Subset
  <2> QED
    BY <1>1, <1>2, <2>1, FS_CardinalityType DEF Times
<1>4. Occurs(s, i) # {} <=> i \in ToSet(s)
  BY DEF Occurs, ToSet
<1> QED
  BY <1>3, <1>4, FS_EmptySet DEF Times

LEMMA TimesEmpty == ASSUME NEW i PROVE Times(<<>>, i) = 0
BY FS_EmptySet DEF Times, Occurs

LEMMA TimesAppend ==
  ASSUME NEW s \in Seq(Image), NEW e \in Image, NEW i
  PROVE  Times(Append(s, e), i) = Times(s, i) + (IF e = i THEN 1 ELSE 0)
<1>1. /\ Append(s, e) \in Seq(Image) /\ Len(Append(s, e)) = Len(s) + 1 /\ Len(s) \in Nat
      /\ \A k \in 1 .. Len(s) : Append(s, e)[k] = s[k]
      /\ Append(s, e)[Len(s) + 1] = e
  OBVIOUS
<1>2. DOMAIN Append(s, e) = DOMAIN s \cup {Len(s) + 1} /\ Len(s) + 1 \notin DOMAIN s
  BY <1>1
<1>3. CASE e = i
  <2>1. Occurs(Append(s, e), i) = Occurs(s, i) \cup {Len(s) + 1} /\ Len(s) + 1 \notin Occurs(s, i)
    BY <1>1, <1>2, <1>3 DEF Occurs
  <2> QED
    BY <1>3, <2>1, TimesType, FS_AddElement DEF Times
<1>4. CASE e # i
  <2>1. Occurs(Append(s, e), i) = Occurs(s, i)
    BY <1>1, <1>2, <1>4 DEF Occurs
  <2> QED
    BY <1>4, <2>1, TimesType DEF Times
<1> QED
  BY <1>3, <1>4

(* A sequence r is s without its k-th element. *)
Without(s, k, r) ==
  /\ k \in 1 .. Len(s) /\ Len(r) = Len(s) - 1
  /\ \A j \in 1 .. Len(r) : r[j] = IF j < k THEN s[j] ELSE s[j + 1]

LEMMA TimesWithout ==
  ASSUME NEW s \in Seq(Image), NEW r \in Seq(Image), NEW k, Without(s, k, r), NEW i
  PROVE  Times(r, i) = Times(s, i) - (IF s[k] = i THEN 1 ELSE 0)
<1> DEFINE rest == Occurs(s, i) \ {k}
           f == [j \in Occurs(r, i) |-> IF j < k THEN j ELSE j + 1]
<1>1. Cardinality(rest) = Times(s, i) - (IF s[k] = i THEN 1 ELSE 0) /\ IsFiniteSet(rest)
  <2>1. k \in Occurs(s, i) <=> s[k] = i
    BY DEF Occurs, Without
  <2>2. k \notin Occurs(s, i) => rest = Occurs(s, i)
    OBVIOUS
  <2> QED
    BY <2>1, <2>2, TimesType, FS_RemoveElement DEF Times
<1>2. f \in Bijection(Occurs(r, i), rest)
  <2>1. k \in Nat /\ Len(s) \in Nat /\ Len(r) \in Nat /\ DOMAIN s = 1 .. Len(s) /\ DOMAIN r = 1 .. Len(r)
    BY DEF Without
  <2>2. f \in [Occurs(r, i) -> rest]
    BY <2>1 DEF Occurs, Without
  <2>3. \A a, b \in Occurs(r, i) : f[a] = f[b] => a = b
    BY <2>1 DEF Occurs
  <2>4. ASSUME NEW b \in rest PROVE \E a \in Occurs(r, i) : f[a] = b
    <3>1. CASE b < k
      <4>1. b \in Occurs(r, i)
        BY <2>1, <3>1 DEF Occurs, Without
      <4>2. f[b] = b
        BY <3>1, <4>1
      <4> QED
        BY <4>1, <4>2
    <3>2. CASE b > k
      <4>1. b - 1 \in Occurs(r, i) /\ ~(b - 1 < k) /\ (b - 1) + 1 = b
        BY <2>1, <3>2 DEF Occurs, Without
      <4>2. PICK a \in Occurs(r, i) : a = b - 1
        BY <4>1
      <4>3. f[a] = IF a < k THEN a ELSE a + 1
        OBVIOUS
      <4>4. f[a] = b
        BY <4>1, <4>2, <4>3
      <4> QED
        BY <4>4
    <3> QED
      BY <2>1, <3>1, <3>2 DEF Occurs
  <2> HIDE DEF f, rest
  <2> QED
    BY <2>2, <2>3, <2>4, Fun_IsBij
<1> HIDE DEF f, rest
<1>3. IsFiniteSet(Occurs(r, i)) /\ ExistsBijection(Occurs(r, i), rest)
  BY <1>2, TimesType DEF ExistsBijection
<1> QED
  BY <1>1, <1>3, FS_Bijection DEF Times

LEMMA TimesTail ==
  ASSUME NEW s \in Seq(Image), s # <<>>, NEW i
  PROVE  Times(Tail(s), i) = Times(s, i) - (IF Head(s) = i THEN 1 ELSE 0)
<1>1. Tail(s) \in Seq(Image) /\ Len(Tail(s)) = Len(s) - 1 /\ s[1] = Head(s)
      /\ \A j \in 1 .. Len(Tail(s)) : Tail(s)[j] = s[j + 1]
  BY HeadTailProperties
<1>2. Len(s) \in Nat \ {0}
  OBVIOUS
<1>3. Without(s, 1, Tail(s))
  BY <1>1, <1>2 DEF Without
<1>4. \A r \in Seq(Image) : \A k : Without(s, k, r) =>
         Times(r, i) = Times(s, i) - (IF s[k] = i THEN 1 ELSE 0)
  BY TimesWithout
<1> QED
  BY <1>1, <1>3, <1>4

(* RemoveFirst takes one element away, the one it is asked for. *)
LEMMA TimesRemoveFirst ==
  ASSUME NEW s \in Seq(Image), NEW e \in ToSet(s), NEW i
  PROVE  /\ RemoveFirst(s, e) \in Seq(Image) /\ Len(RemoveFirst(s, e)) = Len(s) - 1
         /\ Times(RemoveFirst(s, e), i) = Times(s, i) - (IF e = i THEN 1 ELSE 0)
<1> DEFINE I == {j \in 1 .. Len(s) : s[j] = e}
           k == Min(I)
           r == SubSeq(s, 1, k - 1) \o SubSeq(s, k + 1, Len(s))
<1>1. I # {} /\ Len(s) \in Nat
  BY DEF ToSet
<1>2. k \in I
  <2>1. I \in SUBSET Nat
    OBVIOUS
  <2> HIDE DEF I
  <2>2. \E x \in I : \A j \in I : x <= j
    BY <1>1, <2>1, SmallestOf
  <2> QED
    BY <2>2 DEF Min
<1>3. RemoveFirst(s, e) = r
  BY <1>1 DEF RemoveFirst, RemoveAt, SelectInSeq
<1>4. k \in 1 .. Len(s) /\ s[k] = e
  BY <1>2
<1> HIDE DEF k, I
<1>5. r \in Seq(Image) /\ Without(s, k, r)
  <2>1. /\ SubSeq(s, 1, k - 1) \in Seq(Image) /\ Len(SubSeq(s, 1, k - 1)) = k - 1
        /\ \A j \in 1 .. k - 1 : SubSeq(s, 1, k - 1)[j] = s[j]
    BY <1>1, <1>4, SubSeqProperties
  <2>2. /\ SubSeq(s, k + 1, Len(s)) \in Seq(Image) /\ Len(SubSeq(s, k + 1, Len(s))) = Len(s) - k
        /\ \A j \in 1 .. Len(s) - k : SubSeq(s, k + 1, Len(s))[j] = s[k + j]
    <3> DEFINE m == k + 1
               n == Len(s)
    <3>1. /\ m \in Int /\ n \in Int /\ \A j \in m .. n : s[j] \in Image
          /\ m <= n \/ (n < m /\ n = k)
          /\ n - m + 1 = n - k /\ \A j \in 1 .. n - k : m + j - 1 = k + j
      BY <1>1, <1>4
    <3> HIDE DEF m, n
    <3>2. /\ SubSeq(s, m, n) \in Seq(Image)
          /\ Len(SubSeq(s, m, n)) = IF m <= n THEN n - m + 1 ELSE 0
          /\ \A j \in 1 .. n - m + 1 : SubSeq(s, m, n)[j] = s[m + j - 1]
      BY <3>1, SubSeqProperties
    <3>3. Len(SubSeq(s, m, n)) = n - k
      BY <1>4, <3>1, <3>2
    <3> QED
      BY <3>1, <3>2, <3>3 DEF m, n
  <2>3. /\ r \in Seq(Image) /\ Len(r) = Len(s) - 1
        /\ \A j \in 1 .. Len(r) :
             r[j] = IF j <= k - 1 THEN SubSeq(s, 1, k - 1)[j] ELSE SubSeq(s, k + 1, Len(s))[j - (k - 1)]
    <3> DEFINE a == SubSeq(s, 1, k - 1)
               b == SubSeq(s, k + 1, Len(s))
    <3>1. a \in Seq(Image) /\ b \in Seq(Image) /\ Len(a) = k - 1 /\ Len(b) = Len(s) - k
      BY <2>1, <2>2
    <3> HIDE DEF a, b
    <3>2. Len(a) + Len(b) = Len(s) - 1 /\ Len(a) \in Nat /\ Len(b) \in Nat
      BY <1>1, <1>4, <3>1
    <3>3. /\ a \o b \in Seq(Image) /\ Len(a \o b) = Len(a) + Len(b)
          /\ \A j \in 1 .. Len(a) + Len(b) : (a \o b)[j] = IF j <= Len(a) THEN a[j] ELSE b[j - Len(a)]
      BY <3>1, <3>2
    <3>4. r = a \o b
      BY DEF a, b
    <3> HIDE DEF r
    <3>5. /\ r \in Seq(Image) /\ Len(r) = Len(s) - 1
          /\ \A j \in 1 .. Len(r) : r[j] = IF j <= k - 1 THEN a[j] ELSE b[j - (k - 1)]
      BY <3>1, <3>2, <3>3, <3>4
    <3> QED
      BY <3>5 DEF a, b
  <2> HIDE DEF r
  <2>4. ASSUME NEW j \in 1 .. Len(r) PROVE r[j] = IF j < k THEN s[j] ELSE s[j + 1]
    <3>1. CASE j < k
      BY <1>1, <1>4, <2>1, <2>3, <3>1
    <3>2. CASE j >= k
      <4>1. j - (k - 1) \in 1 .. Len(s) - k /\ k + (j - (k - 1)) = j + 1
        BY <1>1, <1>4, <2>3, <3>2
      <4> QED
        BY <1>1, <1>4, <2>2, <2>3, <3>2, <4>1
    <3> QED
      BY <1>1, <1>4, <2>3, <3>1, <3>2
  <2> QED
    BY <1>4, <2>3, <2>4 DEF Without
<1> HIDE DEF r
<1>6. Times(r, i) = Times(s, i) - (IF s[k] = i THEN 1 ELSE 0) /\ Len(r) = Len(s) - 1
  <2>1. Len(r) = Len(s) - 1
    BY <1>5 DEF Without
  <2> QED
    BY <1>5, <2>1, TimesWithout
<1> QED
  BY <1>3, <1>4, <1>5, <1>6

(* What a queue holds when a task is put at its end or taken from its front, *)
(* or when tasks are put before it.                                          *)
LEMMA InAppend ==
  ASSUME NEW s \in Seq(Image), NEW e \in Image
  PROVE  Append(s, e) \in Seq(Image) /\ ToSet(Append(s, e)) = ToSet(s) \cup {e}
<1>1. /\ Append(s, e) \in Seq(Image) /\ DOMAIN Append(s, e) = DOMAIN s \cup {Len(s) + 1}
      /\ Append(s, e)[Len(s) + 1] = e /\ \A k \in DOMAIN s : Append(s, e)[k] = s[k]
  OBVIOUS
<1> QED
  BY <1>1 DEF ToSet

LEMMA InTail ==
  ASSUME NEW s \in Seq(Image), s # <<>>
  PROVE  Head(s) \in Image /\ Tail(s) \in Seq(Image) /\ ToSet(s) = ToSet(Tail(s)) \cup {Head(s)}
<1>1. /\ Head(s) = s[1] /\ Tail(s) \in Seq(Image) /\ Len(Tail(s)) = Len(s) - 1 /\ Len(s) \in Nat \ {0}
      /\ \A k \in 1 .. Len(s) - 1 : Tail(s)[k] = s[k + 1]
  OBVIOUS
<1>2. s[1] \in Image /\ s[1] \in ToSet(s)
  BY <1>1 DEF ToSet
<1>3. ASSUME NEW i \in ToSet(s) PROVE i \in ToSet(Tail(s)) \cup {s[1]}
  <2>1. PICK k \in 1 .. Len(s) : s[k] = i
    BY DEF ToSet
  <2>2. CASE k # 1
    <3>1. k - 1 \in 1 .. Len(s) - 1 /\ (k - 1) + 1 = k
      BY <1>1, <2>2
    <3>2. k - 1 \in DOMAIN Tail(s) /\ Tail(s)[k - 1] = i
      BY <1>1, <2>1, <3>1
    <3> QED
      BY <3>2 DEF ToSet
  <2> QED
    BY <2>1, <2>2
<1>4. ASSUME NEW i \in ToSet(Tail(s)) PROVE i \in ToSet(s)
  <2>1. PICK k \in 1 .. Len(s) - 1 : Tail(s)[k] = i
    BY <1>1 DEF ToSet
  <2>2. k + 1 \in DOMAIN s /\ s[k + 1] = i
    BY <1>1, <2>1
  <2> QED
    BY <2>2 DEF ToSet
<1> QED
  BY <1>1, <1>2, <1>3, <1>4

LEMMA InConcat ==
  ASSUME NEW s \in Seq(Image), NEW t \in Seq(Image)
  PROVE  s \o t \in Seq(Image) /\ ToSet(s) \subseteq ToSet(s \o t) /\ ToSet(t) \subseteq ToSet(s \o t)
<1>1. /\ s \o t \in Seq(Image) /\ Len(s \o t) = Len(s) + Len(t) /\ Len(s) \in Nat /\ Len(t) \in Nat
      /\ \A k \in 1 .. Len(s) + Len(t) : (s \o t)[k] = IF k <= Len(s) THEN s[k] ELSE t[k - Len(s)]
  OBVIOUS
<1>2. \A k \in 1 .. Len(s) : k \in DOMAIN (s \o t) /\ (s \o t)[k] = s[k]
  BY <1>1
<1>3. ASSUME NEW k \in 1 .. Len(t)
      PROVE  Len(s) + k \in DOMAIN (s \o t) /\ (s \o t)[Len(s) + k] = t[k]
  BY <1>1
<1>4. ToSet(s) \subseteq ToSet(s \o t)
  BY <1>2 DEF ToSet
<1>5. ASSUME NEW i \in ToSet(t) PROVE i \in ToSet(s \o t)
  <2>1. PICK k \in 1 .. Len(t) : t[k] = i
    BY <1>1 DEF ToSet
  <2> QED
    BY <1>3, <2>1 DEF ToSet
<1> QED
  BY <1>1, <1>4, <1>5

(***************************************************************************)
(* The inductive invariant.                                                *)
(***************************************************************************)
Task == [pc : {"idle", "size", "encode", "ack"}, img : Image \cup {"none"}, n : 0 .. Len(Sizes) + 1]

HeldBy(p, i) == {g \in Goroutine : ~Is(p, g, "idle") /\ worker[p][g].img = i}

(* What a process has been given and not acknowledged is what waits in its *)
(* channel and what its goroutines have in hand, each as often.            *)
Accounted(p) ==
  \A i \in Image :
    /\ IsFiniteSet(HeldBy(p, i))
    /\ Times(unacked[p], i) = Times(tasks[p], i) + Cardinality(HeldBy(p, i))

(* A goroutine has been through the sizes before the one it is at.         *)
AtItsSize(w) ==
  /\ w.pc # "idle" => w.img \in Image
  /\ w.pc \in {"size", "encode"} => w.n \in 1 .. Len(Sizes)
  /\ w.pc = "ack" => w.n = Len(Sizes) + 1

(* Who will still write size n of an image: a task that waits, or one that *)
(* has not come past that size.                                            *)
Due(i, n) ==
  \/ i \in ToSet(queue)
  \/ \E p \in Process : i \in ToSet(tasks[p])
  \/ \E p \in Process, g \in Goroutine :
       ~Is(p, g, "idle") /\ worker[p][g].img = i /\ worker[p][g].n <= n

WholeOrDue(i) == \A n \in 1 .. Len(Sizes) : resized[i][n] = "whole" \/ Due(i, n)

ResizerIInv ==
  /\ ResizerTypeOK
  /\ \A p \in Process : Len(unacked[p]) <= Prefetch /\ Accounted(p)
  /\ \A p \in Process, g \in Goroutine : AtItsSize(worker[p][g])
  /\ \A u \in Upload : upload[u] = "successful" /\ ImageOf[u] \notin gaveUp => WholeOrDue(ImageOf[u])

LEMMA SizesAre == Len(Sizes) \in Nat \ {0} /\ DOMAIN Sizes = 1 .. Len(Sizes)
BY ResizerAssumption

LEMMA RestingIs == Resting \in Task /\ Resting.pc = "idle" /\ AtItsSize(Resting)
BY SizesAre DEF Resting, Task, AtItsSize

LEMMA InitResizerIInv == ResizerInit => ResizerIInv
<1> SUFFICES ASSUME ResizerInit PROVE ResizerIInv
  OBVIOUS
<1> USE DEF ResizerInit
<1>1. ResizerTypeOK
  <2>1. queue \in Seq(Image) /\ unacked \in [Process -> Seq(Image)] /\ tasks \in [Process -> Seq(Image)]
    OBVIOUS
  <2>2. upload \in [Upload -> UploadPc] /\ files \subseteq Image /\ gaveUp \subseteq Image
    BY DEF UploadPc
  <2>3. worker \in [Process -> [Goroutine -> Task]]
    BY RestingIs
  <2>4. resized \in [Image -> [DOMAIN Sizes -> {"none", "partial", "whole"}]]
    OBVIOUS
  <2> QED
    BY <2>1, <2>2, <2>3, <2>4 DEF ResizerTypeOK, Task
<1>2. ASSUME NEW p \in Process PROVE Len(unacked[p]) <= Prefetch /\ Accounted(p)
  <2>1. \A i \in Image : HeldBy(p, i) = {}
    BY RestingIs DEF HeldBy, Is
  <2>2. unacked[p] = <<>> /\ tasks[p] = <<>> /\ Len(<<>>) <= Prefetch
    BY ResizerAssumption
  <2>3. \A i \in Image : Times(unacked[p], i) = 0 /\ Times(tasks[p], i) = 0
    BY <2>2, TimesEmpty
  <2>4. IsFiniteSet({}) /\ 0 = 0 + Cardinality({})
    BY FS_EmptySet
  <2> QED
    BY ONLY <2>1, <2>2, <2>3, <2>4 DEF Accounted
<1> QED
  BY <1>1, <1>2, RestingIs DEF ResizerIInv

(***************************************************************************)
(* What the steps of a goroutine do to its task, and to nobody else's.     *)
(***************************************************************************)
Becomes(p, g, w) ==
  /\ worker' \in [Process -> [Goroutine -> Task]] /\ worker'[p][g] = w
  /\ \A q \in Process, h \in Goroutine : q # p \/ h # g => worker'[q][h] = worker[q][h]

LEMMA TaskBecomesWhat ==
  ASSUME worker \in [Process -> [Goroutine -> Task]], NEW p \in Process, NEW g \in Goroutine,
         NEW w \in Task, TaskBecomes(p, g, w)
  PROVE  Becomes(p, g, w)
BY DEF TaskBecomes, Becomes

(* A task goes on to the next size, or to its acknowledgement. *)
LEMMA SkipsWhere ==
  ASSUME worker \in [Process -> [Goroutine -> Task]], NEW p \in Process, NEW g \in Goroutine,
         worker[p][g].pc \in {"size", "encode"}, AtItsSize(worker[p][g]), Skips(p, g)
  PROVE  \E w \in Task : /\ Becomes(p, g, w) /\ AtItsSize(w) /\ w.pc \in {"size", "ack"}
                         /\ w.img = worker[p][g].img /\ w.n = worker[p][g].n + 1
<1>1. PICK v \in Task : v = worker[p][g]
  OBVIOUS
<1>2. v.n \in 1 .. Len(Sizes) /\ v.img \in Image
  BY <1>1 DEF AtItsSize
<1>3. PICK c \in {"size", "ack"} : c = IF LastSize(v.n) THEN "ack" ELSE "size"
  OBVIOUS
<1> DEFINE w == [v EXCEPT !.pc = c, !.n = @ + 1]
<1>4. /\ w.pc = c /\ w.img = v.img /\ w.n = v.n + 1
      /\ w \in [pc : {"idle", "size", "encode", "ack"}, img : Image \cup {"none"}, n : Nat]
  <2>1. v \in [pc : {"idle", "size", "encode", "ack"}, img : Image \cup {"none"}, n : Nat]
    BY SizesAre DEF Task
  <2>2. w.pc = c
    BY ONLY <2>1
  <2>3. w.img = v.img
    BY ONLY <2>1
  <2>4. w.n = v.n + 1
    BY ONLY <2>1
  <2>5. w \in [pc : {"idle", "size", "encode", "ack"}, img : Image \cup {"none"}, n : Nat]
    <3> DEFINE T == [pc : {"idle", "size", "encode", "ack"}, img : Image \cup {"none"}, n : Nat]
               v1 == [v EXCEPT !.pc = c]
    <3>1. v1 \in T
      BY ONLY <2>1, c \in {"size", "ack"}
    <3>2. PICK m \in Nat : m = v.n + 1
      BY ONLY <2>1
    <3> HIDE DEF v1
    <3>3. [v1 EXCEPT !.n = m] \in T
      BY ONLY <3>1, m \in Nat
    <3> HIDE DEF T
    <3> QED
      BY <3>2, <3>3 DEF v1, T
  <2> QED
    BY ONLY <2>2, <2>3, <2>4, <2>5
<1>5. TaskBecomes(p, g, w)
  <2>1. TaskBecomes(p, g, [v EXCEPT !.pc = IF LastSize(v.n) THEN "ack" ELSE "size", !.n = @ + 1])
    BY ONLY <1>1, Skips(p, g) DEF Skips
  <2> QED
    BY ONLY <1>3, <2>1
<1> HIDE DEF w
<1>6. v.n + 1 \in 0 .. Len(Sizes) + 1
  BY <1>2, <1>4, SizesAre
<1>7. w \in Task /\ AtItsSize(w)
  BY <1>2, <1>3, <1>4, <1>6, SizesAre DEF Task, AtItsSize, LastSize
<1>8. Becomes(p, g, w)
  BY <1>5, <1>7, TaskBecomesWhat
<1> QED
  BY <1>1, <1>3, <1>4, <1>7, <1>8

(***************************************************************************)
(* What keeps the accounts, and what keeps a size due.                     *)
(***************************************************************************)
LEMMA SameAccounts ==
  ASSUME NEW p \in Process, Accounted(p), unacked'[p] = unacked[p], tasks'[p] = tasks[p],
         \A i \in Image : HeldBy(p, i)' = HeldBy(p, i)
  PROVE  Accounted(p)'
BY DEF Accounted

LEMMA SameHands ==
  ASSUME NEW p, worker'[p] = worker[p], NEW i PROVE HeldBy(p, i)' = HeldBy(p, i)
BY DEF HeldBy, Is

(* A goroutine that stays at its image keeps everybody's accounts.         *)
LEMMA StaysAtImage ==
  ASSUME worker \in [Process -> [Goroutine -> Task]], NEW p \in Process, NEW g \in Goroutine,
         NEW w \in Task, Becomes(p, g, w), w.pc # "idle", worker[p][g].pc # "idle",
         w.img = worker[p][g].img, NEW q \in Process, NEW i
  PROVE  HeldBy(q, i)' = HeldBy(q, i)
BY DEF HeldBy, Is, Becomes

(* A step that leaves the uploads alone, and what was whole or due so.     *)
LEMMA StepKeeps ==
  ASSUME ResizerIInv, ResizerTypeOK',
         \A p \in Process : Len(unacked'[p]) <= Prefetch /\ Accounted(p)',
         \A p \in Process, g \in Goroutine : AtItsSize(worker'[p][g]),
         upload' = upload, gaveUp \subseteq gaveUp',
         \A i \in Image \ gaveUp' : WholeOrDue(i) => WholeOrDue(i)'
  PROVE  ResizerIInv'
<1>1. ASSUME NEW u \in Upload, upload'[u] = "successful", ImageOf[u] \notin gaveUp'
      PROVE  WholeOrDue(ImageOf[u])'
  <2>1. WholeOrDue(ImageOf[u]) /\ ImageOf[u] \in Image
    BY <1>1 DEF ResizerIInv, Image
  <2> QED
    BY <1>1, <2>1
<1> QED
  BY <1>1 DEF ResizerIInv

(* The types, and what they say of the steps. *)
LEMMA Known ==
  ASSUME ResizerIInv
  PROVE  /\ worker \in [Process -> [Goroutine -> Task]]
         /\ resized \in [Image -> [1 .. Len(Sizes) -> {"none", "partial", "whole"}]]
         /\ upload \in [Upload -> UploadPc] /\ queue \in Seq(Image) /\ files \subseteq Image /\ gaveUp \subseteq Image
         /\ unacked \in [Process -> Seq(Image)] /\ tasks \in [Process -> Seq(Image)]
         /\ \A p \in Process : Len(unacked[p]) <= Prefetch /\ Accounted(p)
         /\ \A p \in Process, g \in Goroutine : AtItsSize(worker[p][g])
BY SizesAre DEF ResizerIInv, ResizerTypeOK, Task

LEMMA TypesKept ==
  ASSUME ResizerIInv, files' \subseteq Image, gaveUp' \subseteq Image,
         upload' \in [Upload -> UploadPc], queue' \in Seq(Image),
         unacked' \in [Process -> Seq(Image)], tasks' \in [Process -> Seq(Image)],
         worker' \in [Process -> [Goroutine -> Task]],
         resized' \in [Image -> [1 .. Len(Sizes) -> {"none", "partial", "whole"}]]
  PROVE  ResizerTypeOK'
BY SizesAre DEF ResizerTypeOK, Task

(* The web process: it sends an image, and what it has not sent nobody     *)
(* counts on.                                                              *)
LEMMA UploadKeeps ==
  ASSUME ResizerIInv, NEW u \in Upload, UploadStep(u) \/ UploadCrash(u) PROVE ResizerIInv'
<1> USE DEF UploadAt, Fault
<1>1. UNCHANGED <<unacked, tasks, worker, resized>>
  BY DEF UploadStep, SaveTmp, Rename, Publish, UploadCrash
<1>2. /\ files' \subseteq Image /\ gaveUp \subseteq gaveUp' /\ gaveUp' \subseteq Image /\ ImageOf[u] \in Image
  BY Known DEF UploadStep, SaveTmp, Rename, Publish, UploadCrash, Image
<1>4. /\ queue' \in Seq(Image) /\ ToSet(queue) \subseteq ToSet(queue')
      /\ upload'[u] = "successful" => ImageOf[u] \in ToSet(queue') \cup gaveUp'
                                      \/ upload[u] = "successful"
      /\ \A v \in Upload \ {u} : upload'[v] = upload[v]
  <2>1. CASE queue' = Append(queue, ImageOf[u]) /\ Publish(u)
    <3>1. queue' \in Seq(Image) /\ ToSet(queue') = ToSet(queue) \cup {ImageOf[u]}
      BY <1>2, <2>1, Known, InAppend
    <3> QED
      BY <2>1, <3>1, Known DEF Publish
  <2>2. CASE queue' = queue
    BY <1>2, <2>2, Known DEF UploadStep, SaveTmp, Rename, Publish, UploadCrash
  <2> QED
    BY <2>1, <2>2 DEF UploadStep, SaveTmp, Rename, Publish, UploadCrash
<1>3. ResizerTypeOK'
  <2>1. upload' \in [Upload -> UploadPc]
    BY Known DEF UploadStep, SaveTmp, Rename, Publish, UploadCrash, UploadPc
  <2> QED
    BY <1>1, <1>2, <1>4, <2>1, Known, TypesKept
<1>5. ASSUME NEW p \in Process PROVE Len(unacked'[p]) <= Prefetch /\ Accounted(p)'
  BY <1>1, <1>5, Known, SameAccounts, SameHands
<1>6. ASSUME NEW i, WholeOrDue(i) PROVE WholeOrDue(i)'
  BY <1>1, <1>4, <1>6 DEF WholeOrDue, Due, Is
<1>7. ASSUME NEW v \in Upload, upload'[v] = "successful", ImageOf[v] \notin gaveUp'
      PROVE  WholeOrDue(ImageOf[v])'
  <2>1. CASE ImageOf[v] \in ToSet(queue')
    BY <2>1 DEF WholeOrDue, Due
  <2>2. CASE upload[v] = "successful"
    BY <1>2, <1>6, <1>7, <2>2 DEF ResizerIInv
  <2> QED
    BY <1>4, <1>7, <2>1, <2>2
<1> QED
  BY <1>1, <1>3, <1>4, <1>5, <1>7, Known DEF ResizerIInv

(* The broker: a task moves from the queue to a process. *)
LEMMA DeliverKeeps ==
  ASSUME ResizerIInv, NEW p \in Process, Deliver(p) PROVE ResizerIInv'
<1> DEFINE e == Head(queue)
<1>1. /\ queue # <<>> /\ Len(unacked[p]) < Prefetch /\ queue' = Tail(queue)
      /\ unacked' = [unacked EXCEPT ![p] = Append(@, e)] /\ tasks' = [tasks EXCEPT ![p] = Append(@, e)]
      /\ UNCHANGED <<upload, files, worker, resized, gaveUp, resizeFaults>>
  BY DEF Deliver, MayDeliver
<1>2. e \in Image /\ queue' \in Seq(Image) /\ ToSet(queue) = ToSet(queue') \cup {e}
  BY <1>1, Known, InTail
<1>3. unacked[p] \in Seq(Image) /\ tasks[p] \in Seq(Image) /\ Prefetch \in Nat
  BY Known, ResizerAssumption
<1> HIDE DEF e
<1>4. /\ unacked' \in [Process -> Seq(Image)] /\ tasks' \in [Process -> Seq(Image)]
      /\ unacked'[p] = Append(unacked[p], e) /\ tasks'[p] = Append(tasks[p], e)
      /\ \A q \in Process : q # p => unacked'[q] = unacked[q] /\ tasks'[q] = tasks[q]
  BY <1>1, <1>2, <1>3, Known
<1>5. ResizerTypeOK'
  BY <1>1, <1>2, <1>4, Known, TypesKept
<1>6. \A q \in Process, i \in Image : HeldBy(q, i)' = HeldBy(q, i)
  BY <1>1, SameHands
<1>7. Len(unacked'[p]) <= Prefetch
  BY <1>1, <1>2, <1>3, <1>4
<1>8. Accounted(p)'
  <2> SUFFICES ASSUME NEW i \in Image
               PROVE  /\ IsFiniteSet(HeldBy(p, i)')
                      /\ Times(unacked'[p], i) = Times(tasks'[p], i) + Cardinality(HeldBy(p, i)')
    BY DEF Accounted
  <2>1. /\ IsFiniteSet(HeldBy(p, i)) /\ Cardinality(HeldBy(p, i)) \in Nat
        /\ Times(unacked[p], i) = Times(tasks[p], i) + Cardinality(HeldBy(p, i))
    BY Known, FS_CardinalityType DEF Accounted
  <2>2. Times(unacked[p], i) \in Nat /\ Times(tasks[p], i) \in Nat
    BY <1>3, TimesType
  <2>3. /\ Times(unacked'[p], i) = Times(unacked[p], i) + (IF e = i THEN 1 ELSE 0)
        /\ Times(tasks'[p], i) = Times(tasks[p], i) + (IF e = i THEN 1 ELSE 0)
    BY <1>2, <1>3, <1>4, TimesAppend
  <2> QED
    BY <1>6, <2>1, <2>2, <2>3
<1>9. \A q \in Process : Len(unacked'[q]) <= Prefetch /\ Accounted(q)'
  BY <1>4, <1>6, <1>7, <1>8, Known, SameAccounts
<1>10. ASSUME NEW i, WholeOrDue(i) PROVE WholeOrDue(i)'
  <2>1. ToSet(queue) \subseteq ToSet(queue') \cup ToSet(tasks'[p])
    BY <1>2, <1>3, <1>4, InAppend
  <2>2. ASSUME NEW q \in Process PROVE ToSet(tasks[q]) \subseteq ToSet(tasks'[q])
    <3>1. ToSet(tasks'[p]) = ToSet(tasks[p]) \cup {e}
      BY <1>2, <1>3, <1>4, InAppend
    <3>2. CASE q = p
      BY <3>1, <3>2
    <3>3. CASE q # p
      BY <1>4, <3>3
    <3> QED
      BY <3>2, <3>3
  <2> QED
    BY <1>1, <1>10, <2>1, <2>2 DEF WholeOrDue, Due, Is
<1> QED
  BY <1>1, <1>5, <1>9, <1>10, Known, StepKeeps

(* A goroutine takes a task from the channel: out of it, into its hand.    *)
LEMMA TakeKeeps ==
  ASSUME ResizerIInv, NEW p \in Process, NEW g \in Goroutine, Take(p, g) PROVE ResizerIInv'
<1> DEFINE e == Head(tasks[p])
           w == [pc |-> "size", img |-> e, n |-> 1]
<1>1. /\ worker[p][g].pc = "idle" /\ tasks[p] # <<>> /\ tasks' = [tasks EXCEPT ![p] = Tail(@)]
      /\ unacked' = [unacked EXCEPT ![p] = unacked[p]] /\ TaskBecomes(p, g, w)
      /\ UNCHANGED <<upload, files, queue, resized, gaveUp, resizeFaults>>
  BY DEF Take, Is, StillUnacked
<1>2. /\ e \in Image /\ Tail(tasks[p]) \in Seq(Image) /\ ToSet(tasks[p]) = ToSet(Tail(tasks[p])) \cup {e}
      /\ tasks[p] \in Seq(Image)
  BY <1>1, Known, InTail
<1>3. \A i : Times(Tail(tasks[p]), i) = Times(tasks[p], i) - (IF e = i THEN 1 ELSE 0)
  BY <1>1, <1>2, TimesTail
<1>4. /\ unacked' = unacked /\ tasks' \in [Process -> Seq(Image)] /\ tasks'[p] = Tail(tasks[p])
      /\ \A q \in Process : q # p => tasks'[q] = tasks[q]
  BY <1>1, <1>2, Known
<1> HIDE DEF e
<1>5. w \in Task /\ AtItsSize(w) /\ w.pc = "size" /\ w.img = e /\ w.n = 1
  BY <1>2, SizesAre DEF Task, AtItsSize
<1> HIDE DEF w
<1>6. Becomes(p, g, w)
  BY <1>1, <1>5, Known, TaskBecomesWhat
<1>7. ResizerTypeOK'
  BY <1>1, <1>4, <1>6, Known, TypesKept DEF Becomes
<1>8. /\ \A q \in Process, i \in Image : q # p => HeldBy(q, i)' = HeldBy(q, i)
      /\ \A i \in Image : /\ g \notin HeldBy(p, i)
                          /\ HeldBy(p, i)' = IF e = i THEN HeldBy(p, i) \cup {g} ELSE HeldBy(p, i)
  BY <1>1, <1>5, <1>6 DEF HeldBy, Is, Becomes
<1>9. Accounted(p)'
  <2> SUFFICES ASSUME NEW i \in Image
               PROVE  /\ IsFiniteSet(HeldBy(p, i)')
                      /\ Times(unacked'[p], i) = Times(tasks'[p], i) + Cardinality(HeldBy(p, i)')
    BY DEF Accounted
  <2>1. /\ IsFiniteSet(HeldBy(p, i)) /\ Cardinality(HeldBy(p, i)) \in Nat
        /\ Times(unacked[p], i) = Times(tasks[p], i) + Cardinality(HeldBy(p, i))
    BY Known, FS_CardinalityType DEF Accounted
  <2>2. Times(tasks[p], i) \in Nat
    BY <1>2, TimesType
  <2>3. /\ IsFiniteSet(HeldBy(p, i) \cup {g})
        /\ Cardinality(HeldBy(p, i) \cup {g}) = Cardinality(HeldBy(p, i)) + 1
    BY <1>8, <2>1, FS_AddElement
  <2>4. CASE e = i
    <3>1. HeldBy(p, i)' = HeldBy(p, i) \cup {g} /\ Times(tasks'[p], i) = Times(tasks[p], i) - 1
      BY <1>3, <1>4, <1>8, <2>4
    <3> QED
      BY <1>4, <2>1, <2>2, <2>3, <3>1
  <2>5. CASE e # i
    <3>1. HeldBy(p, i)' = HeldBy(p, i) /\ Times(tasks'[p], i) = Times(tasks[p], i)
      BY <1>3, <1>4, <1>8, <2>2, <2>5
    <3> QED
      BY <1>4, <2>1, <3>1
  <2> QED
    BY <2>4, <2>5
<1>10. \A q \in Process : Len(unacked'[q]) <= Prefetch /\ Accounted(q)'
  BY <1>4, <1>8, <1>9, Known, SameAccounts
<1>11. ASSUME NEW i \in Image, WholeOrDue(i) PROVE WholeOrDue(i)'
  <2> SUFFICES ASSUME NEW n \in 1 .. Len(Sizes), Due(i, n) PROVE Due(i, n)'
    BY <1>1, <1>11 DEF WholeOrDue
  <2>1. CASE i = e
    <3>1. worker'[p][g] = w /\ w.pc # "idle" /\ w.img = i /\ w.n <= n
      BY <1>5, <1>6, <2>1, SizesAre DEF Becomes
    <3> QED
      BY <3>1 DEF Due, Is
  <2>2. CASE i \in ToSet(queue)
    BY <1>1, <2>2 DEF Due
  <2>3. ASSUME NEW q \in Process, i \in ToSet(tasks[q]), i # e PROVE Due(i, n)'
    BY <1>2, <1>4, <2>3 DEF Due
  <2>4. ASSUME NEW q \in Process, NEW h \in Goroutine,
               ~Is(q, h, "idle") /\ worker[q][h].img = i /\ worker[q][h].n <= n
        PROVE  Due(i, n)'
    <3>1. worker'[q][h] = worker[q][h]
      BY <1>1, <1>6, <2>4 DEF Is, Becomes
    <3> QED
      BY <2>4, <3>1 DEF Due, Is
  <2> QED
    BY <2>1, <2>2, <2>3, <2>4 DEF Due
<1>12. \A q \in Process, h \in Goroutine : AtItsSize(worker'[q][h])
  BY <1>5, <1>6, Known DEF Becomes
<1> QED
  BY <1>1, <1>7, <1>10, <1>11, <1>12, StepKeeps

(* A goroutine that stays at its image, and either comes past no size or   *)
(* leaves the size it comes past whole, or due to another.                 *)
LEMMA WorkKeeps ==
  ASSUME ResizerIInv, NEW p \in Process, NEW g \in Goroutine, NEW w \in Task, Becomes(p, g, w),
         AtItsSize(w), w.pc # "idle", worker[p][g].pc # "idle", w.img = worker[p][g].img,
         UNCHANGED <<upload, files, queue, unacked, tasks>>,
         gaveUp \subseteq gaveUp', gaveUp' \subseteq Image,
         resized' \in [Image -> [1 .. Len(Sizes) -> {"none", "partial", "whole"}]],
         \A i \in Image \ gaveUp', n \in 1 .. Len(Sizes) :
           resized[i][n] = "whole" \/ Due(i, n) => resized'[i][n] = "whole" \/ Due(i, n)'
  PROVE  ResizerIInv'
<1>1. ResizerTypeOK'
  BY Known, TypesKept DEF Becomes
<1>2. \A q \in Process : Accounted(q)'
  BY Known, StaysAtImage, SameAccounts
<1>3. \A q \in Process, h \in Goroutine : AtItsSize(worker'[q][h])
  BY Known DEF Becomes
<1>4. \A i \in Image \ gaveUp' : WholeOrDue(i) => WholeOrDue(i)'
  BY DEF WholeOrDue
<1> QED
  BY <1>1, <1>2, <1>3, <1>4, Known, StepKeeps

(* Who still has to do a size other than the one the goroutine is at, or   *)
(* for another image.                                                      *)
LEMMA DueElsewhere ==
  ASSUME NEW p \in Process, NEW g \in Goroutine, NEW w, Becomes(p, g, w),
         UNCHANGED <<queue, tasks>>, NEW i, NEW n, Due(i, n),
         worker[p][g].img = i /\ worker[p][g].pc # "idle" /\ worker[p][g].n <= n
           => w.img = i /\ w.pc # "idle" /\ w.n <= n
  PROVE  Due(i, n)'
BY DEF Due, Is, Becomes

(* A file is opened and decoded, or it cannot be: then its image is given up. *)
LEMMA OpenKeeps ==
  ASSUME ResizerIInv, NEW p \in Process, NEW g \in Goroutine, Open(p, g) PROVE ResizerIInv'
<1>1. PICK v \in Task : v = worker[p][g]
  BY Known
<1>2. v.pc = "size" /\ v.img \in Image /\ v.n \in 1 .. Len(Sizes) /\ AtItsSize(v)
  BY <1>1, Known DEF Open, Is, AtItsSize
<1>3. CASE /\ TaskBecomes(p, g, [v EXCEPT !.pc = "encode"])
           /\ resized' = [resized EXCEPT ![v.img][v.n] = "partial"] /\ gaveUp' = gaveUp
  <2> DEFINE w == [v EXCEPT !.pc = "encode"]
  <2>1. w \in Task /\ w.pc = "encode" /\ w.img = v.img /\ w.n = v.n
    BY DEF Task
  <2>2. AtItsSize(w)
    BY <1>2, <2>1 DEF AtItsSize
  <2> HIDE DEF w
  <2>3. Becomes(p, g, w)
    BY <1>3, <2>1, Known, TaskBecomesWhat DEF w
  <2>4. /\ resized' \in [Image -> [1 .. Len(Sizes) -> {"none", "partial", "whole"}]]
        /\ \A i \in Image, n \in 1 .. Len(Sizes) :
             i # v.img \/ n # v.n => resized'[i][n] = resized[i][n]
    BY <1>2, <1>3, Known
  <2>5. ASSUME NEW i \in Image, NEW n \in 1 .. Len(Sizes), resized[i][n] = "whole" \/ Due(i, n)
        PROVE  resized'[i][n] = "whole" \/ Due(i, n)'
    <3>1. CASE i = v.img /\ n = v.n
      <4>1. worker'[p][g] = w /\ w.pc # "idle" /\ w.img = i /\ w.n <= n
        BY <1>2, <2>1, <2>3, <3>1 DEF Becomes
      <4> QED
        BY <4>1 DEF Due, Is
    <3>2. CASE i # v.img \/ n # v.n
      <4>1. UNCHANGED <<queue, tasks>>
        BY DEF Open
      <4>2. Due(i, n) => Due(i, n)'
        BY <1>1, <1>2, <2>1, <2>3, <4>1, DueElsewhere
      <4> QED
        BY <2>4, <2>5, <3>2, <4>2
    <3> QED
      BY <3>1, <3>2
  <2> QED
    BY <1>1, <1>2, <1>3, <2>1, <2>2, <2>3, <2>4, <2>5, Known, WorkKeeps DEF Open
<1>4. CASE Skips(p, g) /\ gaveUp' = gaveUp \cup {v.img} /\ resized' = resized
  <2>1. PICK w \in Task : /\ Becomes(p, g, w) /\ AtItsSize(w) /\ w.pc \in {"size", "ack"}
                          /\ w.img = v.img /\ w.n = v.n + 1
    BY <1>1, <1>2, <1>4, Known, SkipsWhere
  <2>2. UNCHANGED <<upload, files, queue, unacked, tasks>>
    BY DEF Open
  <2>3. \A i \in Image \ gaveUp', n \in 1 .. Len(Sizes) : Due(i, n) => Due(i, n)'
    BY <1>1, <1>4, <2>1, <2>2, DueElsewhere
  <2>4. gaveUp' \subseteq Image /\ gaveUp \subseteq gaveUp'
    BY <1>2, <1>4, Known
  <2> QED
    BY <1>1, <1>2, <1>4, <2>1, <2>2, <2>3, <2>4, Known, WorkKeeps
<1> QED
  BY <1>1, <1>3, <1>4 DEF Open

(* A resize fails: its image is given up. *)
LEMMA ResizeFailsKeeps ==
  ASSUME ResizerIInv, NEW p \in Process, NEW g \in Goroutine, ResizeFails(p, g) PROVE ResizerIInv'
<1>1. PICK v \in Task : v = worker[p][g]
  BY Known
<1>2. /\ v.pc \in {"size", "encode"} /\ Skips(p, g) /\ gaveUp' = gaveUp \cup {v.img}
      /\ UNCHANGED <<upload, files, queue, unacked, tasks, resized>>
  BY <1>1 DEF ResizeFails
<1>3. PICK w \in Task : /\ Becomes(p, g, w) /\ AtItsSize(w) /\ w.pc \in {"size", "ack"}
                        /\ w.img = v.img /\ w.n = v.n + 1
  BY <1>1, <1>2, Known, SkipsWhere
<1>4. \A i \in Image \ gaveUp', n \in 1 .. Len(Sizes) : Due(i, n) => Due(i, n)'
  BY <1>1, <1>2, <1>3, DueElsewhere
<1>5. gaveUp' \subseteq Image /\ gaveUp \subseteq gaveUp'
  BY <1>1, <1>2, Known DEF AtItsSize
<1> QED
  BY <1>1, <1>2, <1>3, <1>4, <1>5, Known, WorkKeeps

(* A file is whole, or whoever encodes it too will see to it. *)
LEMMA EncodeKeeps ==
  ASSUME ResizerIInv, NEW p \in Process, NEW g \in Goroutine, Encode(p, g) PROVE ResizerIInv'
<1>1. PICK v \in Task : v = worker[p][g]
  BY Known
<1>2. /\ v.pc = "encode" /\ Skips(p, g) /\ UNCHANGED <<upload, files, queue, unacked, tasks, gaveUp>>
      /\ v.img \in Image /\ v.n \in 1 .. Len(Sizes)
      /\ resized' = [resized EXCEPT ![v.img][v.n] = IF OthersEncode(p, g) THEN @ ELSE "whole"]
  BY <1>1, Known DEF Encode, Is, AtItsSize
<1>3. PICK w \in Task : /\ Becomes(p, g, w) /\ AtItsSize(w) /\ w.pc \in {"size", "ack"}
                        /\ w.img = v.img /\ w.n = v.n + 1
  BY <1>1, <1>2, Known, SkipsWhere
<1>4. /\ resized' \in [Image -> [1 .. Len(Sizes) -> {"none", "partial", "whole"}]]
      /\ \A i \in Image, n \in 1 .. Len(Sizes) :
           resized'[i][n] = resized[i][n] \/ resized'[i][n] = "whole"
      /\ ~OthersEncode(p, g) => resized'[v.img][v.n] = "whole"
  BY <1>2, Known
<1>5. ASSUME NEW i \in Image, NEW n \in 1 .. Len(Sizes), Due(i, n)
      PROVE  resized'[i][n] = "whole" \/ Due(i, n)'
  <2>1. CASE i = v.img /\ n = v.n /\ OthersEncode(p, g)
    <3>1. PICK q \in Process, h \in Goroutine : (q # p \/ h # g) /\ worker[q][h] = v
      BY <1>1, <2>1 DEF OthersEncode
    <3>2. worker'[q][h] = v /\ v.pc # "idle" /\ v.n <= n
      BY <1>2, <1>3, <2>1, <3>1 DEF Becomes
    <3> QED
      BY <2>1, <3>2 DEF Due, Is
  <2>2. CASE i = v.img /\ n = v.n /\ ~OthersEncode(p, g)
    BY <1>4, <2>2
  <2>3. CASE i # v.img \/ n # v.n
    <3>1. v.img = i /\ v.n <= n => w.img = i /\ w.pc # "idle" /\ w.n <= n
      BY <1>2, <1>3, <2>3, SizesAre
    <3> QED
      BY <1>1, <1>2, <1>3, <1>5, <3>1, DueElsewhere
  <2> QED
    BY <2>1, <2>2, <2>3
<1>6. \A i \in Image, n \in 1 .. Len(Sizes) :
        resized[i][n] = "whole" \/ Due(i, n) => resized'[i][n] = "whole" \/ Due(i, n)'
  BY <1>4, <1>5
<1> QED
  BY <1>1, <1>2, <1>3, <1>4, <1>6, Known, WorkKeeps

(* The acknowledgement takes away the task that its goroutine has in hand. *)
LEMMA AckKeeps ==
  ASSUME ResizerIInv, NEW p \in Process, NEW g \in Goroutine, Ack(p, g) PROVE ResizerIInv'
<1> DEFINE e == worker[p][g].img
           s == unacked[p]
<1>1. /\ worker[p][g].pc = "ack" /\ TaskBecomes(p, g, Resting)
      /\ unacked' = [unacked EXCEPT ![p] = RemoveFirst(s, e)]
      /\ UNCHANGED <<upload, files, queue, tasks, resized, gaveUp, resizeFaults>>
  BY DEF Ack, Is
<1>2. e \in Image /\ worker[p][g].n = Len(Sizes) + 1 /\ s \in Seq(Image) /\ tasks[p] \in Seq(Image)
  BY <1>1, Known DEF AtItsSize
<1>3. Becomes(p, g, Resting)
  BY <1>1, RestingIs, Known, TaskBecomesWhat
<1> HIDE DEF e, s
<1>4. \A i \in Image : /\ IsFiniteSet(HeldBy(p, i)) /\ Cardinality(HeldBy(p, i)) \in Nat
                       /\ Times(s, i) = Times(tasks[p], i) + Cardinality(HeldBy(p, i))
                       /\ Times(s, i) \in Nat /\ Times(tasks[p], i) \in Nat
  BY <1>2, Known, FS_CardinalityType, TimesType DEF Accounted, s
<1>5. /\ \A q \in Process, i \in Image : q # p => HeldBy(q, i)' = HeldBy(q, i)
      /\ \A i \in Image : /\ HeldBy(p, i)' = HeldBy(p, i) \ {g}
                          /\ g \in HeldBy(p, i) <=> i = e
  BY <1>1, <1>3, RestingIs DEF HeldBy, Is, Becomes, e
<1>6. \A i \in Image : /\ IsFiniteSet(HeldBy(p, i)')
                       /\ Cardinality(HeldBy(p, i)')
                            = Cardinality(HeldBy(p, i)) - (IF e = i THEN 1 ELSE 0)
  BY <1>4, <1>5, FS_RemoveElement
<1>7. e \in ToSet(s)
  <2>1. Cardinality(HeldBy(p, e)) > 0
    BY <1>2, <1>4, <1>5, FS_EmptySet
  <2>2. Times(s, e) > 0
    BY <1>2, <1>4, <2>1
  <2> QED
    BY <1>2, <2>2, TimesType
<1> DEFINE r == RemoveFirst(s, e)
<1>8. /\ r \in Seq(Image) /\ Len(r) = Len(s) - 1
      /\ \A i : Times(r, i) = Times(s, i) - (IF e = i THEN 1 ELSE 0)
  BY <1>2, <1>7, TimesRemoveFirst
<1>9. /\ unacked' \in [Process -> Seq(Image)] /\ unacked'[p] = r
      /\ \A q \in Process : q # p => unacked'[q] = unacked[q]
  BY <1>1, <1>8, Known
<1> HIDE DEF r
<1>10. ResizerTypeOK'
  BY <1>1, <1>3, <1>9, Known, TypesKept DEF Becomes
<1>11. Len(unacked'[p]) <= Prefetch
  <2>1. Len(s) \in Nat /\ Len(s) <= Prefetch /\ Prefetch \in Nat
    BY <1>2, Known, ResizerAssumption DEF s
  <2> QED
    BY <1>8, <1>9, <2>1
<1>12. Accounted(p)'
  <2>1. \A i \in Image : Times(r, i) = Times(tasks[p], i) + Cardinality(HeldBy(p, i)')
    BY <1>4, <1>6, <1>8
  <2> QED
    BY <1>1, <1>6, <1>9, <2>1 DEF Accounted
<1>13. \A q \in Process : Len(unacked'[q]) <= Prefetch /\ Accounted(q)'
  BY <1>1, <1>5, <1>9, <1>11, <1>12, Known, SameAccounts
<1>14. ASSUME NEW i \in Image, WholeOrDue(i) PROVE WholeOrDue(i)'
  <2>1. ASSUME NEW n \in 1 .. Len(Sizes), Due(i, n) PROVE Due(i, n)'
    <3>1. ~(worker[p][g].n <= n)
      BY <1>2, SizesAre
    <3> QED
      BY <1>1, <1>3, <2>1, <3>1, DueElsewhere
  <2> QED
    BY <1>1, <1>14, <2>1 DEF WholeOrDue
<1>15. \A q \in Process, h \in Goroutine : AtItsSize(worker'[q][h])
  BY <1>3, RestingIs, Known DEF Becomes
<1> QED
  BY <1>1, <1>10, <1>13, <1>14, <1>15, StepKeeps

(* What a goroutine has in hand, or waits in its process's channel, is not *)
(* acknowledged.                                                           *)
LEMMA InHandUnacked ==
  ASSUME ResizerIInv, NEW p \in Process, NEW i \in Image,
         i \in ToSet(tasks[p]) \/ \E g \in Goroutine : ~Is(p, g, "idle") /\ worker[p][g].img = i
  PROVE  i \in ToSet(unacked[p])
<1>1. /\ IsFiniteSet(HeldBy(p, i)) /\ Cardinality(HeldBy(p, i)) \in Nat
      /\ Times(unacked[p], i) = Times(tasks[p], i) + Cardinality(HeldBy(p, i))
      /\ unacked[p] \in Seq(Image) /\ tasks[p] \in Seq(Image)
  BY Known, FS_CardinalityType DEF Accounted
<1>2. Times(tasks[p], i) \in Nat /\ Times(unacked[p], i) \in Nat
  BY <1>1, TimesType
<1>3. Times(tasks[p], i) > 0 \/ Cardinality(HeldBy(p, i)) > 0
  <2>1. CASE i \in ToSet(tasks[p])
    BY <1>1, <2>1, TimesType
  <2>2. ASSUME NEW g \in Goroutine, ~Is(p, g, "idle") /\ worker[p][g].img = i
        PROVE  Cardinality(HeldBy(p, i)) > 0
    <3>1. HeldBy(p, i) # {}
      BY <2>2 DEF HeldBy
    <3> QED
      BY <1>1, <3>1, FS_EmptySet
  <2> QED
    BY <2>1, <2>2
<1>4. Times(unacked[p], i) > 0
  BY <1>1, <1>2, <1>3
<1> QED
  BY <1>1, <1>4, TimesType

(* A process dies: its tasks are in the queue again. *)
LEMMA CrashKeeps ==
  ASSUME ResizerIInv, NEW p \in Process, Crash(p) PROVE ResizerIInv'
<1>1. /\ worker' = [worker EXCEPT ![p] = [g \in Goroutine |-> Resting]]
      /\ queue' = unacked[p] \o queue
      /\ unacked' = [unacked EXCEPT ![p] = <<>>] /\ tasks' = [tasks EXCEPT ![p] = <<>>]
      /\ UNCHANGED <<upload, files, resized, gaveUp>>
  BY DEF Crash, Redelivered
<1>2. queue' \in Seq(Image) /\ ToSet(unacked[p]) \subseteq ToSet(queue') /\ ToSet(queue) \subseteq ToSet(queue')
  BY <1>1, Known, InConcat
<1>3. /\ unacked' \in [Process -> Seq(Image)] /\ tasks' \in [Process -> Seq(Image)]
      /\ unacked'[p] = <<>> /\ tasks'[p] = <<>>
      /\ \A q \in Process : q # p => unacked'[q] = unacked[q] /\ tasks'[q] = tasks[q]
  BY <1>1, Known
<1>4. /\ worker' \in [Process -> [Goroutine -> Task]]
      /\ \A g \in Goroutine : worker'[p][g] = Resting
      /\ \A q \in Process : q # p => worker'[q] = worker[q]
  BY <1>1, RestingIs, Known
<1>5. ResizerTypeOK'
  BY <1>1, <1>2, <1>3, <1>4, Known, TypesKept
<1>6. Len(unacked'[p]) <= Prefetch /\ Accounted(p)'
  <2>1. \A i \in Image : HeldBy(p, i)' = {}
    BY <1>4, RestingIs DEF HeldBy, Is
  <2>2. Len(<<>>) <= Prefetch
    BY ResizerAssumption
  <2>3. \A i \in Image : Times(<<>>, i) = 0
    BY TimesEmpty
  <2>4. IsFiniteSet({}) /\ 0 = 0 + Cardinality({})
    BY FS_EmptySet
  <2> QED
    BY ONLY <1>3, <2>1, <2>2, <2>3, <2>4 DEF Accounted
<1>7. \A q \in Process : Len(unacked'[q]) <= Prefetch /\ Accounted(q)'
  BY <1>3, <1>4, <1>6, Known, SameAccounts, SameHands
<1>8. ASSUME NEW i \in Image, WholeOrDue(i) PROVE WholeOrDue(i)'
  <2>1. ASSUME NEW n \in 1 .. Len(Sizes), Due(i, n) PROVE Due(i, n)'
    <3>1. CASE i \in ToSet(queue')
      BY <3>1 DEF Due
    <3>2. CASE i \notin ToSet(queue')
      <4>1. /\ i \notin ToSet(queue) /\ i \notin ToSet(tasks[p])
            /\ ~\E g \in Goroutine : ~Is(p, g, "idle") /\ worker[p][g].img = i
        BY <1>2, <3>2, InHandUnacked
      <4> QED
        BY <1>3, <1>4, <2>1, <4>1 DEF Due, Is
    <3> QED
      BY <3>1, <3>2
  <2> QED
    BY <1>1, <1>8, <2>1 DEF WholeOrDue
<1>9. \A q \in Process, h \in Goroutine : AtItsSize(worker'[q][h])
  BY <1>4, RestingIs, Known
<1> QED
  BY <1>1, <1>5, <1>7, <1>8, <1>9, StepKeeps

LEMMA NextResizerIInv == ResizerIInv /\ [ResizerNext]_resizerVars => ResizerIInv'
<1> SUFFICES ASSUME ResizerIInv, [ResizerNext]_resizerVars PROVE ResizerIInv'
  OBVIOUS
<1>1. ASSUME NEW u \in Upload, UploadStep(u) \/ UploadCrash(u) PROVE ResizerIInv'
  BY <1>1, UploadKeeps
<1>2. ASSUME NEW p \in Process, Deliver(p) PROVE ResizerIInv'
  BY <1>2, DeliverKeeps
<1>3. ASSUME NEW p \in Process, Crash(p) PROVE ResizerIInv'
  BY <1>3, CrashKeeps
<1>4. ASSUME NEW p \in Process, NEW g \in Goroutine, GoroutineStep(p, g) PROVE ResizerIInv'
  BY <1>4, TakeKeeps, OpenKeeps, EncodeKeeps, AckKeeps DEF GoroutineStep
<1>5. ASSUME NEW p \in Process, NEW g \in Goroutine, ResizeFails(p, g) PROVE ResizerIInv'
  BY <1>5, ResizeFailsKeeps
<1>6. CASE UNCHANGED resizerVars
  <2> USE <1>6 DEF resizerVars
  <2>1. ResizerTypeOK'
    BY Known, TypesKept
  <2>2. \A p \in Process : Len(unacked'[p]) <= Prefetch /\ Accounted(p)'
    BY Known, SameAccounts, SameHands
  <2>3. \A i \in Image : WholeOrDue(i) => WholeOrDue(i)'
    BY DEF WholeOrDue, Due, Is
  <2> QED
    BY <2>1, <2>2, <2>3, Known, StepKeeps
<1> QED
  BY <1>1, <1>2, <1>3, <1>4, <1>5, <1>6 DEF ResizerNext

(***************************************************************************)
(* What the invariant says.                                                *)
(***************************************************************************)
LEMMA KeptUntilResized == ResizerIInv => SuccessfulIsResized
<1> SUFFICES ASSUME ResizerIInv, NEW u \in Upload, upload[u] = "successful",
                    ImageOf[u] \notin gaveUp, ~Whole(ImageOf[u])
             PROVE  ImageOf[u] \in Pending
  BY DEF SuccessfulIsResized
<1> DEFINE i == ImageOf[u]
<1>1. i \in Image /\ WholeOrDue(i)
  BY DEF ResizerIInv, Image
<1>2. PICK n \in 1 .. Len(Sizes) : resized[i][n] # "whole"
  BY SizesAre DEF Whole
<1>3. Due(i, n)
  BY <1>1, <1>2 DEF WholeOrDue
<1> HIDE DEF i
<1>4. i \in ToSet(queue) \/ \E p \in Process : i \in ToSet(unacked[p])
  BY <1>1, <1>3, InHandUnacked DEF Due
<1> QED
  BY <1>4 DEF Pending, i

(* With a prefetch count of one a process has one task to give out. *)
LEMMA OneAtATime ==
  ASSUME ResizerIInv, NEW p \in Process, Prefetch = 1,
         NEW g \in Goroutine, ~Is(p, g, "idle"), NEW h \in Goroutine, ~Is(p, h, "idle")
  PROVE  g = h
<1> DEFINE i == worker[p][g].img
           j == worker[p][h].img
           s == unacked[p]
<1>1. i \in Image /\ j \in Image /\ s \in Seq(Image) /\ Len(s) <= 1 /\ Len(s) \in Nat
  BY Known DEF AtItsSize, Is
<1>2. i \in ToSet(s) /\ j \in ToSet(s)
  BY <1>1, InHandUnacked
<1>3. i = s[1] /\ j = s[1]
  <2>1. \A k \in 1 .. Len(s) : k = 1
    BY <1>1
  <2> QED
    BY <1>1, <1>2, <2>1 DEF ToSet
<1>4. {g, h} \subseteq HeldBy(p, i)
  BY <1>3 DEF HeldBy
<1>5. /\ IsFiniteSet(HeldBy(p, i)) /\ Cardinality(HeldBy(p, i)) \in Nat
      /\ Times(s, i) = Times(tasks[p], i) + Cardinality(HeldBy(p, i))
  BY <1>1, Known, FS_CardinalityType DEF Accounted
<1> HIDE DEF i, j, s
<1>6. Times(s, i) \in Nat /\ Times(s, i) <= Len(s) /\ Times(tasks[p], i) \in Nat
  BY <1>1, Known, TimesType
<1>7. Cardinality(HeldBy(p, i)) <= 1
  BY <1>1, <1>5, <1>6
<1>8. Cardinality({g, h}) <= 1 /\ IsFiniteSet({g, h})
  <2>1. Cardinality({g, h}) <= Cardinality(HeldBy(p, i)) /\ IsFiniteSet({g, h})
    BY <1>4, <1>5, FS_Subset
  <2> QED
    BY <1>5, <1>7, <2>1, FS_CardinalityType
<1>9. SUFFICES ASSUME g # h PROVE FALSE
  OBVIOUS
<1>10. Cardinality({h}) = 1 /\ IsFiniteSet({h}) /\ g \notin {h} /\ {h} \cup {g} = {g, h}
  BY <1>9, FS_Singleton
<1>11. Cardinality({g, h}) = 2
  <2>1. Cardinality({h} \cup {g}) = Cardinality({h}) + 1
    BY <1>10, FS_AddElement
  <2> QED
    BY <1>10, <2>1
<1> QED
  BY <1>8, <1>11

LEMMA BusyWithTasks == ResizerIInv => BusyWithin
<1> SUFFICES ASSUME ResizerIInv, NEW p \in Process
             PROVE  /\ \A g \in {x \in Goroutine : ~Is(p, x, "idle")} : worker[p][g].img \in ToSet(unacked[p])
                    /\ Prefetch = 1 => \A g, h \in {x \in Goroutine : ~Is(p, x, "idle")} : g = h
  BY DEF BusyWithin
<1>1. ASSUME NEW g \in Goroutine, ~Is(p, g, "idle") PROVE worker[p][g].img \in ToSet(unacked[p])
  <2>1. worker[p][g].img \in Image
    BY <1>1, Known DEF AtItsSize, Is
  <2> QED
    BY <1>1, <2>1, InHandUnacked
<1> QED
  BY <1>1, OneAtATime

(* form.go, resize_worker.go: whatever processes and goroutines share the  *)
(* tasks out, crash and get them again, the image of an upload that was    *)
(* called successful is resized in every size or its task is still with    *)
(* the broker, unless a resize or the publishing was lost; and no process  *)
(* resizes more tasks at a time than the prefetch count lets it have.      *)
THEOREM TasksAreKept == ResizerSpec => []TasksKept
<1>1. ResizerIInv => TasksKept
  BY KeptUntilResized, BusyWithTasks DEF TasksKept, ResizerIInv
<1> QED
  BY InitResizerIInv, NextResizerIInv, <1>1, PTL DEF ResizerSpec
=============================================================================

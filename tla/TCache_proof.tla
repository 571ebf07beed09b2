---------------------------- MODULE TCache_proof ----------------------------
(***************************************************************************)
(* Theorems about TCache for any number of clients, keys and tags, and for *)
(* any number of failures, losses, crashes and invalidations: what an item *)
(* that counts as good can be worth.                                       *)
(***************************************************************************)
EXTENDS TCache, TLAPS

Calls == \A c \in Client : CallInv(call[c])
Items == \A k \in Key : item[k] # NoItem => Sound(item[k])

LEMMA TryCounts ==
  /\ 0 \in 0 .. Tries - 1
  /\ \A n \in 0 .. Tries - 1 : n + 1 < Tries => n + 1 \in 0 .. Tries - 1
BY TriesAssumption

LEMMA IdleType == ASSUME NEW k \in Key PROVE Idle(k) \in TGetCall /\ CallInv(Idle(k))
<1>1. Idle(k) \in TGetCall
  BY TriesAssumption DEF Idle, TGetCall, Places, NoTags, Missing
<1>2. CallInv(Idle(k))
  BY DEF Idle, CallInv, Sound, NoTags, Missing
<1> QED
  BY <1>1, <1>2

LEMMA InitIInv == Init => IInv
<1> SUFFICES ASSUME Init PROVE IInv
  OBVIOUS
<1>1. TypeOK
  BY IdleType DEF Init, TypeOK, Missing
<1>2. TagInv
  BY DEF Init, TagInv, Missing
<1>3. Items /\ Calls
  BY IdleType DEF Init, Items, Calls
<1> QED
  BY <1>1, <1>2, <1>3 DEF IInv, Items, Calls

-----------------------------------------------------------------------------
(* One client goes on, and nothing that Sound speaks of changes. *)
LEMMA CallStep ==
  ASSUME IInv, NEW c \in Client, NEW r, Becomes(c, r), r \in TGetCall, CallInv(r),
         UNCHANGED <<stale, used, dead>>
  PROVE  call' \in [Client -> TGetCall] /\ Calls'
<1>1. call' = [call EXCEPT ![c] = r] /\ call \in [Client -> TGetCall]
  BY DEF Becomes, IInv, TypeOK
<1>2. CallInv(r)' <=> CallInv(r)
  BY DEF CallInv, Sound
<1>3. \A d \in Client : CallInv(call[d])'
  BY <1>1, <1>2 DEF IInv, CallInv, Sound
<1> QED
  BY <1>1, <1>3 DEF Calls

(* A step that touches no more than the call of one client. *)
LEMMA ReadStep ==
  ASSUME IInv, NEW c \in Client, NEW r, Becomes(c, r), r \in TGetCall, CallInv(r),
         UNCHANGED <<mem, now, data, history>>
  PROVE  IInv'
<1>1. call' \in [Client -> TGetCall] /\ Calls'
  BY CallStep DEF history
<1>2. TypeOK'
  BY <1>1 DEF IInv, TypeOK, mem, history
<1>3. TagInv' /\ Items'
  BY DEF IInv, TagInv, Items, Sound, mem, history
<1> QED
  BY <1>1, <1>2, <1>3 DEF IInv, Items, Calls

(* Moving on, trying again and returning. *)
LEMMA Moves ==
  ASSUME IInv, NEW c \in Client, NEW l \in Places, l \in {"stamp", "set tags", "set", "unlock"} \/
           call[c].at \notin {"stamp", "set tags", "set", "unlock"}
  PROVE  /\ Goto(c, l) => \E r \in TGetCall : Becomes(c, r) /\ CallInv(r)
         /\ TryAgain(c, l) => \E r \in TGetCall : Becomes(c, r) /\ CallInv(r)
         /\ Return(c) => \E r \in TGetCall : Becomes(c, r) /\ CallInv(r)
<1> DEFINE me == call[c]
<1>1. me \in TGetCall /\ CallInv(me) /\ me.key \in Key
  BY DEF IInv, TypeOK, TGetCall
<1>2. ASSUME NEW n \in 0 .. Tries - 1, NEW p \in Places,
             p \in {"stamp", "set tags", "set", "unlock"} \/ p = me.at
               \/ me.at \notin {"stamp", "set tags", "set", "unlock"}
      PROVE  [me EXCEPT !.at = p, !.try = n] \in TGetCall /\ CallInv([me EXCEPT !.at = p, !.try = n])
  <2> DEFINE r == [me EXCEPT !.at = p, !.try = n]
  <2>1. r \in TGetCall
    BY <1>1 DEF TGetCall
  <2>2. r.raw = me.raw /\ r.tags = me.tags /\ r.val = me.val /\ r.late = me.late /\ r.at = p
    BY <1>1 DEF TGetCall
  <2>3. CallInv(r)
    BY <1>1, <1>2, <2>2 DEF CallInv, Sound
  <2> QED
    BY <2>1, <2>3
<1>3. Goto(c, l) => \E r \in TGetCall : Becomes(c, r) /\ CallInv(r)
  <2>1. 0 \in 0 .. Tries - 1
    BY TryCounts
  <2> QED
    BY <1>2, <2>1 DEF Goto
<1>4. TryAgain(c, l) => \E r \in TGetCall : Becomes(c, r) /\ CallInv(r)
  <2>1. CASE me.try + 1 < Tries
    <3>1. me.try + 1 \in 0 .. Tries - 1 /\ me.at \in Places
      BY <1>1, <2>1, TryCounts DEF TGetCall
    <3>2. [me EXCEPT !.try = @ + 1] = [me EXCEPT !.at = me.at, !.try = me.try + 1]
      BY <1>1 DEF TGetCall
    <3> QED
      BY <1>2, <2>1, <3>1, <3>2 DEF TryAgain
  <2>2. CASE ~(me.try + 1 < Tries)
    BY <1>3, <2>2 DEF TryAgain
  <2> QED
    BY <2>1, <2>2
<1>5. Return(c) => \E r \in TGetCall : Becomes(c, r) /\ CallInv(r)
  BY <1>1, IdleType DEF Return
<1> QED
  BY <1>3, <1>4, <1>5
-----------------------------------------------------------------------------
LEMMA ReadsAndReturns ==
  ASSUME IInv, NEW c \in Client, NEW l \in Places,
         l \in {"stamp", "set tags", "set", "unlock"} \/
           call[c].at \notin {"stamp", "set tags", "set", "unlock"},
         Goto(c, l) \/ TryAgain(c, l) \/ Return(c),
         UNCHANGED <<mem, now, data, history>>
  PROVE  IInv'
<1>1. PICK r \in TGetCall : Becomes(c, r) /\ CallInv(r)
  BY Moves
<1> QED
  BY <1>1, ReadStep

LEMMA ReadingSteps ==
  ASSUME IInv, NEW c \in Client,
         \/ CheckLock(c) \/ GetItem(c) \/ IsTagsValid(c) \/ RebuildCb(c) \/ GetTags(c)
         \/ Stamp(c) \/ RequestFails(c) \/ Crash(c) \/ \E k \in Key : Call(c, k)
  PROVE  IInv'
<1> DEFINE me == call[c]
<1>0. me \in TGetCall /\ CallInv(me) /\ me.key \in Key /\ item \in [Key -> Item \cup {NoItem}]
  BY DEF IInv, TypeOK, TGetCall
<1>1. CASE CheckLock(c)
  BY <1>1, ReadsAndReturns DEF CheckLock, Reads, At, Places
<1>2. CASE GetItem(c)
  <2>1. CASE Goto(c, "lock")
    BY <1>2, <2>1, ReadsAndReturns DEF GetItem, Reads, At, Places
  <2>2. CASE ~Goto(c, "lock")
    <3> DEFINE r == [me EXCEPT !.at = "tags valid", !.raw = item[me.key]]
    <3>1. item[me.key] # NoItem /\ At(c, "get") /\ Becomes(c, r) /\ Reads
      BY <1>2, <2>2 DEF GetItem
    <3>2. r \in TGetCall
      BY <1>0 DEF TGetCall, Places
    <3>3. /\ r.raw = item[me.key] /\ r.tags = me.tags /\ r.val = me.val /\ r.late = me.late
          /\ r.at = "tags valid"
      BY <1>0 DEF TGetCall
    <3>4. CallInv(r)
      BY <1>0, <3>1, <3>3 DEF CallInv, Sound, IInv, At
    <3> QED
      BY <3>1, <3>2, <3>4, ReadStep DEF Reads
  <2> QED
    BY <2>1, <2>2
<1>3. CASE IsTagsValid(c)
  BY <1>3, ReadsAndReturns DEF IsTagsValid, Reads, At, Places
<1>4. CASE RebuildCb(c)
  <2>1. CASE BuildFails(c)
    BY <1>4, <2>1, ReadsAndReturns DEF RebuildCb, BuildFails, Reads, At, Places
  <2>2. CASE ~BuildFails(c)
    <3> DEFINE r == [me EXCEPT !.at = "get tags", !.val = data]
    <3>1. At(c, "build") /\ Becomes(c, r) /\ Reads /\ data \in Nat
      BY <1>4, <2>2 DEF RebuildCb, IInv, TypeOK
    <3>2. r \in TGetCall
      BY <1>0, <3>1 DEF TGetCall, Places
    <3>3. r.raw = me.raw /\ r.tags = me.tags /\ r.at = "get tags"
      BY <1>0 DEF TGetCall
    <3>4. me.tags = NoTags
      BY <1>0, <3>1 DEF CallInv, At
    <3>5. CallInv(r)
      BY <1>0, <3>3, <3>4 DEF CallInv, Sound, NoTags
    <3> QED
      BY <3>1, <3>2, <3>5, ReadStep DEF Reads
  <2> QED
    BY <2>1, <2>2
<1>5. CASE GetTags(c)
  <2> DEFINE there == {t \in TagsOf[me.key] : tag[t] # Missing}
             tags == [t \in Tag |-> IF t \in there THEN tag[t] ELSE Missing]
             r == [me EXCEPT !.at = IF there = TagsOf[me.key] THEN "set" ELSE "stamp",
                             !.todo = TagsOf[me.key] \ there,
                             !.tags = tags, !.late = Late(c, there)]
  <2>1. Becomes(c, r) /\ Reads
    BY <1>5 DEF GetTags
  <2>2. Late(c, there) \in BOOLEAN /\ (\A t \in there : me.val < stale[t] => Late(c, there))
    BY <1>0 DEF Late, TGetCall
  <2>3. tags \in [Tag -> Nat] /\ TagsOf[me.key] \subseteq Tag
    BY <1>0, TCacheAssumption DEF IInv, TypeOK, Missing
  <2>4. r \in TGetCall
    BY <1>0, <2>2, <2>3 DEF TGetCall, Places
  <2>5. /\ r.raw = me.raw /\ r.tags = tags /\ r.val = me.val /\ r.late = Late(c, there)
        /\ r.at \in {"set", "stamp"}
    BY <1>0 DEF TGetCall
  <2>6. \A t \in Tag : tags[t] # Missing => t \in there /\ tags[t] <= used[t]
    BY DEF IInv, TagInv
  <2>7. me.val \in Nat /\ stale \in [Tag -> Nat]
    BY <1>0 DEF TGetCall, IInv, TypeOK
  <2>8. Sound(r)
    BY <2>2, <2>5, <2>6, <2>7 DEF Sound
  <2>9. CallInv(r)
    BY <1>0, <2>5, <2>8 DEF CallInv
  <2> QED
    BY <2>1, <2>4, <2>9, ReadStep DEF Reads
<1>6. CASE Stamp(c)
  <2> DEFINE r == [me EXCEPT !.at = "set tags", !.stamp = now]
  <2>1. Becomes(c, r) /\ Reads /\ now \in Nat
    BY <1>6 DEF Stamp, IInv, TypeOK
  <2>2. r \in TGetCall
    BY <1>0, <2>1 DEF TGetCall, Places
  <2>3. /\ r.raw = me.raw /\ r.tags = me.tags /\ r.val = me.val /\ r.late = me.late
        /\ r.at = "set tags"
    BY <1>0 DEF TGetCall
  <2>4. CallInv(r)
    BY <1>0, <2>3 DEF CallInv, Sound
  <2> QED
    BY <2>1, <2>2, <2>4, ReadStep DEF Reads
<1>7. CASE RequestFails(c)
  <2>1. PICK l \in AfterFailure(me.at) : Return(c) \/ Goto(c, l)
    BY <1>7 DEF RequestFails
  <2>2. UNCHANGED <<mem, now, data, history>>
    BY <1>7 DEF RequestFails
  <2>3. me.at \in Places
    BY <1>0 DEF TGetCall
  <2>4. l \in Places /\ (\/ l \in {"stamp", "set tags", "set", "unlock"}
                        \/ me.at \notin {"stamp", "set tags", "set", "unlock"} \/ l = "idle")
    BY <2>3 DEF AfterFailure, Places
  <2>5. CASE Return(c)
    BY <2>2, <2>5, ReadsAndReturns DEF Places
  <2>6. CASE ~Return(c)
    <3>1. l # "idle" /\ Goto(c, l)
      BY <1>7, <2>1, <2>3, <2>6 DEF RequestFails, AfterFailure, Places
    <3> QED
      BY <2>2, <2>4, <3>1, ReadsAndReturns
  <2> QED
    BY <2>5, <2>6
<1>8. CASE Crash(c)
  BY <1>8, ReadsAndReturns DEF Crash, Places
<1>9. ASSUME NEW k \in Key, Call(c, k) PROVE IInv'
  <2> DEFINE r == [Idle(k) EXCEPT !.at = "check"]
  <2>1. Becomes(c, r) /\ UNCHANGED <<mem, now, data, history>>
    BY <1>9 DEF Call
  <2>2. r \in TGetCall
    BY IdleType DEF TGetCall, Places
  <2>3. CallInv(r)
    BY DEF Idle, CallInv, Sound, NoTags
  <2> QED
    BY <2>1, <2>2, <2>3, ReadStep
<1> QED
  BY <1>1, <1>2, <1>3, <1>4, <1>5, <1>6, <1>7, <1>8, <1>9
-----------------------------------------------------------------------------
(* The steps that write to memcached. *)
LEMMA LockStep == ASSUME IInv, NEW c \in Client, LockRebuild(c) PROVE IInv'
<1> DEFINE me == call[c]
<1>0. me \in TGetCall /\ CallInv(me) /\ me.key \in Key
  BY DEF IInv, TypeOK, TGetCall
<1>1. UNCHANGED <<item, tag, now, data, history>> /\ At(c, "lock")
  BY DEF LockRebuild
<1>2. \E r \in TGetCall : Becomes(c, r) /\ CallInv(r)
  <2>1. CASE TryAgain(c, "build")
    BY <1>1, <2>1, Moves DEF At, Places
  <2>2. CASE ~TryAgain(c, "build")
    <3> DEFINE r == [me EXCEPT !.at = "build", !.owns = TRUE]
    <3>1. Becomes(c, r)
      BY <2>2 DEF LockRebuild
    <3>2. r \in TGetCall
      BY <1>0 DEF TGetCall, Places
    <3>3. r.raw = me.raw /\ r.tags = me.tags /\ r.val = me.val /\ r.late = me.late /\ r.at = "build"
      BY <1>0 DEF TGetCall
    <3>4. CallInv(r)
      BY <1>0, <1>1, <3>3 DEF CallInv, Sound, At
    <3> QED
      BY <3>1, <3>2, <3>4
  <2> QED
    BY <2>1, <2>2
<1>3. call' \in [Client -> TGetCall] /\ Calls'
  BY <1>1, <1>2, CallStep DEF history
<1>4. lock' \in [Key -> Client \cup {Nobody}]
  BY <1>0 DEF LockRebuild, IInv, TypeOK
<1>5. TypeOK'
  BY <1>1, <1>3, <1>4 DEF IInv, TypeOK, history
<1>6. TagInv' /\ Items'
  BY <1>1 DEF IInv, TagInv, Items, Sound, history
<1> QED
  BY <1>3, <1>5, <1>6 DEF IInv, Items, Calls

LEMMA UnlockStep == ASSUME IInv, NEW c \in Client, UnlockRebuild(c) PROVE IInv'
<1>0. call[c].key \in Key
  BY DEF IInv, TypeOK, TGetCall
<1>1. UNCHANGED <<item, tag, now, data, stale, used, dead, revived>> /\ Return(c)
  BY DEF UnlockRebuild
<1>2. call' \in [Client -> TGetCall] /\ Calls'
  BY <1>0, <1>1, CallStep, IdleType DEF Return
<1>3. lock' \in [Key -> Client \cup {Nobody}] /\ lost' \subseteq Key
  BY <1>0 DEF UnlockRebuild, IInv, TypeOK
<1>4. TypeOK'
  BY <1>1, <1>2, <1>3 DEF IInv, TypeOK
<1>5. TagInv' /\ Items'
  BY <1>1 DEF IInv, TagInv, Items, Sound
<1> QED
  BY <1>2, <1>4, <1>5 DEF IInv, Items, Calls

LEMMA SetItemStep == ASSUME IInv, NEW c \in Client, SetItem(c) PROVE IInv'
<1> DEFINE me == call[c]
           i == [val |-> me.val, late |-> me.late, tags |-> me.tags]
<1>0. me \in TGetCall /\ CallInv(me) /\ me.key \in Key
  BY DEF IInv, TypeOK, TGetCall
<1>1. /\ UNCHANGED <<tag, lock, now, data, history>> /\ Goto(c, "unlock")
      /\ item' = [item EXCEPT ![me.key] = i]
  BY DEF SetItem, Store
<1>2. i \in Item /\ Sound(i)
  BY <1>0 DEF TGetCall, Item, CallInv, Sound
<1>3. call' \in [Client -> TGetCall] /\ Calls'
  <2>1. PICK r \in TGetCall : Becomes(c, r) /\ CallInv(r)
    BY <1>1, Moves DEF Places
  <2> QED
    BY <1>1, <2>1, CallStep DEF history
<1>4. item' \in [Key -> Item \cup {NoItem}] /\ Items'
  BY <1>0, <1>1, <1>2 DEF IInv, TypeOK, Items, Sound, history
<1>5. TypeOK'
  BY <1>1, <1>3, <1>4 DEF IInv, TypeOK, history
<1>6. TagInv'
  BY <1>1 DEF IInv, TagInv, history
<1> QED
  BY <1>3, <1>4, <1>5, <1>6 DEF IInv, Items, Calls

(* A tag gets a value: it is revived if the value is as old as the last    *)
(* invalidation.                                                           *)
LEMMA TagGets ==
  ASSUME IInv, NEW t \in Tag, NEW v \in Nat, Value(t, v),
         dead' \in [Tag -> Nat], \A u \in Tag : dead'[u] <= used[u],
         \A u \in Tag \ {t} : dead'[u] = dead[u]
  PROVE  /\ tag' \in [Tag -> Nat] /\ used' \in [Tag -> Nat] /\ revived' \subseteq Tag
         /\ TagInv'
         /\ \A u \in Tag : used[u] <= used'[u]
         /\ tag'[t] = v
<1>0. /\ tag \in [Tag -> Nat] /\ used \in [Tag -> Nat] /\ dead \in [Tag -> Nat]
      /\ revived \subseteq Tag
  BY DEF IInv, TypeOK
<1>1. /\ tag' \in [Tag -> Nat] /\ used' \in [Tag -> Nat] /\ revived' \subseteq Tag
      /\ tag'[t] = v /\ \A u \in Tag \ {t} : tag'[u] = tag[u]
  BY <1>0 DEF Value
<1>2. /\ used[t] <= used'[t] /\ v <= used'[t]
      /\ \A u \in Tag \ {t} : used'[u] = used[u]
  BY <1>0 DEF Value
<1>3. revived \subseteq revived' /\ (v <= dead'[t] => t \in revived')
  BY DEF Value
<1>4. ASSUME NEW u \in Tag
      PROVE  /\ dead'[u] <= used'[u] /\ tag'[u] <= used'[u] /\ used[u] <= used'[u]
             /\ u \notin revived' /\ tag'[u] # Missing => tag'[u] > dead'[u]
  <2>1. CASE u = t
    BY <1>0, <1>1, <1>2, <1>3, <2>1
  <2>2. CASE u # t
    BY <1>0, <1>1, <1>2, <1>3, <2>2 DEF IInv, TagInv
  <2> QED
    BY <2>1, <2>2
<1>5. TagInv'
  BY <1>4 DEF TagInv, Missing
<1> QED
  BY <1>1, <1>4, <1>5

(* What is sound stays so while the tags only grow. *)
LEMMA SoundStays ==
  ASSUME NEW i, i.tags \in [Tag -> Nat], Sound(i),
         used \in [Tag -> Nat], used' \in [Tag -> Nat], \A u \in Tag : used[u] <= used'[u],
         stale' = stale, dead' = dead
  PROVE  Sound(i)'
<1>1. ASSUME NEW u \in Tag, i.tags[u] # Missing PROVE i.tags[u] <= used'[u]
  <2>1. i.tags[u] <= used[u]
    BY <1>1 DEF Sound
  <2>2. i.tags[u] \in Nat /\ used[u] \in Nat /\ used'[u] \in Nat
    OBVIOUS
  <2> QED
    BY <2>1, <2>2
<1> QED
  BY <1>1 DEF Sound, Missing

(* A client sets a tag and goes on, with a call r that is sound afterwards. *)
LEMMA TagStep ==
  ASSUME IInv, NEW c \in Client, NEW t \in Tag, Value(t, call[c].stamp), NEW r \in TGetCall,
         call' = [call EXCEPT ![c] = r], r.raw = call[c].raw,
         r.at \in {"set", "set tags", "unlock"},
         \A u \in Tag : r.tags[u] # Missing =>
           r.tags[u] <= used'[u] /\ (r.tags[u] > dead'[u] => r.val >= stale'[u] \/ r.late),
         UNCHANGED <<item, lock, now, data, stale, lost, dead>>
  PROVE  IInv'
<1> DEFINE me == call[c]
<1>0. /\ me \in TGetCall /\ CallInv(me) /\ call \in [Client -> TGetCall] /\ me.stamp \in Nat
      /\ stale \in [Tag -> Nat] /\ dead \in [Tag -> Nat] /\ used \in [Tag -> Nat]
  BY DEF IInv, TypeOK, TGetCall
<1>2. /\ tag' \in [Tag -> Nat] /\ used' \in [Tag -> Nat] /\ revived' \subseteq Tag /\ TagInv'
      /\ \A u \in Tag : used[u] <= used'[u]
  <2>1. \A u \in Tag : dead[u] <= used[u]
    BY DEF IInv, TagInv
  <2> QED
    BY <1>0, <2>1, TagGets
<1>6. ASSUME NEW i, Sound(i), i.tags \in [Tag -> Nat] PROVE Sound(i)'
  <2>1. stale' = stale /\ dead' = dead
    OBVIOUS
  <2> QED
    BY <1>0, <1>2, <1>6, <2>1, SoundStays
<1>8. call' \in [Client -> TGetCall] /\ call'[c] = r /\ \A d \in Client \ {c} : call'[d] = call[d]
  BY <1>0
<1>9. ASSUME NEW d \in Client PROVE CallInv(call[d])'
  <2>1. call[d] \in TGetCall /\ CallInv(call[d])
    BY <1>0 DEF IInv
  <2>2. call[d].tags \in [Tag -> Nat] /\ (call[d].raw # NoItem => call[d].raw.tags \in [Tag -> Nat])
    BY <2>1 DEF TGetCall, Item
  <2>3. CASE d # c
    BY <1>6, <1>8, <2>1, <2>2, <2>3 DEF CallInv
  <2>4. CASE d = c
    BY <1>6, <1>8, <2>1, <2>2, <2>4 DEF CallInv, Sound
  <2> QED
    BY <2>3, <2>4
<1>10. Items'
  BY <1>6 DEF IInv, TypeOK, Item, Items
<1>11. TypeOK'
  BY <1>2, <1>8 DEF IInv, TypeOK
<1> QED
  BY <1>2, <1>9, <1>10, <1>11 DEF IInv, Items

LEMMA SetTagStep == ASSUME IInv, NEW c \in Client, NEW t \in Tag, SetTag(c, t) PROVE IInv'
<1> DEFINE me == call[c]
           r == [me EXCEPT !.at = IF me.todo = {t} THEN "set" ELSE "set tags",
                           !.todo = @ \ {t}, !.tags[t] = me.stamp, !.late = Late(c, {t})]
<1>0. /\ me \in TGetCall /\ CallInv(me) /\ call \in [Client -> TGetCall]
      /\ me.tags \in [Tag -> Nat] /\ me.stamp \in Nat /\ me.val \in Nat
      /\ stale \in [Tag -> Nat] /\ dead \in [Tag -> Nat] /\ used \in [Tag -> Nat]
  BY DEF IInv, TypeOK, TGetCall
<1>1. /\ Value(t, me.stamp) /\ call' = [call EXCEPT ![c] = r]
      /\ UNCHANGED <<item, lock, now, data, stale, lost, dead>>
  BY DEF SetTag, Becomes
<1>2. used' \in [Tag -> Nat] /\ (\A u \in Tag : used[u] <= used'[u]) /\ me.stamp <= used'[t]
  BY <1>0, <1>1 DEF Value
<1>3. /\ Late(c, {t}) \in BOOLEAN /\ (me.val < stale[t] => Late(c, {t}))
      /\ (me.late => Late(c, {t}))
  BY <1>0 DEF Late, TGetCall
<1>4. r \in TGetCall
  BY <1>0, <1>3 DEF TGetCall, Places
<1>5. /\ r.raw = me.raw /\ r.val = me.val /\ r.late = Late(c, {t}) /\ r.at \in {"set", "set tags"}
      /\ r.tags = [me.tags EXCEPT ![t] = me.stamp]
  BY <1>0 DEF TGetCall
<1>7. ASSUME NEW u \in Tag, r.tags[u] # Missing
      PROVE  r.tags[u] <= used'[u] /\ (r.tags[u] > dead'[u] => r.val >= stale'[u] \/ r.late)
  <2>1. CASE u = t
    BY <1>0, <1>1, <1>2, <1>3, <1>5, <2>1
  <2>2. CASE u # t
    <3>1. r.tags[u] = me.tags[u]
      BY <1>0, <1>5, <2>2
    <3>2. me.tags[u] <= used[u] /\ (me.tags[u] > dead[u] => me.val >= stale[u] \/ me.late)
      BY <1>0, <1>7, <3>1 DEF CallInv, Sound
    <3> QED
      BY <1>0, <1>1, <1>2, <1>3, <1>5, <3>1, <3>2
  <2> QED
    BY <2>1, <2>2
<1> QED
  BY <1>1, <1>4, <1>5, <1>7, TagStep

LEMMA AnswerLostStep == ASSUME IInv, NEW c \in Client, NEW t \in Tag, AnswerLost(c, t) PROVE IInv'
<1> DEFINE me == call[c]
           r == [me EXCEPT !.at = "unlock", !.try = 0]
<1>0. /\ me \in TGetCall /\ CallInv(me) /\ me.stamp \in Nat /\ me.tags \in [Tag -> Nat]
      /\ used \in [Tag -> Nat]
  BY DEF IInv, TypeOK, TGetCall
<1>1. /\ Value(t, me.stamp) /\ call' = [call EXCEPT ![c] = r]
      /\ UNCHANGED <<item, lock, now, data, stale, lost, dead>>
  BY DEF AnswerLost, Goto, Becomes
<1>2. used' \in [Tag -> Nat] /\ \A u \in Tag : used[u] <= used'[u]
  BY <1>0, <1>1 DEF Value
<1>3. r \in TGetCall
  BY <1>0, TryCounts DEF TGetCall, Places
<1>4. r.raw = me.raw /\ r.val = me.val /\ r.late = me.late /\ r.at = "unlock" /\ r.tags = me.tags
  BY <1>0 DEF TGetCall
<1>5. ASSUME NEW u \in Tag, r.tags[u] # Missing
      PROVE  r.tags[u] <= used'[u] /\ (r.tags[u] > dead'[u] => r.val >= stale'[u] \/ r.late)
  <2>1. dead' = dead /\ stale' = stale
    BY <1>1
  <2>2. me.tags[u] <= used[u] /\ (me.tags[u] > dead[u] => me.val >= stale[u] \/ me.late)
    BY <1>0, <1>4, <1>5 DEF CallInv, Sound
  <2>3. me.tags[u] \in Nat /\ used[u] \in Nat /\ used'[u] \in Nat /\ used[u] <= used'[u]
    BY <1>0, <1>2
  <2>4. me.tags[u] <= used'[u]
    BY <2>2, <2>3
  <2> QED
    BY <1>4, <2>1, <2>2, <2>4
<1> QED
  BY <1>1, <1>3, <1>4, <1>5, TagStep

-----------------------------------------------------------------------------
(* What the outside world does. *)
LEMMA InvalidateStep == ASSUME IInv, NEW t \in Tag, Invalidate(t) PROVE IInv'
<1>0. /\ stale \in [Tag -> Nat] /\ dead \in [Tag -> Nat] /\ used \in [Tag -> Nat]
      /\ tag \in [Tag -> Nat] /\ data \in Nat /\ call \in [Client -> TGetCall]
  BY DEF IInv, TypeOK
<1>1. /\ stale' = [stale EXCEPT ![t] = data] /\ dead' = [dead EXCEPT ![t] = used[t]]
      /\ UNCHANGED <<item, lock, call, now, data, lost>>
  BY DEF Invalidate
<1>2. /\ dead' \in [Tag -> Nat] /\ stale' \in [Tag -> Nat]
      /\ \A u \in Tag : dead'[u] <= used[u]
      /\ dead'[t] = used[t]
      /\ \A u \in Tag \ {t} : dead'[u] = dead[u] /\ stale'[u] = stale[u]
  BY <1>0, <1>1 DEF IInv, TagInv
<1>3. /\ tag' \in [Tag -> Nat] /\ used' \in [Tag -> Nat] /\ revived' \subseteq Tag /\ TagInv'
      /\ \A u \in Tag : used[u] <= used'[u]
  <2>1. CASE tag[t] = Missing
    BY <1>0, <1>2, <2>1 DEF Invalidate, IInv, TypeOK, TagInv
  <2>2. CASE tag[t] # Missing
    <3>1. Value(t, tag[t] + 1) /\ tag[t] + 1 \in Nat
      BY <1>0, <2>2 DEF Invalidate
    <3> QED
      BY <1>2, <3>1, TagGets
  <2> QED
    BY <2>1, <2>2
<1>4. ASSUME NEW i, Sound(i), i.tags \in [Tag -> Nat] PROVE Sound(i)'
  <2>1. ASSUME NEW u \in Tag, i.tags[u] # Missing
        PROVE  i.tags[u] <= used'[u] /\ (i.tags[u] > dead'[u] => i.val >= stale'[u] \/ i.late)
    <3>1. i.tags[u] \in Nat /\ i.tags[u] <= used[u] /\ used[u] \in Nat /\ used'[u] \in Nat
      BY <1>0, <1>3, <1>4, <2>1 DEF Sound
    <3>2. CASE u = t
      BY <1>2, <1>3, <3>1, <3>2
    <3>3. CASE u # t
      BY <1>2, <1>3, <1>4, <2>1, <3>1, <3>3 DEF Sound
    <3> QED
      BY <3>2, <3>3
  <2> QED
    BY <2>1 DEF Sound, Missing
<1>5. Calls'
  <2>1. ASSUME NEW d \in Client PROVE CallInv(call[d])'
    <3>1. /\ call[d] \in TGetCall /\ CallInv(call[d]) /\ call'[d] = call[d]
          /\ call[d].tags \in [Tag -> Nat]
          /\ call[d].raw # NoItem => call[d].raw.tags \in [Tag -> Nat]
      BY <1>0, <1>1 DEF IInv, TGetCall, Item
    <3> QED
      BY <1>4, <3>1 DEF CallInv
  <2> QED
    BY <2>1 DEF Calls
<1>6. Items'
  BY <1>1, <1>4 DEF IInv, TypeOK, Item, Items
<1>7. TypeOK'
  BY <1>1, <1>2, <1>3 DEF IInv, TypeOK
<1> QED
  BY <1>3, <1>5, <1>6, <1>7 DEF IInv, Items, Calls

LEMMA EnvironmentStep == ASSUME IInv, Environment PROVE IInv'
<1>1. CASE Change \/ Tick
  <2>1. UNCHANGED <<mem, call, history>> /\ data' \in Nat /\ now' \in Nat \ {0}
    BY <1>1 DEF Change, Tick, IInv, TypeOK
  <2>2. TypeOK'
    BY <2>1 DEF mem, history, IInv, TypeOK
  <2>3. TagInv' /\ Items' /\ Calls'
    BY <2>1 DEF mem, history, IInv, TagInv, Items, Calls, CallInv, Sound
  <2> QED
    BY <2>2, <2>3 DEF IInv, Items, Calls
<1>3. ASSUME NEW t \in Tag, LoseTag(t) PROVE IInv'
  <2>1. UNCHANGED <<item, lock, call, now, data, history>> /\ tag' = [tag EXCEPT ![t] = Missing]
    BY <1>3 DEF LoseTag
  <2>2. TypeOK'
    BY <2>1 DEF history, IInv, TypeOK, Missing
  <2>3. TagInv'
    BY <2>1 DEF history, IInv, TypeOK, TagInv, Missing
  <2> QED
    BY <2>1, <2>2, <2>3 DEF history, IInv, CallInv, Sound
<1>4. ASSUME NEW k \in Key, LoseItem(k) PROVE IInv'
  <2>1. UNCHANGED <<tag, lock, call, now, data, history>> /\ item' = [item EXCEPT ![k] = NoItem]
    BY <1>4 DEF LoseItem
  <2>2. TypeOK' /\ Items'
    BY <2>1 DEF history, IInv, TypeOK, Items, Sound
  <2>3. TagInv' /\ Calls'
    BY <2>1 DEF history, IInv, TagInv, Calls, CallInv, Sound
  <2> QED
    BY <2>2, <2>3 DEF IInv, Items, Calls
<1>5. ASSUME NEW k \in Key, LoseLock(k) PROVE IInv'
  <2>1. /\ UNCHANGED <<item, tag, call, now, data, stale, used, dead, revived>>
        /\ lock' = [lock EXCEPT ![k] = Nobody] /\ lost' = lost \cup {k}
    BY <1>5 DEF LoseLock
  <2>2. TypeOK'
    BY <2>1 DEF IInv, TypeOK
  <2>3. TagInv' /\ Items' /\ Calls'
    BY <2>1 DEF IInv, TagInv, Items, Calls, CallInv, Sound
  <2> QED
    BY <2>2, <2>3 DEF IInv, Items, Calls
<1> QED
  BY <1>1, <1>3, <1>4, <1>5, InvalidateStep DEF Environment

LEMMA NextIInv == IInv /\ [Next]_vars => IInv'
<1> SUFFICES ASSUME IInv, [Next]_vars PROVE IInv'
  OBVIOUS
<1>1. CASE UNCHANGED vars
  BY <1>1 DEF vars, mem, history, IInv, TypeOK, TagInv, CallInv, Sound
<1>2. ASSUME NEW c \in Client,
             \/ TGet(c) \/ RequestFails(c) \/ Crash(c) \/ \E k \in Key : Call(c, k)
             \/ \E t \in Tag : AnswerLost(c, t)
      PROVE  IInv'
  BY <1>2, ReadingSteps, LockStep, UnlockStep, SetItemStep, SetTagStep, AnswerLostStep DEF TGet
<1> QED
  BY <1>1, <1>2, EnvironmentStep DEF Next

(* The inductive invariant of the cache. *)
THEOREM Invariance == Spec => []IInv
BY InitIInv, NextIInv, PTL DEF Spec

(* However many clients call TGet, and whatever fails, a stale item counts *)
(* as good (isTagsValid) only after one of the two races that the property *)
(* names.                                                                  *)
THEOREM StalenessNeedsRace == Spec => []StaleNeedsRace
<1>1. ASSUME IInv, NEW i, i # NoItem => Sound(i) /\ i.tags \in [Tag -> Nat] PROVE Kept(i)
  <2>1. ASSUME Good(i), NEW t \in Tag, i.tags[t] # Missing, t \notin revived
        PROVE  i.val >= stale[t] \/ i.late
    <3>1. i.tags[t] = tag[t] /\ tag[t] > dead[t]
      BY <1>1, <2>1 DEF Good, SameTags, IInv, TagInv
    <3> QED
      BY <1>1, <2>1, <3>1 DEF Good, Sound
  <2> QED
    BY <2>1 DEF Kept
<1>2. IInv => StaleNeedsRace
  <2> SUFFICES ASSUME IInv PROVE StaleNeedsRace
    OBVIOUS
  <2>1. ASSUME NEW k \in Key PROVE Kept(item[k])
    BY <1>1 DEF IInv, TypeOK, Item
  <2>2. ASSUME NEW c \in Client PROVE Kept(call[c].raw)
    BY <1>1 DEF IInv, TypeOK, TGetCall, Item, CallInv
  <2> QED
    BY <2>1, <2>2 DEF StaleNeedsRace
<1> QED
  BY <1>2, Invariance, PTL

-----------------------------------------------------------------------------
(* The lock.  A step that leaves the locks alone keeps LockInv if its      *)
(* client, if it is still an owner, was one, of the same key.              *)
StaysOwner(c) == /\ \A d \in Client \ {c} : call'[d] = call[d]
                 /\ call'[c].owns => call[c].owns /\ call'[c].key = call[c].key

LEMMA KeepsLocks ==
  ASSUME LockInv, NEW c \in Client, StaysOwner(c), UNCHANGED <<lock, lost>>
  PROVE  LockInv'
<1>1. ASSUME NEW d \in Client, call'[d].owns
      PROVE  lock'[call'[d].key] = d \/ call'[d].key \in lost'
  BY <1>1 DEF StaysOwner, LockInv
<1> QED
  BY <1>1 DEF LockInv

LEMMA Stays ==
  ASSUME TypeOK, NEW c \in Client, NEW l,
         Goto(c, l) \/ TryAgain(c, l) \/ Return(c)
  PROVE  StaysOwner(c)
<1>0. call \in [Client -> TGetCall] /\ call[c] \in TGetCall
  BY DEF TypeOK
<1>1. CASE Goto(c, l)
  BY <1>0, <1>1 DEF Goto, Becomes, StaysOwner, TGetCall
<1>2. CASE TryAgain(c, l)
  BY <1>0, <1>1, <1>2 DEF TryAgain, Becomes, StaysOwner, TGetCall
<1>3. CASE Return(c)
  BY <1>0, <1>3 DEF Return, Idle, Becomes, StaysOwner, TGetCall
<1> QED
  BY <1>1, <1>2, <1>3

LEMMA NextLockInv == TypeOK /\ LockInv /\ [Next]_vars => LockInv'
<1> SUFFICES ASSUME TypeOK, LockInv, [Next]_vars PROVE LockInv'
  OBVIOUS
<1>1. CASE UNCHANGED vars \/ Environment
  <2>1. UNCHANGED call /\ \A k \in Key : lock'[k] = lock[k] \/ k \in lost'
    BY <1>1 DEF vars, mem, history, TypeOK, Environment, Change, Tick, Invalidate, LoseTag,
                LoseItem, LoseLock
  <2>2. lost \subseteq lost' /\ \A c \in Client : call[c].key \in Key
    BY <1>1 DEF vars, history, TypeOK, TGetCall, Environment, Change, Tick, Invalidate, LoseTag,
                LoseItem, LoseLock
  <2> QED
    BY <2>1, <2>2 DEF LockInv
<1>2. ASSUME NEW c \in Client,
             \/ TGet(c) \/ RequestFails(c) \/ Crash(c) \/ \E k \in Key : Call(c, k)
             \/ \E t \in Tag : AnswerLost(c, t)
      PROVE  LockInv'
  <2> DEFINE me == call[c]
  <2>0. me \in TGetCall /\ me.key \in Key /\ call \in [Client -> TGetCall] /\ ~Idle(me.key).owns
    BY DEF TypeOK, TGetCall, Idle
  <2>1. CASE LockRebuild(c)
    <3>1. CASE MayAdd(me.key) /\ Becomes(c, [me EXCEPT !.at = "build", !.owns = TRUE])
      <4>1. lock[me.key] = Nobody /\ lock' = [lock EXCEPT ![me.key] = c] /\ lost' = lost
        BY <2>1, <3>1 DEF LockRebuild, MayAdd, history
      <4>2. /\ call'[c].key = me.key /\ \A d \in Client \ {c} : call'[d] = call[d]
            /\ lock'[me.key] = c /\ \A k \in Key \ {me.key} : lock'[k] = lock[k]
        BY <2>0, <3>1, <4>1 DEF Becomes, TGetCall, TypeOK
      <4>3. \A d \in Client : call[d].key \in Key
        BY <2>0 DEF TGetCall
      <4> QED
        BY <4>1, <4>2, <4>3, TCacheAssumption DEF LockInv
    <3>2. CASE TryAgain(c, "build") /\ UNCHANGED lock
      BY <2>1, <3>2, Stays, KeepsLocks DEF LockRebuild, history
    <3> QED
      BY <2>1, <3>1, <3>2 DEF LockRebuild
  <2>2. CASE UnlockRebuild(c)
    <3>1. /\ call' = [call EXCEPT ![c] = Idle(me.key)]
          /\ lock' = [lock EXCEPT ![me.key] = Nobody]
          /\ lost' = lost \cup {x \in {me.key} : lock[me.key] \notin {Nobody, c}}
      BY <2>2 DEF UnlockRebuild, Return, Becomes
    <3>2. ASSUME NEW d \in Client, call'[d].owns
          PROVE  lock'[call'[d].key] = d \/ call'[d].key \in lost'
      <4>1. d # c /\ call'[d] = call[d] /\ call[d].key \in Key /\ call[d].owns
        BY <2>0, <3>1, <3>2 DEF TGetCall
      <4>2. lock[call[d].key] = d \/ call[d].key \in lost
        BY <4>1 DEF LockInv
      <4>3. lock' [call[d].key] = lock[call[d].key] \/ call[d].key = me.key
        BY <3>1, <4>1 DEF TypeOK
      <4> QED
        BY <3>1, <4>1, <4>2, <4>3, TCacheAssumption
    <3> QED
      BY <3>2 DEF LockInv
  <2>3. CASE ~LockRebuild(c) /\ ~UnlockRebuild(c)
    <3>1. UNCHANGED <<lock, lost>>
      BY <1>2, <2>3 DEF TGet, RequestFails, Crash, Call, CheckLock, GetItem, IsTagsValid, RebuildCb,
                        GetTags, Stamp, SetItem, SetTag, AnswerLost, Reads, mem, history
    <3>2. ASSUME CheckLock(c) \/ IsTagsValid(c) \/ SetItem(c) \/ RequestFails(c) \/ Crash(c) PROVE StaysOwner(c)
      BY <3>2, Stays DEF CheckLock, IsTagsValid, SetItem, RequestFails, Crash
    <3>3. ASSUME GetItem(c) PROVE StaysOwner(c)
      BY <2>0, <3>3, Stays DEF GetItem, Becomes, StaysOwner, TGetCall
    <3>4. ASSUME RebuildCb(c) PROVE StaysOwner(c)
      BY <2>0, <3>4, Stays DEF RebuildCb, BuildFails, Becomes, StaysOwner, TGetCall
    <3>5. ASSUME GetTags(c) PROVE StaysOwner(c)
      BY <2>0, <3>5 DEF GetTags, Becomes, StaysOwner, TGetCall
    <3>6. ASSUME Stamp(c) PROVE StaysOwner(c)
      BY <2>0, <3>6 DEF Stamp, Becomes, StaysOwner, TGetCall
    <3>7. ASSUME NEW t \in Tag, SetTag(c, t) PROVE StaysOwner(c)
      BY <2>0, <3>7 DEF SetTag, Becomes, StaysOwner, TGetCall
    <3>8. ASSUME NEW k \in Key, Call(c, k) PROVE StaysOwner(c)
      BY <2>0, <3>8 DEF Call, Idle, Becomes, StaysOwner
    <3>10. ASSUME NEW t \in Tag, AnswerLost(c, t) PROVE StaysOwner(c)
      BY <3>10, Stays DEF AnswerLost
    <3>9. StaysOwner(c)
      BY <1>2, <2>3, <3>2, <3>3, <3>4, <3>5, <3>6, <3>7, <3>8, <3>10 DEF TGet
    <3> QED
      BY <3>1, <3>9, KeepsLocks
  <2> QED
    BY <2>1, <2>2, <2>3
<1> QED
  BY <1>1, <1>2 DEF Next

(* Two clients hold the lock of a key at once only if it was dropped under *)
(* its holder, by expiry or by a client that had not got it.               *)
THEOREM OneHolder == Spec => []TwoHoldersNeedLoss
<1>1. Init => LockInv
  BY DEF Init, LockInv, Idle
<1>2. LockInv => TwoHoldersNeedLoss
  BY DEF LockInv, TwoHoldersNeedLoss
<1>3. IInv => TypeOK
  BY DEF IInv
<1> QED
  BY <1>1, <1>2, <1>3, NextLockInv, Invariance, PTL DEF Spec

(* What the cache holds and where the calls are keep their types.          *)
THEOREM TypeCorrectness == Spec => []TypeOK
<1>1. IInv => TypeOK
  BY DEF IInv
<1> QED
  BY <1>1, Invariance, PTL

(* An owner's lock is in the cache under its name, or was dropped.         *)
THEOREM OwnersLock == Spec => []LockInv
<1>1. Init => LockInv
  BY DEF Init, LockInv, Idle
<1>2. IInv => TypeOK
  BY DEF IInv
<1> QED
  BY <1>1, <1>2, NextLockInv, Invariance, PTL DEF Spec

-----------------------------------------------------------------------------
(* A call owns a lock only between LockRebuild and UnlockRebuild, and as   *)
(* long as nothing failed or crashed each lock has its owner.              *)
Unlocking == {"build", "get tags", "stamp", "set tags", "set", "unlock"}
OwnInv ==
  /\ spent \in [{"calls", "incs", "faults", "losses", "crashes"} -> Nat]
  /\ \A c \in Client : call[c].owns => call[c].at \in Unlocking
  /\ NoLockLeft

(* A step that leaves the locks alone and lets an owner be one.            *)
LEMMA KeepsOwners ==
  ASSUME TypeOK, OwnInv, NEW c \in Client, UNCHANGED lock,
         \A d \in Client \ {c} : call'[d] = call[d],
         call'[c].owns => call'[c].at \in Unlocking,
         \/ spent'.faults # 0 \/ spent'.crashes # 0
         \/ /\ call[c].owns => call'[c].owns /\ call'[c].key = call[c].key
            /\ spent'.faults = spent.faults /\ spent'.crashes = spent.crashes,
         spent' \in [{"calls", "incs", "faults", "losses", "crashes"} -> Nat]
  PROVE  OwnInv'
<1>1. \A d \in Client : call'[d].owns => call'[d].at \in Unlocking
  BY DEF OwnInv
<1>2. NoLockLeft'
  <2> SUFFICES ASSUME spent'.faults = 0, spent'.crashes = 0, NEW k \in Key, lock[k] # Nobody
               PROVE  call'[lock[k]].owns /\ call'[lock[k]].key = k
    BY DEF NoLockLeft
  <2>1. lock[k] \in Client /\ call[lock[k]].owns /\ call[lock[k]].key = k
    BY DEF TypeOK, OwnInv, NoLockLeft
  <2> QED
    BY <2>1
<1> QED
  BY <1>1, <1>2 DEF OwnInv

LEMMA SpendIs ==
  ASSUME OwnInv, NEW what \in {"calls", "incs", "faults", "losses", "crashes"}, NEW limit,
         Spend(what, limit)
  PROVE  /\ spent' \in [{"calls", "incs", "faults", "losses", "crashes"} -> Nat]
         /\ spent'[what] = spent[what] + 1 /\ spent[what] \in Nat
         /\ what # "faults" => spent'.faults = spent.faults
         /\ what # "crashes" => spent'.crashes = spent.crashes
BY DEF OwnInv, Spend

LEMMA NextOwnInv == TypeOK /\ OwnInv /\ [Next]_vars => OwnInv'
<1> SUFFICES ASSUME TypeOK, OwnInv, [Next]_vars PROVE OwnInv'
  OBVIOUS
<1> DEFINE Spends == [{"calls", "incs", "faults", "losses", "crashes"} -> Nat]
<1>1. CASE UNCHANGED vars
  BY <1>1 DEF vars, mem, OwnInv, NoLockLeft
<1>2. CASE Environment
  <2>1. /\ UNCHANGED call /\ spent' \in Spends
        /\ spent'.faults = spent.faults /\ spent'.crashes = spent.crashes
    BY <1>2, SpendIs DEF Environment, Change, Tick, Invalidate, LoseTag, LoseItem, LoseLock, OwnInv
  <2>2. \A k \in Key : lock'[k] \in {lock[k], Nobody}
    BY <1>2 DEF Environment, Change, Tick, Invalidate, LoseTag, LoseItem, LoseLock, mem, TypeOK
  <2> QED
    BY <2>1, <2>2 DEF OwnInv, NoLockLeft
<1>3. ASSUME NEW c \in Client,
             \/ TGet(c) \/ RequestFails(c) \/ Crash(c) \/ \E k \in Key : Call(c, k)
             \/ \E t \in Tag : AnswerLost(c, t)
      PROVE  OwnInv'
  <2> DEFINE me == call[c]
  <2>0. /\ me \in TGetCall /\ me.key \in Key /\ call \in [Client -> TGetCall]
        /\ ~Idle(me.key).owns /\ Idle(me.key).key = me.key
        /\ spent \in Spends /\ (me.owns => me.at \in Unlocking)
    BY DEF TypeOK, TGetCall, Idle, OwnInv
  <2>g. ASSUME NEW l \in Places, Goto(c, l)
        PROVE  /\ \A d \in Client \ {c} : call'[d] = call[d]
               /\ call'[c].at = l /\ call'[c].owns = me.owns /\ call'[c].key = me.key
    BY <2>0, <2>g DEF Goto, Becomes, TGetCall
  <2>t. ASSUME NEW l \in Places, TryAgain(c, l)
        PROVE  /\ \A d \in Client \ {c} : call'[d] = call[d]
               /\ call'[c].at \in {l, me.at} /\ call'[c].owns = me.owns /\ call'[c].key = me.key
    BY <2>0, <2>t, <2>g DEF TryAgain, Becomes, TGetCall
  <2>r. ASSUME Return(c)
        PROVE  (\A d \in Client \ {c} : call'[d] = call[d]) /\ ~call'[c].owns
    BY <2>0, <2>r DEF Return, Becomes
  <2>1. CASE CheckLock(c) \/ IsTagsValid(c)
    <3>1. ~me.owns /\ UNCHANGED <<lock, spent>>
      BY <2>0, <2>1 DEF CheckLock, IsTagsValid, At, Unlocking, Reads, mem
    <3>2. (\A d \in Client \ {c} : call'[d] = call[d]) /\ ~call'[c].owns
      BY <2>1, <2>g, <2>t, <2>r, <3>1 DEF CheckLock, IsTagsValid, Places
    <3> QED
      BY <2>0, <3>1, <3>2, KeepsOwners
  <2>2. CASE GetItem(c)
    <3>1. ~me.owns /\ UNCHANGED <<lock, spent>>
      BY <2>0, <2>2 DEF GetItem, At, Unlocking, Reads, mem
    <3>2. (\A d \in Client \ {c} : call'[d] = call[d]) /\ ~call'[c].owns
      <4>1. CASE Goto(c, "lock")
        BY <2>g, <3>1, <4>1 DEF Places
      <4>2. CASE Becomes(c, [me EXCEPT !.at = "tags valid", !.raw = item[me.key]])
        BY <2>0, <3>1, <4>2 DEF Becomes, TGetCall
      <4> QED
        BY <2>2, <4>1, <4>2 DEF GetItem
    <3> QED
      BY <2>0, <3>1, <3>2, KeepsOwners
  <2>3. CASE RebuildCb(c)
    <3>1. /\ \A d \in Client \ {c} : call'[d] = call[d]
          /\ call'[c].at \in Unlocking /\ call'[c].owns = me.owns /\ call'[c].key = me.key
          /\ UNCHANGED <<lock, spent>>
      <4>1. CASE Goto(c, "unlock")
        BY <2>3, <2>g, <4>1 DEF RebuildCb, Places, Unlocking, Reads, mem
      <4>2. CASE Becomes(c, [me EXCEPT !.at = "get tags", !.val = data])
        BY <2>0, <2>3, <4>2 DEF RebuildCb, Becomes, TGetCall, Unlocking, Reads, mem
      <4> QED
        BY <2>3, <4>1, <4>2 DEF RebuildCb, BuildFails
    <3> QED
      BY <2>0, <3>1, KeepsOwners
  <2>4. CASE GetTags(c) \/ Stamp(c) \/ \E t \in Tag : SetTag(c, t)
    <3>1. /\ \A d \in Client \ {c} : call'[d] = call[d]
          /\ call'[c].at \in Unlocking /\ call'[c].owns = me.owns /\ call'[c].key = me.key
          /\ UNCHANGED <<lock, spent>>
      <4>1. CASE GetTags(c)
        BY <2>0, <4>1 DEF GetTags, Becomes, TGetCall, Unlocking, Reads, mem
      <4>2. CASE Stamp(c)
        BY <2>0, <4>2 DEF Stamp, Becomes, TGetCall, Unlocking, Reads, mem
      <4>3. ASSUME NEW t \in Tag, SetTag(c, t)
            PROVE  /\ \A d \in Client \ {c} : call'[d] = call[d]
                   /\ call'[c].at \in Unlocking /\ call'[c].owns = me.owns
                   /\ call'[c].key = me.key /\ UNCHANGED <<lock, spent>>
        BY <2>0, <4>3 DEF SetTag, Becomes, TGetCall, Unlocking
      <4> QED
        BY <2>4, <4>1, <4>2, <4>3
    <3> QED
      BY <2>0, <3>1, KeepsOwners
  <2>5. CASE SetItem(c)
    <3>1. /\ \A d \in Client \ {c} : call'[d] = call[d]
          /\ call'[c].at \in Unlocking /\ call'[c].owns = me.owns /\ call'[c].key = me.key
          /\ UNCHANGED <<lock, spent>>
      BY <2>5, <2>g DEF SetItem, Places, Unlocking
    <3> QED
      BY <2>0, <3>1, KeepsOwners
  <2>6. CASE LockRebuild(c)
    <3>0. me.at = "lock" /\ ~me.owns /\ UNCHANGED spent
      BY <2>0, <2>6 DEF LockRebuild, At, Unlocking
    <3>1. CASE MayAdd(me.key) /\ Becomes(c, [me EXCEPT !.at = "build", !.owns = TRUE])
      <4>1. lock[me.key] = Nobody /\ lock' = [lock EXCEPT ![me.key] = c]
        BY <2>6, <3>1 DEF LockRebuild, MayAdd
      <4>2. /\ call'[c].key = me.key /\ call'[c].owns /\ call'[c].at = "build"
            /\ \A d \in Client \ {c} : call'[d] = call[d]
            /\ lock'[me.key] = c /\ \A k \in Key \ {me.key} : lock'[k] = lock[k]
        BY <2>0, <3>1, <4>1 DEF Becomes, TGetCall, TypeOK
      <4>3. ASSUME spent.faults = 0, spent.crashes = 0, NEW k \in Key \ {me.key}, lock[k] # Nobody
            PROVE  call'[lock[k]].owns /\ call'[lock[k]].key = k
        <5>1. lock[k] \in Client /\ call[lock[k]].owns /\ call[lock[k]].key = k
          BY <4>3 DEF TypeOK, OwnInv, NoLockLeft
        <5> QED
          BY <3>0, <4>2, <5>1
      <4>4. NoLockLeft'
        BY <3>0, <4>2, <4>3 DEF NoLockLeft
      <4> QED
        BY <3>0, <4>2, <4>4 DEF OwnInv, Unlocking
    <3>2. CASE TryAgain(c, "build") /\ UNCHANGED lock
      <4>1. (\A d \in Client \ {c} : call'[d] = call[d]) /\ ~call'[c].owns
        BY <2>t, <3>0, <3>2 DEF Places
      <4> QED
        BY <2>0, <3>0, <3>2, <4>1, KeepsOwners
    <3> QED
      BY <2>6, <3>1, <3>2 DEF LockRebuild
  <2>7. CASE UnlockRebuild(c)
    <3>1. /\ lock' = [lock EXCEPT ![me.key] = Nobody] /\ UNCHANGED spent
          /\ \A d \in Client \ {c} : call'[d] = call[d]
          /\ ~call'[c].owns
      BY <2>7, <2>r DEF UnlockRebuild
    <3>2. ASSUME spent.faults = 0, spent.crashes = 0, NEW k \in Key, lock'[k] # Nobody
          PROVE  call'[lock'[k]].owns /\ call'[lock'[k]].key = k
      <4>1. k # me.key /\ lock'[k] = lock[k] /\ lock[k] \in Client
        BY <3>1, <3>2 DEF TypeOK
      <4>2. call[lock[k]].owns /\ call[lock[k]].key = k
        BY <3>2, <4>1 DEF OwnInv, NoLockLeft
      <4> QED
        BY <3>1, <4>1, <4>2
    <3>3. NoLockLeft'
      BY <3>1, <3>2 DEF NoLockLeft
    <3> QED
      BY <3>1, <3>3 DEF OwnInv
  <2>8. CASE RequestFails(c)
    <3>1. PICK l \in AfterFailure(me.at) : IF l = "idle" THEN Return(c) ELSE Goto(c, l)
      BY <2>8 DEF RequestFails
    <3>2. l \in Places /\ (me.at \in Unlocking /\ l # "idle" => l \in Unlocking)
      BY DEF AfterFailure, Places, Unlocking
    <3>3. /\ \A d \in Client \ {c} : call'[d] = call[d]
          /\ call'[c].owns => call'[c].at \in Unlocking
      BY <2>0, <2>g, <2>r, <3>1, <3>2
    <3>4. spent' \in Spends /\ spent'.faults # 0 /\ UNCHANGED lock
      BY <2>8, SpendIs DEF RequestFails, mem
    <3> QED
      BY <3>3, <3>4, KeepsOwners
  <2>9. CASE Crash(c)
    <3>1. spent' \in Spends /\ spent'.crashes # 0 /\ UNCHANGED lock
      BY <2>9, SpendIs DEF Crash, mem
    <3> QED
      BY <2>9, <2>r, <3>1, KeepsOwners DEF Crash
  <2>10. ASSUME NEW k \in Key, Call(c, k) PROVE OwnInv'
    <3>1. /\ ~me.owns /\ UNCHANGED lock /\ spent' \in Spends
          /\ spent'.faults = spent.faults /\ spent'.crashes = spent.crashes
      BY <2>0, <2>10, SpendIs DEF Call, At, Unlocking, mem
    <3>2. (\A d \in Client \ {c} : call'[d] = call[d]) /\ ~call'[c].owns
      BY <2>0, <2>10 DEF Call, Becomes, Idle
    <3> QED
      BY <3>1, <3>2, KeepsOwners
  <2>11. ASSUME NEW t \in Tag, AnswerLost(c, t) PROVE OwnInv'
    <3>1. spent' \in Spends /\ spent'.faults # 0 /\ UNCHANGED lock /\ Goto(c, "unlock")
      <4>1. Spend("faults", MaxFaults) /\ UNCHANGED lock /\ Goto(c, "unlock")
        BY <2>11 DEF AnswerLost
      <4> QED
        BY <4>1, SpendIs
    <3>2. /\ \A d \in Client \ {c} : call'[d] = call[d]
          /\ call'[c].at \in Unlocking
      BY <2>g, <3>1 DEF Places, Unlocking
    <3> QED
      BY <3>1, <3>2, KeepsOwners
  <2> QED
    BY <1>3, <2>1, <2>2, <2>3, <2>4, <2>5, <2>6, <2>7, <2>8, <2>9, <2>10, <2>11 DEF TGet
<1> QED
  BY <1>1, <1>2, <1>3 DEF Next

(* However many clients rebuild and unlock, a lock does not survive the    *)
(* call that added it, unless a request failed or a client crashed: all    *)
(* ways out of rebuild unlock.                                             *)
THEOREM NoLockIsLeft == Spec => []NoLockLeft
<1>1. Init => OwnInv
  BY DEF Init, OwnInv, NoLockLeft, Idle
<1>2. OwnInv => NoLockLeft
  BY DEF OwnInv
<1>3. IInv => TypeOK
  BY DEF IInv
<1> QED
  BY <1>1, <1>2, <1>3, NextOwnInv, Invariance, PTL DEF Spec
=============================================================================

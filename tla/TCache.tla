------------------------------- MODULE TCache -------------------------------
(***************************************************************************)
(* The tagged cache of lectures/C2W2/database/tcache: clients that call    *)
(* TGet at the same time on one memcached.  An item is stored with the     *)
(* value each of its tags had; it is good for as long as the tags have     *)
(* those values, and incrementing a tag invalidates every item that        *)
(* carries it.  A client that finds no good item rebuilds it, under a lock *)
(* that is itself an entry of the cache.                                   *)
(*                                                                         *)
(* Every request to memcached is one action.  An entry may vanish at any   *)
(* moment (it expires, or memcached needs the room), a request may fail    *)
(* and a client may crash between two requests.                            *)
(***************************************************************************)
EXTENDS Integers

CONSTANTS Client, Key, Tag,
          TagsOf,      \* TagsOf[k]: the tags that the callback of k returns, in any order
          Tries,       \* checkLock and lockRebuild try this often (there, 4)
          Nobody,      \* nobody holds the lock
          NoItem,      \* there is no such item
          MaxNow, MaxData, MaxCalls, MaxIncs, MaxFaults, MaxLosses, MaxCrashes \* bounds of the model

ASSUME TCacheAssumption ==
  TagsOf \in [Key -> SUBSET Tag] /\ Nobody \notin Client

ASSUME TriesAssumption == Tries \in Nat /\ Tries >= 1

ASSUME BoundsAssumption ==
  {MaxNow, MaxData, MaxCalls, MaxIncs, MaxFaults, MaxLosses, MaxCrashes} \subseteq Nat

VARIABLES
  item,      \* memcached: the item of each key,
  tag,       \* the counter of each tag, Missing if there is none,
  lock,      \* and the lock of each key, with the client that added it
  call,      \* the call of TGet that each client is in
  now,       \* seconds
  data,      \* the version of the data that the callback reads
  stale,     \* history: for a tag, data before this version has been invalidated
  used,      \* history: the greatest value a tag has had,
  dead,      \* what that was at the last invalidation,
  revived,   \* and whether the tag has since had a value that old
  lost,      \* history: the locks that were dropped under their holder
  spent      \* how much of the model's bounds is used up

mem == <<item, tag, lock>>
history == <<stale, used, dead, revived, lost>>
vars == <<mem, call, now, data, history, spent>>

Missing == 0          \* a counter starts at a Unix time, which is never 0

NoTags == [t \in Tag |-> Missing]
Idle(k) == [at |-> "idle", key |-> k, try |-> 0, raw |-> NoItem, val |-> 0, late |-> FALSE,
            tags |-> NoTags, todo |-> {}, stamp |-> 0, owns |-> FALSE]

Init ==
  /\ item = [k \in Key |-> NoItem]
  /\ tag = [t \in Tag |-> Missing]
  /\ lock = [k \in Key |-> Nobody]
  /\ \E k \in Key : call = [c \in Client |-> Idle(k)]
  /\ now = 1 /\ data = 0
  /\ stale = [t \in Tag |-> 0]
  /\ used = [t \in Tag |-> 0]
  /\ dead = [t \in Tag |-> 0]
  /\ revived = {}
  /\ lost = {}
  /\ spent = [calls |-> 0, incs |-> 0, faults |-> 0, losses |-> 0, crashes |-> 0]

Spend(what, limit) == /\ spent[what] < limit
                      /\ spent' = [spent EXCEPT ![what] = @ + 1]

At(c, l) == call[c].at = l
Becomes(c, r) == call' = [call EXCEPT ![c] = r]
Goto(c, l) == Becomes(c, [call[c] EXCEPT !.at = l, !.try = 0])
Return(c) == Becomes(c, Idle(call[c].key))

(* A step that only reads memcached. *)
Reads == UNCHANGED <<mem, now, data, history, spent>>

-----------------------------------------------------------------------------
(* TGet(mkey, ...) *)
Call(c, k) == /\ At(c, "idle")
              /\ Spend("calls", MaxCalls)
              /\ Becomes(c, [Idle(k) EXCEPT !.at = "check"])
              /\ UNCHANGED <<mem, now, data, history>>

(* checkLock and lockRebuild give up after a number of tries, and their    *)
(* callers go on all the same.  Mutant: they go on trying.              *)
Forever(c, l) == UNCHANGED call
TryAgain(c, l) == IF call[c].try + 1 < Tries
                  THEN Becomes(c, [call[c] EXCEPT !.try = @ + 1])
                  ELSE Goto(c, l)

CheckLock(c) == /\ At(c, "check")
                /\ \/ lock[call[c].key] = Nobody /\ Goto(c, "get")
                   \/ lock[call[c].key] # Nobody /\ TryAgain(c, "get")
                /\ Reads

GetItem(c) == LET found == item[call[c].key] IN
  /\ At(c, "get")
  /\ \/ found = NoItem /\ Goto(c, "lock")
     \/ found # NoItem /\ Becomes(c, [call[c] EXCEPT !.at = "tags valid", !.raw = found])
  /\ Reads

(* isTagsValid: the tags of the item have the values it was stored with.   *)
(* Mutant: only those that are there are looked at.                        *)
SomeSame(i) == \A t \in Tag : i.tags[t] = tag[t] \/ i.tags[t] = Missing \/ tag[t] = Missing
SameTags(i) == \A t \in Tag : i.tags[t] # Missing => i.tags[t] = tag[t]

IsTagsValid(c) == /\ At(c, "tags valid")
                  /\ \/ SameTags(call[c].raw) /\ Return(c)
                     \/ ~SameTags(call[c].raw) /\ Goto(c, "lock")
                  /\ Reads

(* lockRebuild: memcached's Add stores an entry only if there is none.     *)
(* Mutant: it replaces the one that is there.                              *)
Always(k) == TRUE
MayAdd(k) == lock[k] = Nobody

LockRebuild(c) == LET k == call[c].key IN
  /\ At(c, "lock")
  /\ \/ /\ MayAdd(k)
        /\ lock' = [lock EXCEPT ![k] = c]
        /\ Becomes(c, [call[c] EXCEPT !.at = "build", !.owns = TRUE])
     \/ ~MayAdd(k) /\ TryAgain(c, "build") /\ UNCHANGED lock
  /\ UNCHANGED <<item, tag, now, data, history, spent>>

(* rebuildCb reads the data; when it fails its result has the wrong type.  *)
(* Mutant: that is returned past the deferred unlock.                      *)
ReturnLocked(c) == Return(c)
BuildFails(c) == Goto(c, "unlock")

RebuildCb(c) == /\ At(c, "build")
                /\ \/ Becomes(c, [call[c] EXCEPT !.at = "get tags", !.val = data])
                   \/ BuildFails(c)
                /\ Reads

-----------------------------------------------------------------------------
(* The client learns, or decides, that tag t has value v now.  History: it *)
(* is late if the data it holds has been invalidated meanwhile.            *)
Late(c, T) == call[c].late \/ \E t \in T : call[c].val < stale[t]

(* getCurrentItemTags asks for the tags, ... *)
GetTags(c) == LET me == call[c]
                  there == {t \in TagsOf[me.key] : tag[t] # Missing} IN
  /\ At(c, "get tags")
  /\ Becomes(c, [me EXCEPT !.at = IF there = TagsOf[me.key] THEN "set" ELSE "stamp",
                           !.todo = TagsOf[me.key] \ there,
                           !.tags = [t \in Tag |-> IF t \in there THEN tag[t] ELSE Missing],
                           !.late = Late(c, there)])
  /\ Reads

(* ... takes the time, ... *)
Stamp(c) == /\ At(c, "stamp")
            /\ Becomes(c, [call[c] EXCEPT !.at = "set tags", !.stamp = now])
            /\ Reads

(* History: tag t gets value v. *)
Value(t, v) ==
  /\ tag' = [tag EXCEPT ![t] = v]
  /\ used' = [used EXCEPT ![t] = IF v > @ THEN v ELSE @]
  /\ revived' = revived \cup {x \in {t} : v <= dead'[t]}

(* ... and starts the tags that were missing from it.  The Set replaces a  *)
(* tag that has been started meanwhile.                                    *)
SetTag(c, t) == LET me == call[c] IN
  /\ At(c, "set tags") /\ t \in me.todo
  /\ dead' = dead
  /\ Value(t, me.stamp)
  /\ Becomes(c, [me EXCEPT !.at = IF me.todo = {t} THEN "set" ELSE "set tags",
                           !.todo = @ \ {t},
                           !.tags[t] = me.stamp,
                           !.late = Late(c, {t})])
  /\ UNCHANGED <<item, lock, now, data, stale, lost, spent>>

(* The item is stored with those tags. *)
Store(c) == item' = [item EXCEPT ![call[c].key] =
  [val |-> call[c].val, late |-> call[c].late, tags |-> call[c].tags]]

SetItem(c) == /\ At(c, "set")
              /\ Store(c)
              /\ Goto(c, "unlock")
              /\ UNCHANGED <<tag, lock, now, data, history, spent>>

(* The deferred unlockRebuild deletes the lock, whoever added it. *)
UnlockRebuild(c) == LET k == call[c].key IN
  /\ At(c, "unlock")
  /\ lock' = [lock EXCEPT ![k] = Nobody]
  /\ lost' = lost \cup {x \in {k} : lock[k] \notin {Nobody, c}}
  /\ Return(c)
  /\ UNCHANGED <<item, tag, now, data, stale, used, dead, revived, spent>>

(* A request fails: checkLock's and lockRebuild's errors are ignored, so   *)
(* are the last Set's and the Delete's; the others end the call.           *)
AfterFailure(l) == CASE l = "check" -> {"get"}
                     [] l \in {"get", "tags valid", "unlock"} -> {"idle"}
                     [] l = "lock" -> {"build"}
                     [] l \in {"get tags", "set tags", "set"} -> {"unlock"}
                     [] OTHER -> {}

RequestFails(c) == /\ \E l \in AfterFailure(call[c].at) :
                        IF l = "idle" THEN Return(c) ELSE Goto(c, l)
                   /\ Spend("faults", MaxFaults)
                   /\ UNCHANGED <<mem, now, data, history>>

(* The answer of a request is lost: memcached has done it, and to the      *)
(* client it failed.  For a request whose error is ignored that is no      *)
(* different from success; the Set of a tag is the one that is left.       *)
AnswerLost(c, t) == /\ At(c, "set tags") /\ t \in call[c].todo
                    /\ dead' = dead
                    /\ Value(t, call[c].stamp)
                    /\ Goto(c, "unlock")
                    /\ Spend("faults", MaxFaults)
                    /\ UNCHANGED <<item, lock, now, data, stale, lost>>

Crash(c) == /\ ~At(c, "idle")
            /\ Return(c)
            /\ Spend("crashes", MaxCrashes)
            /\ UNCHANGED <<mem, now, data, history>>

-----------------------------------------------------------------------------
(* The data changes; whoever changes it then increments a tag of it, which *)
(* is main's tc.Increment.  A tag that is missing stays missing, and that  *)
(* invalidates its items just as well.                                     *)
Change == /\ data < MaxData
          /\ data' = data + 1
          /\ UNCHANGED <<mem, call, now, history, spent>>

Invalidate(t) == /\ stale' = [stale EXCEPT ![t] = data]
                 /\ dead' = [dead EXCEPT ![t] = used[t]]
                 /\ IF tag[t] = Missing THEN UNCHANGED <<tag, used, revived>>
                                        ELSE Value(t, tag[t] + 1)
                 /\ Spend("incs", MaxIncs)
                 /\ UNCHANGED <<item, lock, call, now, data, lost>>

Tick == now < MaxNow /\ now' = now + 1 /\ UNCHANGED <<mem, call, data, history, spent>>

(* An entry expires or is evicted. *)
LoseItem(k) == /\ item[k] # NoItem
               /\ item' = [item EXCEPT ![k] = NoItem]
               /\ Spend("losses", MaxLosses)
               /\ UNCHANGED <<tag, lock, call, now, data, history>>

LoseTag(t) == /\ tag[t] # Missing
              /\ tag' = [tag EXCEPT ![t] = Missing]
              /\ Spend("losses", MaxLosses)
              /\ UNCHANGED <<item, lock, call, now, data, history>>

LoseLock(k) == /\ lock[k] # Nobody
               /\ lock' = [lock EXCEPT ![k] = Nobody]
               /\ lost' = lost \cup {k}
               /\ Spend("losses", MaxLosses)
               /\ UNCHANGED <<item, tag, call, now, data, stale, used, dead, revived>>

-----------------------------------------------------------------------------
TGet(c) == \/ CheckLock(c) \/ GetItem(c) \/ IsTagsValid(c) \/ LockRebuild(c)
           \/ RebuildCb(c) \/ GetTags(c) \/ Stamp(c) \/ SetItem(c) \/ UnlockRebuild(c)
           \/ \E t \in Tag : SetTag(c, t)

Environment == \/ Change \/ Tick
               \/ \E t \in Tag : Invalidate(t) \/ LoseTag(t)
               \/ \E k \in Key : LoseItem(k) \/ LoseLock(k)

Next == \/ \E c \in Client : \/ TGet(c) \/ RequestFails(c) \/ Crash(c)
                             \/ \E k \in Key : Call(c, k)
                             \/ \E t \in Tag : AnswerLost(c, t)
        \/ Environment

Spec == Init /\ [][Next]_vars

(* A client that is in a call goes on with it, until it crashes. *)
Fairness == \A c \in Client : WF_vars(TGet(c))
FairSpec == Spec /\ Fairness

-----------------------------------------------------------------------------
Places == {"idle", "check", "get", "tags valid", "lock", "build", "get tags", "stamp",
           "set tags", "set", "unlock"}
Item == [val : Nat, late : BOOLEAN, tags : [Tag -> Nat]]

TGetCall == [at : Places, key : Key, try : 0 .. Tries - 1, raw : Item \cup {NoItem},
             val : Nat, late : BOOLEAN, tags : [Tag -> Nat], todo : SUBSET Tag,
             stamp : Nat, owns : BOOLEAN]

TypeOK ==
  /\ item \in [Key -> Item \cup {NoItem}]
  /\ tag \in [Tag -> Nat]
  /\ lock \in [Key -> Client \cup {Nobody}]
  /\ call \in [Client -> TGetCall]
  /\ now \in Nat \ {0} /\ data \in Nat
  /\ stale \in [Tag -> Nat] /\ used \in [Tag -> Nat] /\ dead \in [Tag -> Nat]
  /\ revived \subseteq Tag /\ lost \subseteq Key

(* An item that counts as good, in the cache or already fetched by a       *)
(* client, is no older than the last invalidation of any of its tags,      *)
(* except in two cases: the invalidation came while the item was rebuilt,  *)
(* after the data was read and before the tags were (rebuild calls         *)
(* rebuildCb first); or the counter of the tag went back, because the tag  *)
(* was lost and started again within the count of seconds its increments   *)
(* had run ahead, or because two rebuilds started it twice                 *)
(* (getCurrentItemTags).                                                   *)
Good(i) == i # NoItem /\ SameTags(i)
Kept(i) == Good(i) => \A t \in Tag : i.tags[t] # Missing =>
             i.val >= stale[t] \/ i.late \/ t \in revived
StaleNeedsRace ==
  /\ \A k \in Key : Kept(item[k])
  /\ \A c \in Client : At(c, "tags valid") => Kept(call[c].raw)

(* The inductive invariant behind it.  A tag that has not gone back is     *)
(* younger than the last invalidation; an item, or a rebuild, whose tag is *)
(* younger than that has read its data since, or is late.                  *)
Sound(i) == \A t \in Tag : i.tags[t] # Missing =>
  /\ i.tags[t] <= used[t]
  /\ i.tags[t] > dead[t] => i.val >= stale[t] \/ i.late

TagInv == \A t \in Tag : /\ dead[t] <= used[t] /\ tag[t] <= used[t]
                         /\ t \notin revived /\ tag[t] # Missing => tag[t] > dead[t]

CallInv(r) ==
  /\ r.raw # NoItem => Sound(r.raw)
  /\ Sound(r)
  /\ r.at \notin {"stamp", "set tags", "set", "unlock"} => r.tags = NoTags

IInv == /\ TypeOK
        /\ TagInv
        /\ \A k \in Key : item[k] # NoItem => Sound(item[k])
        /\ \A c \in Client : CallInv(call[c])

(* Two clients rebuild the same key, each under the lock it added, only if *)
(* the lock was dropped before its holder was done: it expired, or a       *)
(* client that had not got it deleted it (unlockRebuild).                  *)
TwoHoldersNeedLoss ==
  \A c, d \in Client : c # d /\ call[c].owns /\ call[d].owns /\ call[c].key = call[d].key
    => call[c].key \in lost

(* The inductive invariant behind it. *)
LockInv == \A c \in Client :
  call[c].owns => lock[call[c].key] = c \/ call[c].key \in lost

(* A lock does not survive the call that added it, unless a request failed *)
(* or a client crashed: rebuild has five ways out, and all unlock.         *)
NoLockLeft == spent.faults = 0 /\ spent.crashes = 0 =>
  \A k \in Key : lock[k] # Nobody => call[lock[k]].owns /\ call[lock[k]].key = k

(* Every call of TGet ends, whatever others do to the lock, if its client  *)
(* does not stop: the lock is waited for, but not for ever.                *)
EveryCallReturns == \A c \in Client : ~At(c, "idle") ~> At(c, "idle")

(* The comment in lockRebuild: the lock is there "so that not everybody    *)
(* rushes to rebuild" the item.                                            *)
Rebuilding(c) == call[c].at \in {"build", "get tags", "stamp", "set tags", "set"}
OneRebuild == \A c, d \in Client :
  Rebuilding(c) /\ Rebuilding(d) /\ call[c].key = call[d].key => c = d
=============================================================================

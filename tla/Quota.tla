--------------------------------- MODULE Quota ---------------------------------
(***************************************************************************)
(* The rate limit of ratelim.go: a worker puts a token into a buffered     *)
(* channel before it works and takes one out when it is done; on every     *)
(* even iteration it gives its place away and asks for another.            *)
(***************************************************************************)
EXTENDS Program, Naturals, FiniteSets

CONSTANTS Worker, iterationsNum, quotaLimit    \* 5 workers, 6 and 2 in the code

ASSUME QuotaAssumption ==
  IsFiniteSet(Worker) /\ iterationsNum \in Nat /\ quotaLimit \in Nat \ {0}

VARIABLES quotaCh,   \* how many tokens the channel holds
          wpc,       \* worker -> "ask", "work", "release" (in an even iteration) or "end"
          iteration, \* worker -> j
          wg,        \* the wait group
          waited     \* main is past wg.Wait

quotaVars == <<quotaCh, wpc, iteration, wg, waited>>

QuotaInit ==
  /\ quotaCh = 0 /\ waited = FALSE
  /\ wpc = [w \in Worker |-> "ask"] /\ iteration = [w \in Worker |-> 0]
  /\ wg = Cardinality(Worker)

Holding == {w \in Worker : wpc[w] \in {"work", "release", "done"}}

Unbounded == TRUE
HasRoom == quotaCh < quotaLimit

(* `quotaCh <- struct{}{}', at first and after a release. *)
TakeSlot(w) ==
  /\ wpc[w] = "ask" /\ HasRoom
  /\ quotaCh' = quotaCh + 1
  /\ wpc' = [wpc EXCEPT ![w] = "work"]
  /\ UNCHANGED <<iteration, wg, waited>>

Over(j) == j = iterationsNum
(* One iteration: an even one ends with a release. *)
Work(w) ==
  /\ wpc[w] = "work"
  /\ IF Over(iteration[w])
     THEN wpc' = [wpc EXCEPT ![w] = "done"] /\ UNCHANGED iteration
     ELSE /\ wpc' = [wpc EXCEPT ![w] = IF iteration[w] % 2 = 0 THEN "release" ELSE "work"]
          /\ iteration' = [iteration EXCEPT ![w] = @ + 1]
  /\ UNCHANGED <<quotaCh, wg, waited>>

Unreturned == quotaCh
Returned == quotaCh - 1
ReleaseSlot(w) ==
  /\ wpc[w] = "release" /\ quotaCh > 0
  /\ quotaCh' = Returned
  /\ wpc' = [wpc EXCEPT ![w] = "ask"]
  /\ UNCHANGED <<iteration, wg, waited>>

(* The last release, and then the deferred wg.Done. *)
LastRelease(w) ==
  /\ wpc[w] = "done" /\ quotaCh > 0
  /\ quotaCh' = Returned
  /\ wpc' = [wpc EXCEPT ![w] = "leave"]
  /\ UNCHANGED <<iteration, wg, waited>>

WgDone(w) ==
  /\ wpc[w] = "leave" /\ wg' = wg - 1
  /\ wpc' = [wpc EXCEPT ![w] = "end"]
  /\ UNCHANGED <<quotaCh, iteration, waited>>

WaitAll == wg = 0
Wait ==
  /\ ~waited /\ WaitAll /\ waited' = TRUE
  /\ UNCHANGED <<quotaCh, wpc, iteration, wg>>

QuotaStep(w) == TakeSlot(w) \/ Work(w) \/ ReleaseSlot(w) \/ LastRelease(w) \/ WgDone(w)
QuotaNext == Wait \/ \E w \in Worker : QuotaStep(w)

QuotaSpec == QuotaInit /\ [][QuotaNext]_quotaVars

(* Goroutines run; none asks for a place for ever, as the others' work ends. *)
QuotaFair ==
  /\ \A w \in Worker : WF_quotaVars(Runs("quota") /\ QuotaStep(w))
  /\ WF_quotaVars(Runs("quota") /\ Wait)

(***************************************************************************)
(* What the limit promises.                                                *)
(***************************************************************************)

(* Types: of the channel's tokens, the wait group and the workers.         *)
QuotaTypeOK ==
  /\ quotaCh \in Nat /\ wg \in Nat /\ waited \in BOOLEAN
  /\ wpc \in [Worker -> {"ask", "work", "release", "done", "leave", "end"}]
  /\ iteration \in [Worker -> 0 .. iterationsNum]

(* No more workers than the limit are at work, because the channel holds   *)
(* one token for each of them; and a release never waits.                  *)
WithinQuota == Cardinality(Holding) = quotaCh /\ quotaCh <= quotaLimit

(* Main goes on only when every worker is done and has left its place.     *)
WaitCoversAll == waited => \A w \in Worker : wpc[w] = "end" /\ iteration[w] = iterationsNum

(* All the work gets done. *)
WorkGetsDone ==
  Runs("quota") =>
  <>waited

(* The limit is kept, and main waits for all.                              *)
QuotaKept == QuotaTypeOK /\ WithinQuota /\ WaitCoversAll
=============================================================================

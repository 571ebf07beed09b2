------------------------------ MODULE MCTCache ------------------------------
(* Small instances of TCache. *)
EXTENDS TCache

CONSTANTS k1, t1, t2

OneTag == [k \in {k1} |-> {t1}]
TwoTags == [k \in {k1} |-> {t1, t2}]

(* A bound of the model, on what happens to one behaviour besides calls:   *)
(* a loss, an increment and a tick of the clock, or a request that fails,  *)
(* or a crash, and one of these.  The steps of TGet, which are the fair    *)
(* ones, are none of them.                                                 *)
MaxTroubles == 3
AFewTroubles ==
  2 * (spent.faults + spent.crashes) + spent.losses + spent.incs + (now - 1) <= MaxTroubles

MCNext == Next /\ AFewTroubles'
MCSpec == Init /\ [][MCNext]_vars /\ Fairness
=============================================================================

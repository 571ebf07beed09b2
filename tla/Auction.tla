-------------------------------- MODULE Auction --------------------------------
(***************************************************************************)
(* The auction of context.go: players read the current bid and offer more, *)
(* the auctioneer in main accepts what is higher; it is over at a price,   *)
(* after a number of bids or when time is up.                              *)
(***************************************************************************)
EXTENDS Program, Naturals

CONSTANTS Player, NoPlayer,
          StartBid, AvgBidStep, MaxPrice, MaxBids   \* 100, 100, 10000 and 100 in the code

ASSUME AuctionAssumption ==
  /\ StartBid \in Nat /\ AvgBidStep \in Nat \ {0} /\ MaxPrice \in Nat /\ MaxBids \in Nat \ {0}
  /\ NoPlayer \notin Player

VARIABLES lot,         \* [bid, player, cnt]
          ctxDone,     \* finish() was called or time is up
          timeUp,      \* ... the latter
          auctioneer,  \* "select", "set" or "over"
          bidTaken,    \* the bid main has received, [bid, player]
          player,      \* player -> [pc, bid]
          highest      \* history: the highest bid received

auctionVars == <<lot, ctxDone, timeUp, auctioneer, bidTaken, player, highest>>

PlayerBid(b, p) == [bid |-> b, player |-> p]

AuctionInit ==
  /\ lot = [bid |-> StartBid, player |-> NoPlayer, cnt |-> 0]
  /\ ctxDone = FALSE /\ timeUp = FALSE /\ auctioneer = "select"
  /\ bidTaken = PlayerBid(0, NoPlayer)
  /\ player = [p \in Player |-> [pc |-> "look", bid |-> 0]]
  /\ highest = PlayerBid(StartBid, NoPlayer)

Cancelled == ctxDone
(* makeBid: it leaves when the context is done, and looks at the lot.      *)
Look(p) ==
  /\ player[p].pc = "look"
  /\ \/ Cancelled /\ player' = [player EXCEPT ![p].pc = "left"]
     \/ /\ ~Cancelled
        /\ \E step \in 0 .. AvgBidStep - 1 :
             player' = [player EXCEPT ![p] = [pc |-> "offer", bid |-> lot.bid + step]]
  /\ UNCHANGED <<lot, ctxDone, timeUp, auctioneer, bidTaken, highest>>

(* The second select: main takes the bid if it waits for one, otherwise    *)
(* the bid is dropped.                                                     *)
Offer(p) ==
  /\ player[p].pc = "offer"
  /\ \/ /\ auctioneer = "select" /\ auctioneer' = "set"
        /\ bidTaken' = PlayerBid(player[p].bid, p)
        /\ highest' = IF player[p].bid > highest.bid THEN bidTaken' ELSE highest
        /\ player' = [player EXCEPT ![p].pc = "look"]
     \/ /\ Cancelled \/ auctioneer # "select"
        /\ player' = [player EXCEPT ![p].pc = IF Cancelled THEN "left" ELSE "look"]
        /\ UNCHANGED <<auctioneer, bidTaken, highest>>
  /\ UNCHANGED <<lot, ctxDone, timeUp>>

Higher(bid) == bid > lot.bid
CountLate(cnt, bid) == MaxBids < cnt \/ MaxPrice <= bid
Finished(cnt, bid) == MaxBids <= cnt \/ MaxPrice <= bid

(* SetNewBid, and finish() if it says so. *)
SetNewBid ==
  LET b == bidTaken IN
  /\ auctioneer = "set"
  /\ IF Higher(b.bid)
     THEN /\ lot' = [bid |-> b.bid, player |-> b.player, cnt |-> lot.cnt + 1]
          /\ auctioneer' = IF Finished(lot'.cnt, b.bid) THEN "over" ELSE "select"
     ELSE auctioneer' = "select" /\ UNCHANGED lot
  /\ ctxDone' = IF auctioneer' = "over" THEN TRUE ELSE ctxDone
  /\ UNCHANGED <<timeUp, bidTaken, player, highest>>

TimeUp ==
  /\ ~ctxDone /\ ctxDone' = TRUE /\ timeUp' = TRUE
  /\ UNCHANGED <<lot, auctioneer, bidTaken, player, highest>>

LoopEnds ==
  /\ auctioneer = "select" /\ ctxDone /\ auctioneer' = "over"
  /\ UNCHANGED <<lot, ctxDone, timeUp, bidTaken, player, highest>>

AuctionNext == \/ SetNewBid \/ TimeUp \/ LoopEnds
               \/ \E p \in Player : Look(p) \/ Offer(p)

AuctionSpec == AuctionInit /\ [][AuctionNext]_auctionVars

(* Goroutines run, and time passes. *)
AuctionFair ==
  /\ WF_auctionVars(Runs("auction") /\ (SetNewBid \/ LoopEnds)) /\ WF_auctionVars(Runs("auction") /\ TimeUp)
  /\ \A p \in Player : WF_auctionVars(Runs("auction") /\ (Look(p) \/ Offer(p)))

(***************************************************************************)
(* What the auction promises.                                              *)
(***************************************************************************)

(* However old the bid was that a player looked at, the lot stands at the  *)
(* highest bid that was handed over, and belongs to the first who bid it.  *)
HighestWins == auctioneer # "set" => PlayerBid(lot.bid, lot.player) = highest

(* The auction is over for one of its three reasons, and no bid is         *)
(* accepted after the one that ended it.                                   *)
OverForAReason ==
  /\ lot.cnt <= MaxBids
  /\ auctioneer = "over" => /\ ctxDone
                            /\ timeUp \/ lot.cnt = MaxBids \/ lot.bid >= MaxPrice
  /\ auctioneer # "over" => lot.cnt < MaxBids /\ (lot.bid < MaxPrice \/ lot.cnt = 0)

(* When it is over every player leaves, and it does get over.              *)
EverybodyLeaves ==
  Runs("auction") =>
  <>[](auctioneer = "over" /\ \A p \in Player : player[p].pc = "left")

(* The auction is fair: the highest bid wins, and nothing ends it early.   *)
AuctionIsFair == HighestWins /\ OverForAReason
=============================================================================

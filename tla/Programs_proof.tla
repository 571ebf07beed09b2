---------------------------- MODULE Programs_proof ----------------------------
(***************************************************************************)
(* Theorems about five programs that run on their own: Auction and Quota,  *)
(* whose goroutines share a limit, for any number of them; FindUsers, for  *)
(* any pages asked for and any changes of the dataset; Search, for any     *)
(* file; and Goroutines, the eighteen demos, for any number of goroutines  *)
(* and of rounds.                                                          *)
(***************************************************************************)
EXTENDS Auction, Quota, FindUsers, Search, Goroutines, SequenceTheorems, FiniteSetTheorems, TLAPS

(***************************************************************************)
(* Auction: the highest bid wins, and the auction is over for a reason.    *)
(***************************************************************************)

Bidder == Player \cup {NoPlayer}

AuctionTypes ==
  /\ lot \in [bid : Nat, player : Bidder, cnt : Nat]
  /\ bidTaken \in [bid : Nat, player : Bidder]
  /\ ctxDone \in BOOLEAN /\ timeUp \in BOOLEAN
  /\ auctioneer \in {"select", "set", "over"}
  /\ player \in [Player -> [pc : {"look", "offer", "left"}, bid : Nat]]

(* While main looks at a bid the highest is that one or still the lot's.   *)
BetweenBids ==
  auctioneer = "set" =>
    highest = IF Higher(bidTaken.bid) THEN bidTaken ELSE PlayerBid(lot.bid, lot.player)

(* Only time cancels the context while the auctioneer is still in its loop. *)
CancelledByTime == auctioneer # "over" /\ ctxDone => timeUp

AuctionIInv == AuctionTypes /\ BetweenBids /\ CancelledByTime /\ HighestWins /\ OverForAReason

LEMMA InitAuctionIInv == AuctionInit => AuctionIInv
<1> SUFFICES ASSUME AuctionInit PROVE AuctionIInv
  OBVIOUS
<1>1. AuctionTypes
  BY AuctionAssumption DEF AuctionInit, AuctionTypes, Bidder, PlayerBid
<1>2. BetweenBids /\ CancelledByTime /\ HighestWins
  BY DEF AuctionInit, BetweenBids, CancelledByTime, HighestWins, PlayerBid
<1>3. OverForAReason
  BY AuctionAssumption DEF AuctionInit, OverForAReason
<1> QED
  BY <1>1, <1>2, <1>3 DEF AuctionIInv

LEMMA LookKeeps == ASSUME AuctionIInv, NEW p \in Player, Look(p) PROVE AuctionIInv'
<1>1. player' \in [Player -> [pc : {"look", "offer", "left"}, bid : Nat]]
  <2>1. CASE player' = [player EXCEPT ![p].pc = "left"]
    BY <2>1 DEF AuctionIInv, AuctionTypes
  <2>2. ASSUME NEW step \in 0 .. AvgBidStep - 1,
               player' = [player EXCEPT ![p] = [pc |-> "offer", bid |-> lot.bid + step]]
        PROVE  player' \in [Player -> [pc : {"look", "offer", "left"}, bid : Nat]]
    <3>1. lot.bid + step \in Nat
      BY AuctionAssumption DEF AuctionIInv, AuctionTypes
    <3> QED
      BY <2>2, <3>1 DEF AuctionIInv, AuctionTypes
  <2> QED
    BY <2>1, <2>2 DEF Look
<1> QED
  BY <1>1 DEF Look, AuctionIInv, AuctionTypes, BetweenBids,
         CancelledByTime, HighestWins, OverForAReason, Higher

LEMMA OfferKeeps == ASSUME AuctionIInv, NEW p \in Player, Offer(p) PROVE AuctionIInv'
<1>1. player' \in [Player -> [pc : {"look", "offer", "left"}, bid : Nat]]
  BY DEF Offer, AuctionIInv, AuctionTypes
<1>2. CASE auctioneer = "select" /\ auctioneer' = "set"
  <2>1. /\ bidTaken' = PlayerBid(player[p].bid, p)
        /\ highest' = IF player[p].bid > highest.bid THEN bidTaken' ELSE highest
        /\ UNCHANGED <<lot, ctxDone, timeUp>>
    BY <1>2 DEF Offer
  <2>2. highest = PlayerBid(lot.bid, lot.player) /\ highest.bid = lot.bid
    BY <1>2 DEF AuctionIInv, HighestWins, PlayerBid
  <2>3. bidTaken' \in [bid : Nat, player : Bidder] /\ bidTaken'.bid = player[p].bid
    BY <2>1 DEF AuctionIInv, AuctionTypes, PlayerBid, Bidder
  <2>4. BetweenBids' /\ HighestWins'
    BY <1>2, <2>1, <2>2, <2>3 DEF BetweenBids, HighestWins, Higher
  <2>5. AuctionTypes'
    BY <1>1, <1>2, <2>1, <2>3 DEF AuctionIInv, AuctionTypes
  <2>6. OverForAReason' /\ CancelledByTime'
    BY <1>2, <2>1 DEF AuctionIInv, OverForAReason, CancelledByTime
  <2> QED
    BY <2>4, <2>5, <2>6 DEF AuctionIInv
<1>3. CASE UNCHANGED <<auctioneer, bidTaken, highest>>
  BY <1>1, <1>3
     DEF Offer, AuctionIInv, AuctionTypes, BetweenBids,
         CancelledByTime, HighestWins, OverForAReason, Higher
<1> QED
  BY <1>2, <1>3 DEF Offer

LEMMA SetNewBidKeeps == ASSUME AuctionIInv, SetNewBid PROVE AuctionIInv'
<1>0. UNCHANGED <<timeUp, bidTaken, player, highest>>
  BY DEF SetNewBid
<1>1. /\ bidTaken \in [bid : Nat, player : Bidder]
      /\ lot \in [bid : Nat, player : Bidder, cnt : Nat]
      /\ lot.cnt < MaxBids /\ (lot.bid < MaxPrice \/ lot.cnt = 0)
      /\ highest = IF Higher(bidTaken.bid) THEN bidTaken ELSE PlayerBid(lot.bid, lot.player)
  BY DEF SetNewBid, AuctionIInv, AuctionTypes, BetweenBids, OverForAReason
<1>2. CASE Higher(bidTaken.bid)
  <2>1. /\ lot' = [bid |-> bidTaken.bid, player |-> bidTaken.player, cnt |-> lot.cnt + 1]
        /\ auctioneer' = IF Finished(lot'.cnt, bidTaken.bid) THEN "over" ELSE "select"
    BY <1>2 DEF SetNewBid
  <2>2. lot' \in [bid : Nat, player : Bidder, cnt : Nat]
    BY <1>1, <2>1
  <2>3. HighestWins' /\ BetweenBids'
    BY <1>0, <1>1, <1>2, <2>1 DEF HighestWins, BetweenBids, PlayerBid
  <2>4. AuctionTypes'
    BY <1>0, <2>1, <2>2 DEF SetNewBid, AuctionIInv, AuctionTypes
  <2>5. OverForAReason' /\ CancelledByTime'
    BY <1>0, <1>1, <2>1, AuctionAssumption
       DEF SetNewBid, Finished, OverForAReason, AuctionIInv, CancelledByTime
  <2> QED
    BY <2>3, <2>4, <2>5 DEF AuctionIInv
<1>3. CASE ~Higher(bidTaken.bid)
  <2>1. auctioneer' = "select" /\ lot' = lot /\ ctxDone' = ctxDone
    BY <1>3 DEF SetNewBid
  <2> QED
    BY <1>0, <1>1, <1>3, <2>1
       DEF SetNewBid, AuctionIInv, AuctionTypes, BetweenBids,
         CancelledByTime, HighestWins, OverForAReason
<1> QED
  BY <1>2, <1>3

LEMMA NextAuctionIInv == AuctionIInv /\ [AuctionNext]_auctionVars => AuctionIInv'
<1> SUFFICES ASSUME AuctionIInv, [AuctionNext]_auctionVars PROVE AuctionIInv'
  OBVIOUS
<1>1. CASE SetNewBid
  BY <1>1, SetNewBidKeeps
<1>2. CASE TimeUp
  BY <1>2 DEF TimeUp, AuctionIInv, AuctionTypes, BetweenBids,
         CancelledByTime, HighestWins, OverForAReason, Higher
<1>3. CASE LoopEnds
  <2>1. timeUp
    BY <1>3 DEF LoopEnds, AuctionIInv, CancelledByTime
  <2> QED
    BY <1>3, <2>1
       DEF LoopEnds, AuctionIInv, AuctionTypes, BetweenBids,
         CancelledByTime, HighestWins, OverForAReason, Higher
<1>4. ASSUME NEW p \in Player, Look(p) \/ Offer(p) PROVE AuctionIInv'
  BY <1>4, LookKeeps, OfferKeeps
<1>5. CASE UNCHANGED auctionVars
  BY <1>5 DEF auctionVars, AuctionIInv, AuctionTypes, BetweenBids,
         CancelledByTime, HighestWins, OverForAReason, Higher
<1> QED
  BY <1>1, <1>2, <1>3, <1>4, <1>5 DEF AuctionNext

(* Whatever the players read and when, the highest bid that was handed     *)
(* over, and nothing else, is what the lot stands at; and the auctioneer   *)
(* leaves its loop only for the price, the number of bids or the time, and *)
(* accepts no bid past the one that ends the auction (makeBid, SetNewBid   *)
(* and main in context.go).                                                *)
THEOREM TheAuctionIsFair == AuctionSpec => []AuctionIsFair
<1>1. AuctionIInv => HighestWins /\ OverForAReason
  BY DEF AuctionIInv
<1>2. AuctionIInv => AuctionIsFair
  BY <1>1 DEF AuctionIsFair
<1> QED
  BY <1>2, InitAuctionIInv, NextAuctionIInv, PTL DEF AuctionSpec

(***************************************************************************)
(* Quota: never more workers at work than places; main waits for them all. *)
(***************************************************************************)

(* The workers that the wait group still counts. *)
Counted == {w \in Worker : wpc[w] # "end"}

(* Tokens are counted by the workers that hold one and the wait group by   *)
(* those that have not ended; who has left the loop has run all of it.     *)
QuotaIInv ==
  /\ QuotaTypeOK
  /\ WithinQuota
  /\ wg = Cardinality(Counted)
  /\ \A w \in Worker : wpc[w] \in {"done", "leave", "end"} => iteration[w] = iterationsNum
  /\ waited => Counted = {}

LEMMA Finite ==
  /\ IsFiniteSet(Holding) /\ IsFiniteSet(Counted)
  /\ Cardinality(Holding) \in Nat /\ Cardinality(Counted) \in Nat
<1>1. Holding \in SUBSET Worker /\ Counted \in SUBSET Worker
  BY DEF Holding, Counted
<1> QED
  BY <1>1, QuotaAssumption, FS_Subset, FS_CardinalityType

LEMMA InitQuotaIInv == QuotaInit => QuotaIInv
<1> SUFFICES ASSUME QuotaInit PROVE QuotaIInv
  OBVIOUS
<1> USE DEF QuotaInit
<1>1. QuotaTypeOK
  <2>1. wg \in Nat
    BY QuotaAssumption, FS_CardinalityType
  <2>2. iteration \in [Worker -> 0 .. iterationsNum]
    BY QuotaAssumption
  <2> QED
    BY <2>1, <2>2 DEF QuotaTypeOK
<1>2. Holding = {} /\ Counted = Worker
  BY DEF Holding, Counted
<1>3. WithinQuota
  BY <1>2, FS_EmptySet, QuotaAssumption DEF WithinQuota
<1> QED
  BY <1>1, <1>2, <1>3 DEF QuotaIInv

(* Worker w goes from one place in the loop to another without taking or   *)
(* returning a token and without ending.                                   *)
LEMMA SameHolding ==
  ASSUME QuotaTypeOK, NEW w \in Worker, NEW to,
         wpc' = [wpc EXCEPT ![w] = to],
         wpc[w] \in {"work", "release", "done"} <=> to \in {"work", "release", "done"},
         wpc[w] # "end", to # "end"
  PROVE  Holding' = Holding /\ Counted' = Counted
BY DEF QuotaTypeOK, Holding, Counted

LEMMA NextQuotaIInv == QuotaIInv /\ [QuotaNext]_quotaVars => QuotaIInv'
<1> SUFFICES ASSUME QuotaIInv, [QuotaNext]_quotaVars PROVE QuotaIInv'
  OBVIOUS
<1>t. QuotaTypeOK
  BY DEF QuotaIInv
<1>f. /\ Cardinality(Holding) = quotaCh /\ quotaCh <= quotaLimit /\ quotaLimit \in Nat
      /\ wg = Cardinality(Counted)
      /\ waited => Counted = {}
  BY QuotaAssumption DEF QuotaIInv, WithinQuota
<1>1. ASSUME NEW w \in Worker, TakeSlot(w) PROVE QuotaIInv'
  <2>1. w \notin Holding /\ Holding' = Holding \cup {w} /\ Counted' = Counted
    BY <1>1, <1>t DEF TakeSlot, QuotaTypeOK, Holding, Counted
  <2>2. Cardinality(Holding') = Cardinality(Holding) + 1
    BY <2>1, Finite, FS_AddElement
  <2>3. WithinQuota'
    BY <1>1, <1>f, <1>t, <2>2 DEF TakeSlot, HasRoom, WithinQuota, QuotaTypeOK
  <2> QED
    BY <1>1, <1>t, <2>1, <2>3 DEF QuotaIInv, QuotaTypeOK, TakeSlot
<1>2. ASSUME NEW w \in Worker, Work(w) PROVE QuotaIInv'
  <2>1. PICK to \in {"work", "release", "done"} : wpc' = [wpc EXCEPT ![w] = to]
    BY <1>2 DEF Work
  <2>2. Holding' = Holding /\ Counted' = Counted
    BY <1>2, <1>t, <2>1, SameHolding DEF Work
  <2>3. QuotaTypeOK'
    BY <1>2, <1>t, QuotaAssumption DEF Work, Over, QuotaTypeOK
  <2>4. \A v \in Worker : wpc'[v] \in {"done", "leave", "end"} => iteration'[v] = iterationsNum
    BY <1>2, <1>t DEF Work, Over, QuotaTypeOK, QuotaIInv
  <2> QED
    BY <1>2, <1>f, <2>2, <2>3, <2>4 DEF QuotaIInv, WithinQuota, Work
<1>3. ASSUME NEW w \in Worker, ReleaseSlot(w) \/ LastRelease(w) PROVE QuotaIInv'
  <2>1. w \in Holding /\ Holding' = Holding \ {w} /\ Counted' = Counted
    BY <1>3, <1>t DEF ReleaseSlot, LastRelease, QuotaTypeOK, Holding, Counted
  <2>2. Cardinality(Holding') = Cardinality(Holding) - 1
    BY <2>1, Finite, FS_RemoveElement
  <2>3. WithinQuota'
    BY <1>3, <1>f, <1>t, <2>2, QuotaAssumption
       DEF ReleaseSlot, LastRelease, Returned, WithinQuota, QuotaTypeOK
  <2>4. QuotaTypeOK'
    BY <1>3, <1>t DEF ReleaseSlot, LastRelease, Returned, QuotaTypeOK
  <2> QED
    BY <1>3, <1>t, <2>1, <2>3, <2>4 DEF QuotaIInv, QuotaTypeOK, ReleaseSlot, LastRelease
<1>4. ASSUME NEW w \in Worker, WgDone(w) PROVE QuotaIInv'
  <2>1. w \in Counted /\ Counted' = Counted \ {w} /\ Holding' = Holding
    BY <1>4, <1>t DEF WgDone, QuotaTypeOK, Holding, Counted
  <2>2. Cardinality(Counted') = Cardinality(Counted) - 1 /\ Cardinality(Counted') \in Nat
    BY <2>1, Finite, FS_RemoveElement, FS_CardinalityType
  <2>3. QuotaTypeOK' /\ wg' = Cardinality(Counted')
    BY <1>4, <1>t, <1>f, <2>2 DEF WgDone, QuotaTypeOK
  <2>4. waited' => Counted' = {}
    BY <1>4, <1>f, <2>1 DEF WgDone
  <2> QED
    BY <1>4, <1>t, <1>f, <2>1, <2>3, <2>4 DEF QuotaIInv, QuotaTypeOK, WithinQuota, WgDone
<1>5. ASSUME Wait PROVE QuotaIInv'
  <2>1. Counted' = Counted /\ Holding' = Holding
    BY <1>5 DEF Wait, Counted, Holding
  <2>2. Counted = {}
    BY <1>5, <1>f, Finite, FS_EmptySet DEF Wait, WaitAll
  <2> QED
    BY <1>5, <1>f, <2>1, <2>2 DEF QuotaIInv, QuotaTypeOK, WithinQuota, Wait
<1>6. ASSUME UNCHANGED quotaVars PROVE QuotaIInv'
  BY <1>6 DEF quotaVars, QuotaIInv, QuotaTypeOK, WithinQuota, Holding, Counted
<1> QED
  BY <1>1, <1>2, <1>3, <1>4, <1>5, <1>6 DEF QuotaNext, QuotaStep

(* The inductive invariant of startWorker and main: every token in the     *)
(* channel is some worker's, and every count of the wait group too.        *)
THEOREM QuotaInvariance == QuotaSpec => []QuotaIInv
<1> QED
  BY InitQuotaIInv, NextQuotaIInv, PTL DEF QuotaSpec

(* The channel and the wait group never count below zero; `quotaCh' lets   *)
(* no more than quotaLimit workers work at once, however often they give   *)
(* their places away and ask again; and main passes wg.Wait only when      *)
(* every worker has ended, with all its iterations done (ratelim.go).      *)
THEOREM TheQuotaIsKept == QuotaSpec => []QuotaKept
<1>1. QuotaIInv => QuotaTypeOK /\ WithinQuota
  BY DEF QuotaIInv
<1>2. QuotaIInv => WaitCoversAll
  BY DEF QuotaIInv, WaitCoversAll, Counted
<1>3. QuotaIInv => QuotaKept
  BY <1>1, <1>2 DEF QuotaKept
<1> QED
  BY <1>3, QuotaInvariance, PTL

(***************************************************************************)
(* FindUsers: what its pages have shown of the list, and what is to come.  *)
(* With each page users pass from those ahead to those seen; a change of   *)
(* the list moves one user at most over the border between the two.        *)
(***************************************************************************)

(* Types: of the list, the caller, and what goes between it and the server. *)
FindTypeOK ==
  /\ dataset \in Seq(Nat) /\ data \in Seq(Nat) /\ gathered \in Seq(Nat)
  /\ req \in [Limit : Int, Offset : Int] /\ sent \in [limit : Int, offset : Int]
  /\ status \in {0, 200, 400, 401, 500}
  /\ findPc \in {"asks", "waits", "unpacks", "turns", "over", "failed"}
  /\ result \in [Users : Seq(Nat), NextPage : BOOLEAN]
  /\ start \in Int /\ changes \in Nat

(* What is asked for is what the caller wants next, and nothing negative.  *)
AskedFor ==
  /\ findPc = "asks" => start = req.Offset \/ (0 <= start /\ start <= req.Offset /\ 0 <= req.Limit)
  /\ findPc \notin {"asks", "failed"} => 0 <= start /\ start <= req.Offset /\ 0 <= req.Limit
  /\ findPc \in {"waits", "unpacks"} => sent = [limit |-> Capped(req.Limit) + 1, offset |-> req.Offset]
  /\ findPc = "over" => ~result.NextPage

(* What has come is no longer than what was asked for.                     *)
AnswerFits == findPc = "unpacks" /\ status = 200 =>
  Response(data) \in [Users : Seq(Nat), NextPage : BOOLEAN]

(* Nobody is in the list twice, and who comes has a new number.            *)
UsersDiffer ==
  /\ \A k \in 1..Len(dataset) : 0 < dataset[k] /\ dataset[k] <= MaxUsers + changes
  /\ \A j, k \in 1..Len(dataset) : dataset[j] = dataset[k] => j = k
  /\ changes = 0 => \A k \in 1..Len(dataset) : dataset[k] = k

(* An answer has come; it counts as shown from then on.                    *)
Taken == findPc = "unpacks" /\ status = 200
Seen == IF Taken THEN gathered \o Response(data).Users ELSE gathered
LastPage ==
  \/ Taken /\ ~Response(data).NextPage
  \/ findPc \in {"turns", "over"} /\ ~result.NextPage
Upto == IF findPc \in {"asks", "waits"} THEN req.Offset ELSE req.Offset + req.Limit
Ahead == IF LastPage THEN {} ELSE {dataset[k] : k \in Upto + 1..Len(dataset)}

(* The caller pages forwards, and no answer of the server was an error.     *)
Paging == 0 < req.Limit /\ 0 <= start /\ (Taken \/ findPc \in {"asks", "waits", "turns", "over"})

(* Of the users there were at the start and still are, those shown neither  *)
(* so far nor on a page to come: each of them was passed over by a change.  *)
Wanted == {u \in ToSet(dataset) : start < u /\ u <= MaxUsers}
Missed == Wanted \ (ToSet(Seen) \cup Ahead)
FewMissed == Paging /\ req.Limit <= MaxLimit => Cardinality(Missed) <= changes

(* Shown twice already, or going to be if nothing changes any more.        *)
FewTwice ==
  Paging /\ req.Limit <= MaxLimit =>
    Len(Seen) - Cardinality(ToSet(Seen)) + Cardinality(Ahead \cap ToSet(Seen)) <= changes

(* Without changes a page is a stretch of the list, and pages are in order. *)
ShownTo(place) ==
  {k \in 1..Len(dataset) : start < k /\ k <= place /\ (k - 1 - start) % req.Limit < MaxLimit}
InOrder ==
  Paging /\ changes = 0 =>
    /\ (Upto - start) % req.Limit = 0
    /\ ToSet(Seen) = ShownTo(Upto)
    /\ \A j, k \in 1..Len(Seen) : j < k => Seen[j] < Seen[k]
    /\ LastPage => Len(dataset) <= Upto

FindIInv == FindTypeOK /\ AskedFor /\ AnswerFits /\ UsersDiffer /\ FewMissed /\ FewTwice /\ InOrder

(***************************************************************************)
(* The server's answer, and what FindUsers makes of it.                    *)
(***************************************************************************)

LEMMA AnswerIs ==
  ASSUME dataset \in Seq(Nat), NEW offset \in Nat, NEW limit \in Nat
  PROVE  LET a == AtMost(From(offset), limit) IN
         /\ a \in Seq(Nat)
         /\ Len(a) = IF offset + limit <= Len(dataset) THEN limit
                     ELSE IF offset <= Len(dataset) THEN Len(dataset) - offset ELSE 0
         /\ \A k \in 1..Len(a) : a[k] = dataset[offset + k]
<1> DEFINE n == Len(dataset)
           skip == IF offset < n THEN offset ELSE n
           f == SubSeq(dataset, 1 + skip, n)
           most == IF limit < Len(f) THEN limit ELSE Len(f)
           a == SubSeq(f, 1, most)
<1>1. n \in Nat /\ skip \in 0..n
  BY LenProperties
<1>2. f \in Seq(Nat) /\ Len(f) = n - skip /\ \A k \in 1..n - skip : f[k] = dataset[skip + k]
  <2> HIDE DEF skip
  <2>1. 1 + skip \in Int /\ n \in Int /\ n - (1 + skip) + 1 = n - skip
    BY <1>1
  <2>2. \A k \in 1 + skip..n : dataset[k] \in Nat
    <3> SUFFICES ASSUME NEW k \in 1 + skip..n PROVE dataset[k] \in Nat
      OBVIOUS
    <3>1. k \in 1..Len(dataset)
      BY <1>1
    <3> QED
      BY <3>1, ElementOfSeq
  <2>3. /\ f \in Seq(Nat) /\ Len(f) = IF 1 + skip <= n THEN n - (1 + skip) + 1 ELSE 0
        /\ \A k \in 1..n - (1 + skip) + 1 : f[k] = dataset[(1 + skip) + k - 1]
    <3> HIDE DEF n
    <3> QED
      BY <2>1, <2>2, SubSeqProperties
  <2> HIDE DEF f, n
  <2>4. Len(f) = n - skip
    BY <1>1, <2>3
  <2>5. ASSUME NEW k \in 1..n - skip PROVE f[k] = dataset[skip + k]
    <3>1. k \in 1..n - (1 + skip) + 1 /\ (1 + skip) + k - 1 = skip + k
      BY <1>1
    <3> QED
      BY <2>3, <3>1
  <2> QED
    BY <2>3, <2>4, <2>5
<1> HIDE DEF f, skip
<1>3. most \in 0..Len(f)
  BY <1>1, <1>2
<1>4. a \in Seq(Nat) /\ Len(a) = most /\ \A k \in 1..most : a[k] = f[k]
  <2>1. Len(f) \in Nat
    BY <1>2, LenProperties
  <2> HIDE DEF most
  <2>2. most \in Nat /\ most <= Len(f)
    BY <1>3, <2>1
  <2>3. \A k \in 1..most : f[k] \in Nat
    <3> SUFFICES ASSUME NEW k \in 1..most PROVE f[k] \in Nat
      OBVIOUS
    <3>1. k \in 1..Len(f)
      BY <2>1, <2>2
    <3> QED
      BY <1>2, <3>1, ElementOfSeq
  <2>4. 1 \in Int /\ most \in Int
    BY <2>2
  <2>5. /\ a \in Seq(Nat) /\ Len(a) = IF 1 <= most THEN most - 1 + 1 ELSE 0
        /\ \A k \in 1..most - 1 + 1 : a[k] = f[1 + k - 1]
    BY <2>3, <2>4, SubSeqProperties
  <2>6. most - 1 + 1 = most /\ \A k \in 1..most : 1 + k - 1 = k
    BY <2>2
  <2> QED
    BY <2>2, <2>5, <2>6
<1>5. a = AtMost(From(offset), limit)
  BY DEF most, f, skip, AtMost, From
<1> HIDE DEF a, n
<1>6. Len(a) = IF offset + limit <= n THEN limit ELSE IF offset <= n THEN n - offset ELSE 0
  BY <1>1, <1>2, <1>3, <1>4 DEF skip, most
<1>7. ASSUME NEW k \in 1..Len(a) PROVE a[k] = dataset[offset + k]
  <2>1. k \in 1..Len(f) /\ a[k] = f[k]
    BY <1>2, <1>1, <1>3, <1>4
  <2>2. skip = offset
    BY <1>1, <1>2, <2>1 DEF skip
  <2> QED
    BY <1>2, <2>1, <2>2
<1> QED
  BY <1>4, <1>5, <1>6, <1>7 DEF n

LEMMA ResponseIs ==
  ASSUME NEW a \in Seq(Nat), sent.limit \in Nat \ {0}, Len(a) <= sent.limit
  PROVE  /\ Response(a) \in [Users : Seq(Nat), NextPage : BOOLEAN]
         /\ Response(a).NextPage <=> Len(a) = sent.limit
         /\ Len(Response(a).Users) = IF Len(a) = sent.limit THEN Len(a) - 1 ELSE Len(a)
         /\ \A k \in 1..Len(Response(a).Users) : Response(a).Users[k] = a[k]
<1>1. CASE Len(a) = sent.limit
  <2>1. a # <<>> /\ Front(a) = SubSeq(a, 1, Len(a) - 1)
    BY <1>1 DEF Front
  <2>2. /\ Front(a) \in Seq(Nat) /\ Len(Front(a)) = Len(a) - 1
        /\ \A k \in 1..Len(a) - 1 : Front(a)[k] = a[k]
    BY <1>1, <2>1, SubSeqProperties, LenProperties
  <2> QED
    BY <1>1, <2>2 DEF Response
<1>2. CASE Len(a) # sent.limit
  BY <1>2 DEF Response
<1> QED
  BY <1>1, <1>2

(* What the page is that is on its way.                                    *)
LEMMA ItemsIs ==
  ASSUME NEW S, NEW s \in Seq(S)
  PROVE  /\ ToSet(s) = {s[k] : k \in 1..Len(s)} /\ ToSet(s) \subseteq S
         /\ IsFiniteSet(ToSet(s)) /\ Cardinality(ToSet(s)) \in Nat
         /\ (\A j, k \in 1..Len(s) : s[j] = s[k] => j = k) => Cardinality(ToSet(s)) = Len(s)
<1>1. Len(s) \in Nat /\ DOMAIN s = 1..Len(s) /\ s \in [1..Len(s) -> S]
  BY LenProperties
<1>2. ToSet(s) = {s[k] : k \in 1..Len(s)} /\ ToSet(s) \subseteq S
  BY <1>1 DEF ToSet
<1>3. s \in Surjection(1..Len(s), ToSet(s))
  BY <1>1, <1>2 DEF Surjection
<1>4. IsFiniteSet(1..Len(s)) /\ Cardinality(1..Len(s)) = Len(s)
  BY <1>1, FS_Interval
<1>5. IsFiniteSet(ToSet(s)) /\ (Cardinality(ToSet(s)) = Len(s) <=> s \in Injection(1..Len(s), ToSet(s)))
  BY <1>3, <1>4, FS_Surjection
<1>6. Cardinality(ToSet(s)) \in Nat
  BY <1>5, FS_CardinalityType
<1>7. ASSUME \A j, k \in 1..Len(s) : s[j] = s[k] => j = k
      PROVE  s \in Injection(1..Len(s), ToSet(s))
  BY <1>1, <1>2, <1>7 DEF Injection, IsInjective
<1> QED
  BY <1>2, <1>5, <1>6, <1>7

LEMMA ConcatIs ==
  ASSUME NEW S, NEW s \in Seq(S), NEW t \in Seq(S)
  PROVE  /\ s \o t \in Seq(S) /\ Len(s \o t) = Len(s) + Len(t)
         /\ \A k \in 1..Len(s) : (s \o t)[k] = s[k]
         /\ \A k \in 1..Len(t) : (s \o t)[Len(s) + k] = t[k]
         /\ ToSet(s \o t) = ToSet(s) \cup ToSet(t)
<1>1. /\ s \o t \in Seq(S) /\ Len(s \o t) = Len(s) + Len(t)
      /\ Len(s) \in Nat /\ Len(t) \in Nat
      /\ \A k \in 1..Len(s) + Len(t) : (s \o t)[k] = IF k <= Len(s) THEN s[k] ELSE t[k - Len(s)]
  BY ConcatProperties, LenProperties
<1>2. \A k \in 1..Len(s) : (s \o t)[k] = s[k]
  BY <1>1
<1>3. \A k \in 1..Len(t) : (s \o t)[Len(s) + k] = t[k]
  <2> TAKE k \in 1..Len(t)
  <2>1. Len(s) + k \in 1..Len(s) + Len(t) /\ ~(Len(s) + k <= Len(s)) /\ (Len(s) + k) - Len(s) = k
    BY <1>1
  <2> QED
    BY <1>1, <2>1
<1>4. /\ ToSet(s \o t) = {(s \o t)[k] : k \in 1..Len(s) + Len(t)}
      /\ ToSet(s) = {s[k] : k \in 1..Len(s)} /\ ToSet(t) = {t[k] : k \in 1..Len(t)}
  BY <1>1, ItemsIs
<1>5. ASSUME NEW k \in 1..Len(s) + Len(t) PROVE (s \o t)[k] \in ToSet(s) \cup ToSet(t)
  <2>1. CASE k <= Len(s)
    BY <1>1, <1>4, <2>1
  <2>2. CASE ~(k <= Len(s))
    <3>1. k - Len(s) \in 1..Len(t)
      BY <1>1, <2>2
    <3> QED
      BY <1>1, <1>4, <2>2, <3>1
  <2> QED
    BY <2>1, <2>2
<1>6. ToSet(s) \subseteq ToSet(s \o t)
  <2>1. \A k \in 1..Len(s) : k \in 1..Len(s) + Len(t)
    BY <1>1
  <2> QED
    BY <1>2, <1>4, <2>1
<1>7. ToSet(t) \subseteq ToSet(s \o t)
  <2>1. \A k \in 1..Len(t) : Len(s) + k \in 1..Len(s) + Len(t)
    BY <1>1
  <2> QED
    BY <1>3, <1>4, <2>1
<1> QED
  BY <1>1, <1>2, <1>3, <1>4, <1>5, <1>6, <1>7

LEMMA OneMore ==
  ASSUME NEW S, IsFiniteSet(S), NEW T, NEW x, T \subseteq S \cup {x}
  PROVE  IsFiniteSet(T) /\ Cardinality(T) \in Nat /\ Cardinality(T) <= Cardinality(S) + 1
<1>1. IsFiniteSet(S \cup {x}) /\ Cardinality(S \cup {x}) <= Cardinality(S) + 1 /\ Cardinality(S) \in Nat
  BY FS_AddElement, FS_CardinalityType
<1>2. IsFiniteSet(T) /\ Cardinality(T) <= Cardinality(S \cup {x}) /\ Cardinality(T) \in Nat
  BY <1>1, FS_Subset, FS_CardinalityType
<1>3. Cardinality(S \cup {x}) \in Nat
  BY <1>1, FS_CardinalityType
<1> QED
  BY <1>1, <1>2, <1>3

(* A page moves users from those to come to those shown.                   *)
LEMMA PageCounts ==
  ASSUME NEW G, IsFiniteSet(G), NEW R, IsFiniteSet(R), NEW B, B \cap R = {}
  PROVE  Cardinality(G \cup R) - Cardinality(B \cap (G \cup R))
           = Cardinality(G) + Cardinality(R) - Cardinality((B \cup R) \cap G)
<1> DEFINE A == B \cup R
<1>1. /\ IsFiniteSet(G \cup R)
      /\ Cardinality(G \cup R) = Cardinality(G) + Cardinality(R) - Cardinality(G \cap R)
  BY FS_Union
<1>2. IsFiniteSet(B \cap G) /\ IsFiniteSet(R \cap G) /\ IsFiniteSet(G \cap R)
  BY FS_Intersection
<1>3. A \cap G = (B \cap G) \cup (G \cap R) /\ (B \cap G) \cap (G \cap R) = {}
  OBVIOUS
<1>4. Cardinality(A \cap G) = Cardinality(B \cap G) + Cardinality(G \cap R) - 0
  <2>1. Cardinality((B \cap G) \cup (G \cap R))
          = Cardinality(B \cap G) + Cardinality(G \cap R) - Cardinality((B \cap G) \cap (G \cap R))
    BY <1>2, FS_Union
  <2> QED
    BY <1>3, <2>1, FS_EmptySet
<1>5. Cardinality(B \cap (G \cup R)) = Cardinality(B \cap G)
  <2>1. B \cap (G \cup R) = B \cap G
    OBVIOUS
  <2> QED
    BY <2>1, Zenon
<1>6. /\ Cardinality(G) \in Nat /\ Cardinality(R) \in Nat
      /\ Cardinality(B \cap G) \in Nat /\ Cardinality(G \cap R) \in Nat
  BY <1>2, FS_CardinalityType
<1> QED
  BY <1>1, <1>4, <1>5, <1>6

(* Multiples of a limit, and what lies between two of them.                *)
LEMMA Between ==
  ASSUME NEW a \in Nat, NEW L \in Nat \ {0}, NEW r \in Nat, a % L = 0
  PROVE  /\ r < L => (a + r) % L = r
         /\ (a + L) % L = 0
<1> DEFINE q == a \div L
<1>1. q \in Int /\ a = L * q
  OBVIOUS
<1>2. ASSUME NEW k \in Int, NEW m \in Nat, m < L PROVE (L * k + m) % L = m
  <2> DEFINE b == L * k + m   p == b \div L   n == b % L
  <2>1. b \in Int /\ p \in Int /\ n \in Nat /\ n < L /\ b = L * p + n
    BY <1>2
  <2>2. L * (p - k) = m - n
    BY <1>2, <2>1
  <2>3. p - k >= 1 => L * (p - k) >= L
    BY <2>1
  <2>4. p - k <= -1 => L * (p - k) <= -L
    BY <2>1
  <2> HIDE DEF p, n, b
  <2>5. p - k = 0
    BY <1>2, <2>1, <2>2, <2>3, <2>4
  <2> QED
    BY <1>2, <2>1, <2>2, <2>5 DEF n, b
<1>3. a + L = L * (q + 1) + 0
  BY <1>1
<1> QED
  BY <1>1, <1>2, <1>3

(***************************************************************************)
(* The steps of the caller, FindUsers and the server.                      *)
(***************************************************************************)

LEMMA InitFindIInv == FindInit => FindIInv
<1> SUFFICES ASSUME FindInit PROVE FindIInv
  OBVIOUS
<1>1. PICK n \in 0..MaxUsers : dataset = [k \in 1..n |-> k]
  BY DEF FindInit
<1>2. n \in Nat /\ n <= MaxUsers /\ dataset \in Seq(Nat) /\ Len(dataset) = n /\ \A k \in 1..n : dataset[k] = k
  BY <1>1, FindUsersAssumption
<1>3. FindTypeOK
  <2>1. <<>> \in Seq(Nat)
    OBVIOUS
  <2>2. req \in [Limit : Limits, Offset : Offsets] /\ start = req.Offset
    BY DEF FindInit
  <2>3. req \in [Limit : Int, Offset : Int] /\ start \in Int
    BY <2>2, FindUsersAssumption
  <2> QED
    BY <1>2, <2>1, <2>3 DEF FindInit, FindTypeOK
<1>4. AskedFor
  BY DEF FindInit, AskedFor
<1>5. UsersDiffer
  BY <1>2, FindUsersAssumption DEF FindInit, UsersDiffer
<1>6. /\ ~Taken /\ Seen = <<>> /\ ToSet(Seen) = {} /\ Len(Seen) = 0
      /\ ~LastPage /\ Upto = start /\ changes = 0
      /\ Ahead = {dataset[k] : k \in start + 1..Len(dataset)} /\ start \in Int
  BY FindUsersAssumption DEF FindInit, Taken, Seen, LastPage, Upto, Ahead, ToSet
<1>7. FewMissed
  <2> SUFFICES ASSUME Paging PROVE Cardinality(Missed) <= changes
    BY DEF FewMissed
  <2>1. ASSUME NEW u \in Missed PROVE FALSE
    <3>1. PICK k \in 1..n : u = dataset[k]
      BY <1>2 DEF Missed, Wanted, ToSet
    <3>2. u = k /\ start < k /\ u \notin Ahead
      BY <1>2, <3>1 DEF Missed, Wanted
    <3>3. k \in start + 1..Len(dataset)
      BY <1>2, <1>6, <3>1, <3>2
    <3> QED
      BY <1>6, <3>1, <3>2, <3>3
  <2>2. Missed = {}
    BY <2>1
  <2> QED
    BY <1>6, <2>2, FS_EmptySet
<1>8. FewTwice
  <2>1. Cardinality(ToSet(Seen)) = 0 /\ Cardinality(Ahead \cap ToSet(Seen)) = 0
    <3>1. Ahead \cap ToSet(Seen) = {}
      BY <1>6
    <3> QED
      BY <1>6, <3>1, FS_EmptySet, Zenon
  <2> QED
    BY <1>6, <2>1 DEF FewTwice
<1>9. InOrder
  <2> SUFFICES ASSUME Paging PROVE InOrder
    BY DEF InOrder
  <2>1. req.Limit \in Nat \ {0} /\ (Upto - start) % req.Limit = 0
    BY <1>3, <1>6 DEF Paging, FindTypeOK
  <2>2. ShownTo(Upto) = {}
    BY <1>2, <1>6 DEF ShownTo
  <2> QED
    BY <1>6, <2>1, <2>2 DEF InOrder
<1> QED
  BY <1>3, <1>4, <1>5, <1>7, <1>8, <1>9 DEF FindIInv, AnswerFits, FindInit

(* What a step leaves alone if it only passes on what is shown.            *)
LEMMA PassedOn ==
  ASSUME FindIInv, UNCHANGED <<dataset, start, changes>>, req'.Limit = req.Limit,
         Paging' => /\ Paging /\ Seen' = Seen /\ Ahead' = Ahead /\ Upto' = Upto
                    /\ LastPage' => LastPage
  PROVE  UsersDiffer' /\ FewMissed' /\ FewTwice' /\ InOrder'
<1>1. UsersDiffer'
  BY DEF FindIInv, UsersDiffer
<1>2. FewMissed'
  BY DEF FindIInv, FewMissed, Missed, Wanted
<1>3. FewTwice'
  BY DEF FindIInv, FewTwice
<1>4. InOrder'
  BY DEF FindIInv, InOrder, ShownTo
<1> QED
  BY <1>1, <1>2, <1>3, <1>4

LEMMA AskKeeps == ASSUME FindIInv, Ask PROVE FindIInv'
<1> USE DEF Ask
<1>1. FindTypeOK'
  BY FindUsersAssumption DEF FindIInv, FindTypeOK, Capped
<1>2. AskedFor' /\ AnswerFits'
  BY DEF FindIInv, FindTypeOK, AskedFor, AnswerFits
<1>3. Paging' => /\ Paging /\ Seen' = Seen /\ Ahead' = Ahead /\ Upto' = Upto
                 /\ LastPage' => LastPage
  <2>1. ~Taken /\ ~Taken' /\ ~LastPage /\ ~LastPage'
    BY DEF Taken, LastPage
  <2>2. Paging' => Upto' = Upto
    BY <2>1 DEF Upto, Paging
  <2> QED
    BY <2>1, <2>2 DEF Paging, Seen, Ahead
<1> QED
  BY <1>1, <1>2, <1>3, PassedOn DEF FindIInv

LEMMA ServerFailsKeeps == ASSUME FindIInv, ServerFails PROVE FindIInv'
<1> USE DEF ServerFails
<1>1. FindTypeOK'
  BY DEF FindIInv, FindTypeOK
<1>2. AskedFor' /\ AnswerFits'
  BY DEF FindIInv, AskedFor, AnswerFits
<1>3. ~Paging'
  BY DEF Paging, Taken
<1> QED
  BY <1>1, <1>2, <1>3, PassedOn DEF FindIInv

LEMMA TurnKeeps == ASSUME FindIInv, Turn PROVE FindIInv'
<1>1. /\ findPc = "turns" /\ findPc' = (IF result.NextPage THEN "asks" ELSE "over")
      /\ req' \in [Limit : Int, Offset : Int] /\ req'.Limit = req.Limit
      /\ req'.Offset = IF result.NextPage THEN req.Offset + req.Limit ELSE req.Offset
      /\ UNCHANGED <<dataset, sent, data, status, result, gathered, start, changes>>
  BY DEF Turn, FindIInv, FindTypeOK
<1>2. FindTypeOK'
  BY <1>1 DEF FindIInv, FindTypeOK
<1>3. AskedFor'
  <2>1. 0 <= start /\ start <= req.Offset /\ 0 <= req.Limit
    BY <1>1 DEF FindIInv, AskedFor
  <2>2. start \in Int /\ req.Limit \in Int /\ req.Offset \in Int
    BY DEF FindIInv, FindTypeOK
  <2> QED
    BY <1>1, <2>1, <2>2 DEF AskedFor
<1>7. AnswerFits'
  BY <1>1 DEF AnswerFits
<1>4. ~Taken /\ ~Taken' /\ (LastPage' <=> LastPage) /\ Upto' = Upto
  BY <1>1 DEF Taken, LastPage, Upto
<1>5. Paging' => Paging /\ Seen' = Seen
  BY <1>1, <1>4 DEF Paging, Seen
<1>6. Ahead' = Ahead
  BY <1>1, <1>4 DEF Ahead
<1> QED
  BY <1>1, <1>2, <1>3, <1>4, <1>5, <1>6, <1>7, PassedOn DEF FindIInv

LEMMA UnpackKeeps == ASSUME FindIInv, Unpack PROVE FindIInv'
<1>1. /\ findPc = "unpacks" /\ data' = <<>> /\ status' = 0
      /\ UNCHANGED <<dataset, req, sent, start, changes>>
  BY DEF Unpack
<1>2. CASE status # 200
  <2>1. findPc' = "failed" /\ UNCHANGED <<result, gathered>>
    BY <1>2 DEF Unpack, OnError
  <2>2. <<>> \in Seq(Nat)
    OBVIOUS
  <2>3. FindTypeOK' /\ AskedFor' /\ AnswerFits' /\ ~Paging'
    BY <1>1, <2>1, <2>2 DEF FindIInv, FindTypeOK, AskedFor, AnswerFits, Paging, Taken
  <2> QED
    BY <1>1, <2>3, PassedOn DEF FindIInv
<1>3. CASE status = 200
  <2>1. /\ findPc' = "turns" /\ result' = Response(data)
        /\ gathered' = gathered \o Response(data).Users
    BY <1>3 DEF Unpack
  <2>2. Response(data) \in [Users : Seq(Nat), NextPage : BOOLEAN]
    BY <1>1, <1>3 DEF FindIInv, AnswerFits
  <2>3. gathered' \in Seq(Nat) /\ <<>> \in Seq(Nat)
    <3>1. gathered \in Seq(Nat) /\ Response(data).Users \in Seq(Nat)
      BY <2>2 DEF FindIInv, FindTypeOK
    <3> QED
      BY <2>1, <3>1, ConcatIs
  <2>4. FindTypeOK'
    BY <1>1, <2>1, <2>2, <2>3 DEF FindIInv, FindTypeOK
  <2>5. AskedFor' /\ AnswerFits'
    BY <1>1, <2>1 DEF FindIInv, AskedFor, AnswerFits
  <2>6. Taken /\ ~Taken' /\ (LastPage' <=> LastPage) /\ Upto' = Upto
    BY <1>1, <1>3, <2>1 DEF Taken, LastPage, Upto
  <2>7. (Paging' => Paging) /\ Seen' = Seen
    BY <1>1, <2>1, <2>6 DEF Paging, Seen
  <2>8. Ahead' = Ahead
    BY <1>1, <2>6 DEF Ahead
  <2> QED
    BY <1>1, <2>4, <2>5, <2>6, <2>7, <2>8, PassedOn DEF FindIInv
<1> QED
  BY <1>2, <1>3

(* The answer that the server sends: the next users, as many as a page has *)
(* room for, and one more if there is a next page.                         *)
LEMMA PageIs ==
  ASSUME FindIInv, SearchServer
  PROVE  LET c == Capped(req.Limit)
             page == Response(data').Users
         IN  /\ c \in 0..MaxLimit /\ c <= req.Limit /\ (c = MaxLimit \/ c = req.Limit)
             /\ 0 <= start /\ start <= req.Offset
             /\ Response(data') \in [Users : Seq(Nat), NextPage : BOOLEAN]
             /\ Response(data') = Response(data)'
             /\ Response(data').NextPage <=> req.Offset + c < Len(dataset)
             /\ Len(page) = IF req.Offset + c <= Len(dataset) THEN c
                            ELSE IF req.Offset <= Len(dataset) THEN Len(dataset) - req.Offset ELSE 0
             /\ \A k \in 1..Len(page) : page[k] = dataset[req.Offset + k]
<1> DEFINE c == Capped(req.Limit)
<1>1. /\ findPc = "waits" /\ data' = AtMost(From(sent.offset), sent.limit) /\ UNCHANGED sent
  BY DEF SearchServer
<1>2. /\ 0 <= start /\ start <= req.Offset /\ 0 <= req.Limit
      /\ req.Limit \in Int /\ req.Offset \in Int /\ start \in Int
      /\ sent = [limit |-> c + 1, offset |-> req.Offset]
  BY <1>1 DEF FindIInv, FindTypeOK, AskedFor
<1>3. c \in 0..MaxLimit /\ c <= req.Limit /\ (c = MaxLimit \/ c = req.Limit)
  BY <1>2, FindUsersAssumption DEF Capped
<1> HIDE DEF c
<1>4. sent.limit = c + 1 /\ sent.offset = req.Offset /\ c \in Nat /\ req.Offset \in Nat
  BY <1>2, <1>3, FindUsersAssumption
<1>5. /\ data' \in Seq(Nat) /\ Len(dataset) \in Nat
      /\ Len(data') = IF req.Offset + (c + 1) <= Len(dataset) THEN c + 1
                      ELSE IF req.Offset <= Len(dataset) THEN Len(dataset) - req.Offset ELSE 0
      /\ \A k \in 1..Len(data') : data'[k] = dataset[req.Offset + k]
  <2>1. dataset \in Seq(Nat)
    BY DEF FindIInv, FindTypeOK
  <2>2. data' = AtMost(From(req.Offset), c + 1) /\ c + 1 \in Nat
    BY <1>1, <1>4
  <2>3. LET a == AtMost(From(req.Offset), c + 1) IN
        /\ a \in Seq(Nat)
        /\ Len(a) = IF req.Offset + (c + 1) <= Len(dataset) THEN c + 1
                    ELSE IF req.Offset <= Len(dataset) THEN Len(dataset) - req.Offset ELSE 0
        /\ \A k \in 1..Len(a) : a[k] = dataset[req.Offset + k]
    BY <1>4, <2>1, <2>2, AnswerIs
  <2> QED
    BY <2>1, <2>2, <2>3, LenProperties
<1>6. /\ Response(data') \in [Users : Seq(Nat), NextPage : BOOLEAN]
      /\ Response(data').NextPage <=> Len(data') = c + 1
      /\ Len(Response(data').Users) = IF Len(data') = c + 1 THEN Len(data') - 1 ELSE Len(data')
      /\ \A k \in 1..Len(Response(data').Users) : Response(data').Users[k] = data'[k]
  <2>1. sent.limit \in Nat \ {0} /\ Len(data') <= sent.limit
    BY <1>4, <1>5
  <2> QED
    BY <1>4, <1>5, <2>1, ResponseIs
<1>7. Response(data') = Response(data)'
  BY <1>1 DEF Response
<1>8. /\ Len(data') = c + 1 <=> req.Offset + c < Len(dataset)
      /\ Len(Response(data').Users) =
           IF req.Offset + c <= Len(dataset) THEN c
           ELSE IF req.Offset <= Len(dataset) THEN Len(dataset) - req.Offset ELSE 0
      /\ 1..Len(Response(data').Users) \subseteq 1..Len(data')
  <2> DEFINE n == Len(dataset)
             O == req.Offset
             m == Len(data')
             p == Len(Response(data').Users)
  <2>1. /\ n \in Nat /\ O \in Nat /\ c \in Nat
        /\ m = IF O + (c + 1) <= n THEN c + 1 ELSE IF O <= n THEN n - O ELSE 0
        /\ p = IF m = c + 1 THEN m - 1 ELSE m
    BY <1>4, <1>5, <1>6
  <2> HIDE DEF n, O, m, p
  <2>2. /\ m = c + 1 <=> O + c < n
        /\ p = IF O + c <= n THEN c ELSE IF O <= n THEN n - O ELSE 0
        /\ p \in Nat /\ m \in Nat /\ p <= m
    BY <2>1
  <2>3. 1..p \subseteq 1..m
    BY <2>2
  <2> QED
    BY <2>2, <2>3 DEF n, O, m, p
<1> QED
  BY <1>2, <1>3, <1>5, <1>6, <1>7, <1>8 DEF c

LEMMA SearchServerKeeps == ASSUME FindIInv, SearchServer PROVE FindIInv'
<1> DEFINE c == Capped(req.Limit)
           page == Response(data').Users
           n == Len(dataset)
           O == req.Offset
           L == req.Limit
<1>1. /\ findPc = "waits" /\ findPc' = "unpacks" /\ status' = 200
      /\ data' = AtMost(From(sent.offset), sent.limit)
      /\ UNCHANGED <<dataset, req, sent, result, gathered, start, changes>>
  BY DEF SearchServer
<1>2. /\ c \in 0..MaxLimit /\ c <= L /\ (c = MaxLimit \/ c = L)
      /\ 0 <= start /\ start <= O
      /\ Response(data') \in [Users : Seq(Nat), NextPage : BOOLEAN]
      /\ Response(data') = Response(data)'
      /\ Response(data').NextPage <=> O + c < n
      /\ Len(page) = IF O + c <= n THEN c ELSE IF O <= n THEN n - O ELSE 0
      /\ \A k \in 1..Len(page) : page[k] = dataset[O + k]
  BY PageIs
<1>3. /\ dataset \in Seq(Nat) /\ gathered \in Seq(Nat) /\ page \in Seq(Nat) /\ n \in Nat
      /\ Len(gathered) \in Nat /\ start \in Int /\ O \in Nat /\ L \in Int /\ c \in Nat
      /\ MaxLimit \in Nat \ {0} /\ changes \in Nat
  BY <1>2, LenProperties, FindUsersAssumption DEF FindIInv, FindTypeOK
<1> HIDE DEF c, page, n, O, L
<1>4. data' \in Seq(Nat)
  <2>1. sent = [limit |-> c + 1, offset |-> O]
    BY <1>1 DEF FindIInv, AskedFor, c, O
  <2>2. sent.offset \in Nat /\ sent.limit \in Nat
    BY <1>3, <2>1
  <2> QED
    BY <1>1, <1>3, <2>2, AnswerIs
<1>5. FindTypeOK'
  BY <1>1, <1>4 DEF FindIInv, FindTypeOK
<1>6. AskedFor' /\ AnswerFits'
  BY <1>1, <1>2 DEF FindIInv, AskedFor, AnswerFits
<1>7. UsersDiffer'
  BY <1>1 DEF FindIInv, UsersDiffer, n
<1>8. /\ Seen = gathered /\ Seen' = gathered \o page
      /\ Upto = O /\ Upto' = O + L
      /\ ~LastPage /\ (LastPage' <=> ~(O + c < n))
      /\ (Paging' <=> 0 < L) /\ (Paging <=> 0 < L)
  BY <1>1, <1>2 DEF Taken, Seen, Upto, LastPage, Paging, page, O, L
<1>9. /\ Len(Seen') = Len(gathered) + Len(page) /\ ToSet(Seen') = ToSet(Seen) \cup ToSet(page)
      /\ \A k \in 1..Len(gathered) : Seen'[k] = gathered[k]
      /\ \A k \in 1..Len(page) : Seen'[Len(gathered) + k] = page[k]
  <2>1. /\ Len(gathered \o page) = Len(gathered) + Len(page)
        /\ \A k \in 1..Len(gathered) : (gathered \o page)[k] = gathered[k]
        /\ \A k \in 1..Len(page) : (gathered \o page)[Len(gathered) + k] = page[k]
        /\ ToSet(gathered \o page) = ToSet(gathered) \cup ToSet(page)
    BY <1>3, ConcatIs
  <2> QED
    BY <1>8, <2>1
<1>10. /\ IsFiniteSet(ToSet(Seen)) /\ IsFiniteSet(ToSet(page))
       /\ Cardinality(ToSet(Seen)) \in Nat
       /\ ToSet(page) = {page[k] : k \in 1..Len(page)}
  BY <1>3, <1>8, ItemsIs
<1>11. ToSet(page) = {dataset[k] : k \in O + 1..(IF O + c <= n THEN O + c ELSE n)}
  <2>1. ASSUME NEW k \in 1..Len(page)
        PROVE  O + k \in O + 1..(IF O + c <= n THEN O + c ELSE n) /\ page[k] = dataset[O + k]
    BY <1>2, <1>3
  <2>2. ASSUME NEW k \in O + 1..(IF O + c <= n THEN O + c ELSE n)
        PROVE  k - O \in 1..Len(page) /\ page[k - O] = dataset[k]
    <3>1. k - O \in 1..Len(page) /\ O + (k - O) = k
      BY <1>2, <1>3
    <3> QED
      BY <1>2, <3>1
  <2> DEFINE D == {dataset[k] : k \in O + 1..(IF O + c <= n THEN O + c ELSE n)}
  <2>3. \A k \in 1..Len(page) : page[k] \in D
    BY <2>1
  <2>4. \A k \in O + 1..(IF O + c <= n THEN O + c ELSE n) : dataset[k] \in {page[j] : j \in 1..Len(page)}
    BY <2>2
  <2> QED
    BY <1>10, <2>3, <2>4
<1>16. \A k \in 1..Len(page) : O + k \in 1..n
  BY <1>2, <1>3
<1>12. ASSUME 0 < L, L <= MaxLimit
       PROVE  Ahead = Ahead' \cup ToSet(page) /\ Ahead' \cap ToSet(page) = {} /\ c = L
  <2>1. c = L
    BY <1>2, <1>3, <1>12
  <2>2. Ahead = {dataset[k] : k \in O + 1..n}
    BY <1>8 DEF Ahead, n
  <2>3. Ahead' = {dataset[k] : k \in O + c + 1..n}
    <3>1. CASE O + c < n
      BY <1>1, <1>8, <2>1, <3>1 DEF Ahead, n
    <3>2. CASE ~(O + c < n)
      BY <1>3, <1>8, <3>2 DEF Ahead, n
    <3> QED
      BY <3>1, <3>2
  <2>4. Ahead = Ahead' \cup ToSet(page)
    <3>1. O + 1..n = (O + c + 1..n) \cup (O + 1..(IF O + c <= n THEN O + c ELSE n))
      BY <1>2, <1>3
    <3> QED
      BY <1>11, <2>2, <2>3, <3>1
  <2>5. ASSUME NEW u \in Ahead' \cap ToSet(page) PROVE FALSE
    <3>1. PICK j \in O + c + 1..n : u = dataset[j]
      BY <2>3, <2>5
    <3>2. PICK k \in O + 1..(IF O + c <= n THEN O + c ELSE n) : u = dataset[k]
      BY <1>11, <2>5
    <3>3. j \in 1..n /\ k \in 1..n /\ j # k
      BY <1>2, <1>3, <3>1, <3>2
    <3> QED
      BY <3>1, <3>2, <3>3 DEF FindIInv, UsersDiffer, n
  <2> QED
    BY <2>1, <2>4, <2>5
<1>13. FewMissed'
  <2> SUFFICES ASSUME 0 < L, L <= MaxLimit PROVE Cardinality(Missed)' <= changes
    BY <1>1, <1>8 DEF FewMissed, L
  <2>1. Wanted' = Wanted /\ Missed' = Missed
    BY <1>1, <1>9, <1>12 DEF Wanted, Missed
  <2> QED
    BY <1>8, <2>1 DEF FindIInv, FewMissed, L
<1>14. FewTwice'
  <2> SUFFICES ASSUME 0 < L, L <= MaxLimit
               PROVE  (Len(Seen) - Cardinality(ToSet(Seen)) + Cardinality(Ahead \cap ToSet(Seen)))' <= changes
    BY <1>1, <1>8 DEF FewTwice, L
  <2>1. Cardinality(ToSet(page)) = Len(page)
    <3>1. ASSUME NEW j \in 1..Len(page), NEW k \in 1..Len(page), page[j] = page[k] PROVE j = k
      <4>a. page[j] = dataset[O + j] /\ page[k] = dataset[O + k]
        BY <1>2, <3>1
      <4>1. O + j \in 1..n /\ O + k \in 1..n /\ dataset[O + j] = dataset[O + k]
        BY <1>16, <3>1, <4>a
      <4>2. O + j = O + k
        BY <4>1 DEF FindIInv, UsersDiffer, n
      <4> QED
        BY <1>3, <4>2
    <3> QED
      BY <1>3, <3>1, ItemsIs
  <2>2. Cardinality(ToSet(Seen) \cup ToSet(page)) - Cardinality(Ahead' \cap (ToSet(Seen) \cup ToSet(page)))
          = Cardinality(ToSet(Seen)) + Cardinality(ToSet(page)) - Cardinality(Ahead \cap ToSet(Seen))
    <3> DEFINE G == ToSet(Seen)
               P == ToSet(page)
               A == Ahead
               B == Ahead'
    <3>1. IsFiniteSet(G) /\ IsFiniteSet(P) /\ A = B \cup P /\ B \cap P = {}
      BY <1>10, <1>12
    <3> HIDE DEF G, P, A, B
    <3>2. Cardinality(G \cup P) - Cardinality(B \cap (G \cup P))
            = Cardinality(G) + Cardinality(P) - Cardinality(A \cap G)
      <4>1. Cardinality(G \cup P) - Cardinality(B \cap (G \cup P))
              = Cardinality(G) + Cardinality(P) - Cardinality((B \cup P) \cap G)
        BY <3>1, PageCounts
      <4> QED
        BY <3>1, <4>1
    <3> QED
      BY <3>2 DEF G, P, A, B
  <2>3. /\ Cardinality(ToSet(Seen) \cup ToSet(page)) \in Nat
        /\ Cardinality(Ahead' \cap (ToSet(Seen) \cup ToSet(page))) \in Nat
        /\ Cardinality(Ahead \cap ToSet(Seen)) \in Nat
    BY <1>10, FS_Union, FS_Intersection, FS_CardinalityType
  <2>4. Len(gathered) - Cardinality(ToSet(Seen)) + Cardinality(Ahead \cap ToSet(Seen)) <= changes
    BY <1>8 DEF FindIInv, FewTwice, L
  <2>5. /\ Cardinality(ToSet(Seen)') = Cardinality(ToSet(Seen) \cup ToSet(page))
        /\ Cardinality(Ahead' \cap ToSet(Seen)') = Cardinality(Ahead' \cap (ToSet(Seen) \cup ToSet(page)))
    BY <1>9
  <2>6. Len(page) \in Nat /\ Len(Seen)' = Len(gathered) + Len(page)
    BY <1>3, <1>9, LenProperties
  <2> QED
    <3> DEFINE g == Len(gathered)
               h == Len(Seen)'
               l == Len(page)
               x == Cardinality(ToSet(Seen))
               y == Cardinality(Ahead \cap ToSet(Seen))
               z == Cardinality(ToSet(Seen) \cup ToSet(page))
               w == Cardinality(Ahead' \cap (ToSet(Seen) \cup ToSet(page)))
    <3>1. /\ g \in Nat /\ l \in Nat /\ x \in Nat /\ y \in Nat /\ z \in Nat /\ w \in Nat
          /\ h = g + l /\ z - w = x + l - y /\ g - x + y <= changes /\ changes \in Nat
      BY <1>3, <1>10, <2>1, <2>2, <2>3, <2>4, <2>6
    <3> HIDE DEF g, h, l, x, y, z, w
    <3>2. h - z + w <= changes
      BY <3>1
    <3> QED
      BY <2>5, <3>2 DEF h, z, w
<1>15. InOrder'
  <2> SUFFICES ASSUME 0 < L, changes = 0
               PROVE  /\ (O + L - start) % L = 0
                      /\ ToSet(Seen') = ShownTo(O + L)
                      /\ \A j, k \in 1..Len(Seen') : j < k => Seen'[j] < Seen'[k]
                      /\ ~(O + c < n) => n <= O + L
    <3>1. ShownTo(Upto)' = ShownTo(O + L)
      BY <1>1, <1>8 DEF ShownTo
    <3>2. Len(dataset)' = n /\ req'.Limit = L
      BY <1>1 DEF n, L
    <3>3. /\ Upto' = O + L /\ start' = start
          /\ LastPage' => ~(O + c < n)
      BY <1>1, <1>8
    <3>4. ASSUME ~Paging' \/ changes # 0 PROVE InOrder'
      BY <1>1, <3>4 DEF InOrder
    <3>5. ASSUME Paging', changes = 0 PROVE InOrder'
      <4>1. 0 < L
        BY <1>8, <3>5
      <4>2. /\ (O + L - start) % L = 0
            /\ ToSet(Seen') = ShownTo(O + L)
            /\ \A j, k \in 1..Len(Seen') : j < k => Seen'[j] < Seen'[k]
            /\ ~(O + c < n) => n <= O + L
        BY <3>5, <4>1
      <4>3. ((Upto - start) % req.Limit = 0)'
        <5>1. req'.Limit = L
          BY <3>2
        <5>2. Upto' - start' = O + L - start
          BY <1>3, <3>3
        <5>3. (O + L - start) % L = 0
          BY <4>2
        <5> QED
          BY <5>1, <5>2, <5>3
      <4>4. (ToSet(Seen) = ShownTo(Upto))'
        BY <3>1, <4>2
      <4>5. (LastPage => Len(dataset) <= Upto)'
        BY <3>2, <3>3, <4>2
      <4> QED
        BY <4>2, <4>3, <4>4, <4>5 DEF InOrder
    <3> QED
      BY <3>4, <3>5
  <2>1. /\ (O - start) % L = 0 /\ ToSet(gathered) = ShownTo(O)
        /\ \A j, k \in 1..Len(gathered) : j < k => gathered[j] < gathered[k]
        /\ \A k \in 1..n : dataset[k] = k
    BY <1>8 DEF FindIInv, InOrder, UsersDiffer, n, L
  <2>2. O - start \in Nat /\ L \in Nat \ {0}
    BY <1>2, <1>3
  <2>3. (O + L - start) % L = 0
    <3>1. O + L - start = (O - start) + L
      BY <1>3
    <3> QED
      BY <2>1, <2>2, <3>1, Between
  <2>4. ToSet(page) = O + 1..(IF O + c <= n THEN O + c ELSE n)
    <3>1. \A k \in O + 1..(IF O + c <= n THEN O + c ELSE n) : dataset[k] = k
      BY <1>3, <2>1
    <3> QED
      BY <1>11, <3>1
  <2>5. ASSUME NEW k \in 1..n, O < k, k <= O + L
        PROVE  (k - 1 - start) % L = k - 1 - O
    <3>1. k - 1 - start = (O - start) + (k - 1 - O) /\ k - 1 - O \in Nat /\ k - 1 - O < L
      BY <1>3, <2>5
    <3> QED
      BY <2>1, <2>2, <3>1, Between
  <2>6. ASSUME NEW k \in 1..n
        PROVE  k \in ShownTo(O + L) <=> k \in ShownTo(O) \/ k \in ToSet(page)
    <3>1. CASE k <= O
      <4>1. k <= O + L /\ k \notin O + 1..(IF O + c <= n THEN O + c ELSE n)
        BY <1>3, <3>1
      <4> QED
        BY <2>4, <3>1, <4>1 DEF ShownTo, n, L
    <3>2. CASE O < k /\ k <= O + L
      <4>1. k \in ShownTo(O + L) <=> k - 1 - O < MaxLimit
        <5>1. (k - 1 - start) % L = k - 1 - O /\ start < k
          BY <1>2, <1>3, <2>5, <3>2
        <5> QED
          BY <3>2, <5>1 DEF ShownTo, n, L
      <4>2. k \in ToSet(page) <=> k - 1 - O < MaxLimit
        BY <1>2, <1>3, <2>4, <3>2
      <4>3. k \notin ShownTo(O)
        BY <1>3, <3>2 DEF ShownTo, n, L
      <4> QED
        BY <4>1, <4>2, <4>3
    <3>3. CASE ~(k <= O + L)
      <4>1. k \notin O + 1..(IF O + c <= n THEN O + c ELSE n) /\ ~(k <= O)
        BY <1>2, <1>3, <3>3
      <4> QED
        BY <2>4, <3>3, <4>1 DEF ShownTo, n, L
    <3> QED
      BY <1>3, <3>1, <3>2, <3>3
  <2>7. ToSet(Seen') = ShownTo(O + L)
    <3>1. ShownTo(O) \subseteq 1..n /\ ShownTo(O + L) \subseteq 1..n
      BY DEF ShownTo, n, L
    <3>2. ToSet(page) \subseteq 1..n
      BY <1>3, <2>4
    <3> QED
      BY <1>8, <1>9, <2>1, <2>6, <3>1, <3>2
  <2>8. ASSUME NEW j \in 1..Len(Seen'), NEW k \in 1..Len(Seen'), j < k PROVE Seen'[j] < Seen'[k]
    <3>1. Len(page) \in Nat
      BY <1>3, LenProperties
    <3>2. ASSUME NEW m \in 1..Len(page) PROVE Seen'[Len(gathered) + m] = O + m
      <4>1. O + m \in 1..n
        BY <1>16, <3>2
      <4> QED
        BY <1>2, <1>9, <2>1, <3>2, <4>1
    <3>3. CASE k <= Len(gathered)
      <4>1. j \in 1..Len(gathered) /\ k \in 1..Len(gathered)
        BY <1>3, <1>9, <2>8, <3>1, <3>3
      <4> QED
        BY <1>9, <2>1, <2>8, <4>1
    <3>4. CASE j <= Len(gathered) /\ ~(k <= Len(gathered))
      <4>1. gathered[j] \in ToSet(gathered) /\ Seen'[j] = gathered[j]
        BY <1>3, <1>9, <3>4, ItemsIs
      <4>2. gathered[j] <= O /\ gathered[j] \in Nat
        BY <2>1, <4>1 DEF ShownTo, n, L
      <4>3. k - Len(gathered) \in 1..Len(page) /\ k = Len(gathered) + (k - Len(gathered))
        BY <1>3, <1>9, <3>1, <3>4
      <4>4. Seen'[k] = O + (k - Len(gathered))
        BY <3>2, <4>3
      <4> QED
        BY <1>3, <4>1, <4>2, <4>3, <4>4
    <3>5. CASE ~(j <= Len(gathered)) /\ ~(k <= Len(gathered))
      <4>1. /\ k - Len(gathered) \in 1..Len(page) /\ k = Len(gathered) + (k - Len(gathered))
            /\ j - Len(gathered) \in 1..Len(page) /\ j = Len(gathered) + (j - Len(gathered))
        BY <1>3, <1>9, <3>1, <3>5
      <4>2. Seen'[k] = O + (k - Len(gathered)) /\ Seen'[j] = O + (j - Len(gathered))
        BY <3>2, <4>1
      <4> QED
        BY <1>3, <2>8, <4>1, <4>2
    <3> QED
      BY <1>3, <1>9, <2>8, <3>1, <3>3, <3>4, <3>5
  <2>9. ~(O + c < n) => n <= O + L
    BY <1>2, <1>3
  <2> QED
    BY <2>3, <2>7, <2>8, <2>9
<1> QED
  BY <1>5, <1>6, <1>7, <1>13, <1>14, <1>15 DEF FindIInv

(* Somebody who comes or goes moves at most one user over the border       *)
(* between those shown, or passed over, and those to come.                 *)
LEMMA OthersAre ==
  ASSUME FindIInv, OthersChange
  PROVE  /\ dataset' \in Seq(Nat) /\ changes' = changes + 1
         /\ \/ /\ Len(dataset) > 0 /\ Len(dataset') = Len(dataset) - 1
               /\ \A k \in 1..Len(dataset) - 1 : dataset'[k] = dataset[k + 1]
            \/ /\ Len(dataset') = Len(dataset) + 1
               /\ dataset'[1] = MaxUsers + changes + 1
               /\ \A k \in 1..Len(dataset) : dataset'[k + 1] = dataset[k]
<1>1. dataset \in Seq(Nat) /\ changes \in Nat /\ Len(dataset) \in Nat
  BY LenProperties DEF FindIInv, FindTypeOK
<1>2. CASE dataset # <<>> /\ dataset' = Tail(dataset)
  <2>1. /\ dataset' \in Seq(Nat) /\ Len(dataset') = Len(dataset) - 1 /\ Len(dataset) > 0
        /\ \A k \in 1..Len(dataset) - 1 : dataset'[k] = dataset[k + 1]
    BY <1>1, <1>2, HeadTailProperties, EmptySeq
  <2> QED
    BY <2>1 DEF OthersChange
<1>3. CASE dataset' = <<MaxUsers + changes'>> \o dataset
  <2> DEFINE new == MaxUsers + changes + 1
  <2>1. new \in Nat /\ changes' = changes + 1 /\ dataset' = <<new>> \o dataset
    BY <1>1, <1>3, FindUsersAssumption DEF OthersChange
  <2>2. <<new>> \in Seq(Nat) /\ Len(<<new>>) = 1 /\ <<new>>[1] = new
    BY <2>1
  <2> HIDE DEF new
  <2>3. /\ dataset' \in Seq(Nat) /\ Len(dataset') = 1 + Len(dataset)
        /\ \A k \in 1..1 : dataset'[k] = <<new>>[k]
        /\ \A k \in 1..Len(dataset) : dataset'[1 + k] = dataset[k]
    BY <1>1, <2>1, <2>2, ConcatIs
  <2>4. /\ Len(dataset') = Len(dataset) + 1 /\ dataset'[1] = new
        /\ \A k \in 1..Len(dataset) : dataset'[k + 1] = dataset[k]
    BY <1>1, <2>2, <2>3
  <2> QED
    BY <2>1, <2>3, <2>4 DEF new
<1> QED
  BY <1>2, <1>3 DEF OthersChange

LEMMA OthersChangeKeeps == ASSUME FindIInv, OthersChange PROVE FindIInv'
<1> DEFINE n == Len(dataset)
           u == Upto
           Left == /\ n > 0 /\ Len(dataset') = n - 1
                   /\ \A k \in 1..n - 1 : dataset'[k] = dataset[k + 1]
           Came == /\ Len(dataset') = n + 1 /\ dataset'[1] = MaxUsers + changes + 1
                   /\ \A k \in 1..n : dataset'[k + 1] = dataset[k]
<1>1. /\ dataset' \in Seq(Nat) /\ changes' = changes + 1 /\ (Left \/ Came)
      /\ UNCHANGED <<req, sent, data, status, findPc, result, gathered, start>>
  BY OthersAre DEF OthersChange
<1>2. /\ dataset \in Seq(Nat) /\ gathered \in Seq(Nat) /\ n \in Nat /\ changes \in Nat
      /\ MaxUsers \in Nat /\ start \in Int /\ req.Limit \in Int /\ req.Offset \in Int
  BY LenProperties, FindUsersAssumption DEF FindIInv, FindTypeOK
<1>3. FindTypeOK' /\ AskedFor' /\ AnswerFits'
  BY <1>1, <1>2 DEF FindIInv, FindTypeOK, AskedFor, AnswerFits, Response
<1>4. UsersDiffer'
  <2>1. /\ \A k \in 1..n : 0 < dataset[k] /\ dataset[k] <= MaxUsers + changes /\ dataset[k] \in Nat
        /\ \A j, k \in 1..n : dataset[j] = dataset[k] => j = k
    BY <1>2 DEF FindIInv, UsersDiffer
  <2> DEFINE m == Len(dataset')
             d == dataset'
  <2>2. /\ \A k \in 1..m : 0 < d[k] /\ d[k] <= MaxUsers + (changes + 1)
        /\ \A j, k \in 1..m : d[j] = d[k] => j = k
    <3>1. CASE Left
      <4>1. m = n - 1 /\ \A k \in 1..m : d[k] = dataset[k + 1] /\ k + 1 \in 1..n
        BY <1>2, <3>1
      <4> HIDE DEF m, d, n
      <4>2. ASSUME NEW k \in 1..m PROVE 0 < d[k] /\ d[k] <= MaxUsers + (changes + 1)
        <5>1. k + 1 \in 1..n /\ d[k] = dataset[k + 1]
          BY <4>1, <4>2
        <5> QED
          BY <1>2, <2>1, <5>1
      <4>3. ASSUME NEW j \in 1..m, NEW k \in 1..m, d[j] = d[k] PROVE j = k
        <5>1. j + 1 \in 1..n /\ k + 1 \in 1..n /\ dataset[j + 1] = dataset[k + 1]
          BY <4>1, <4>3
        <5>2. j + 1 = k + 1
          BY <2>1, <5>1
        <5> QED
          BY <1>2, <4>1, <4>3, <5>2
      <4> QED
        BY <4>2, <4>3
    <3>2. CASE Came
      <4>1. /\ m = n + 1 /\ d[1] = MaxUsers + changes + 1
            /\ \A k \in 2..m : d[k] = dataset[k - 1] /\ k - 1 \in 1..n
        <5>1. ASSUME NEW k \in 2..m PROVE d[k] = dataset[k - 1] /\ k - 1 \in 1..n
          <6>1. k - 1 \in 1..n /\ k = (k - 1) + 1
            BY <1>2, <3>2, <5>1
          <6> QED
            BY <3>2, <6>1
        <5> QED
          BY <3>2, <5>1
      <4> HIDE DEF m, d, n
      <4>2. \A k \in 1..m : k = 1 \/ k \in 2..m
        BY <1>2, <4>1
      <4>3. ASSUME NEW k \in 2..m
            PROVE  d[k] # d[1] /\ 0 < d[k] /\ d[k] <= MaxUsers + (changes + 1)
        <5>1. k - 1 \in 1..n /\ d[k] = dataset[k - 1]
          BY <4>1, <4>3
        <5> QED
          BY <1>2, <2>1, <4>1, <5>1
      <4>4. ASSUME NEW j \in 2..m, NEW k \in 2..m, d[j] = d[k] PROVE j = k
        <5>1. j - 1 \in 1..n /\ k - 1 \in 1..n /\ dataset[j - 1] = dataset[k - 1]
          BY <4>1, <4>4
        <5>2. j - 1 = k - 1
          BY <2>1, <5>1
        <5> QED
          BY <1>2, <4>1, <4>4, <5>2
      <4>5. 0 < d[1] /\ d[1] <= MaxUsers + (changes + 1)
        BY <1>2, <4>1
      <4>6. \A k \in 1..m : 0 < d[k] /\ d[k] <= MaxUsers + (changes + 1)
        BY <4>2, <4>3, <4>5
      <4>7. \A j, k \in 1..m : d[j] = d[k] => j = k
        BY <4>2, <4>3, <4>4
      <4> QED
        BY <4>6, <4>7
    <3> QED
      BY <1>1, <3>1, <3>2
  <2> QED
    BY <1>1, <1>2, <2>2 DEF UsersDiffer
<1>5. Seen' = Seen /\ Upto' = Upto /\ (LastPage' <=> LastPage) /\ (Paging' <=> Paging)
  BY <1>1 DEF Taken, Seen, Upto, LastPage, Paging, Response
<1>6. Paging => Upto \in Nat
  <2>1. Paging => 0 <= start /\ start <= req.Offset /\ 0 <= req.Limit
    BY <1>2 DEF Paging, Taken, FindIInv, AskedFor, FindTypeOK
  <2> QED
    BY <1>2, <2>1 DEF Upto
<1>7. /\ ToSet(dataset) = {dataset[k] : k \in 1..n} /\ IsFiniteSet(ToSet(dataset))
      /\ ToSet(dataset') = {dataset'[k] : k \in 1..Len(dataset')}
  BY <1>1, <1>2, ItemsIs
<1>8. Wanted' \subseteq Wanted
  <2>1. ASSUME NEW k \in 1..Len(dataset'), dataset'[k] <= MaxUsers PROVE dataset'[k] \in ToSet(dataset)
    <3>1. CASE Left
      <4>1. k \in 1..n - 1 /\ k + 1 \in 1..n
        BY <1>2, <2>1, <3>1
      <4> QED
        BY <1>7, <3>1, <4>1
    <3>2. CASE Came
      <4>1. k # 1
        BY <1>2, <2>1, <3>2
      <4>2. k - 1 \in 1..n /\ (k - 1) + 1 = k
        BY <1>2, <2>1, <3>2, <4>1
      <4> QED
        BY <1>7, <3>2, <4>2
    <3> QED
      BY <1>1, <3>1, <3>2
  <2> QED
    BY <1>1, <1>7, <2>1 DEF Wanted
<1>9. Paging => \E x : Ahead \subseteq Ahead' \cup {x}
  <2> SUFFICES ASSUME Paging, ~LastPage PROVE \E x : Ahead \subseteq Ahead' \cup {x}
    BY DEF Ahead
  <2>1. /\ Ahead = {dataset[k] : k \in u + 1..n} /\ u \in Nat
        /\ Ahead' = {dataset'[k] : k \in u + 1..Len(dataset')}
    BY <1>5, <1>6 DEF Ahead
  <2> HIDE DEF u, n
  <2>2. ASSUME NEW k \in u + 1..n PROVE dataset[k] \in Ahead' \cup {dataset[u + 1]}
    <3>1. CASE Left /\ k # u + 1
      <4>1. k - 1 \in 1..n - 1 /\ (k - 1) + 1 = k /\ k - 1 \in u + 1..Len(dataset')
        BY <1>2, <2>1, <2>2, <3>1
      <4> QED
        BY <2>1, <3>1, <4>1
    <3>2. CASE Came
      <4>1. k \in 1..n /\ k + 1 \in u + 1..Len(dataset')
        BY <1>2, <2>1, <2>2, <3>2
      <4> QED
        BY <2>1, <3>2, <4>1
    <3> QED
      BY <1>1, <3>1, <3>2
  <2>3. Ahead \subseteq Ahead' \cup {dataset[u + 1]}
    BY <2>1, <2>2
  <2> QED
    BY <2>3
<1>10. Paging => \E x : Ahead' \subseteq Ahead \cup {x}
  <2> SUFFICES ASSUME Paging, ~LastPage PROVE \E x : Ahead' \subseteq Ahead \cup {x}
    BY <1>5 DEF Ahead
  <2>1. /\ Ahead = {dataset[k] : k \in u + 1..n} /\ u \in Nat
        /\ Ahead' = {dataset'[k] : k \in u + 1..Len(dataset')}
    BY <1>5, <1>6 DEF Ahead
  <2> HIDE DEF u, n
  <2>2. ASSUME NEW k \in u + 1..Len(dataset') PROVE dataset'[k] \in Ahead \cup {dataset'[u + 1]}
    <3>1. CASE Left
      <4>1. k \in 1..n - 1 /\ k + 1 \in u + 1..n
        BY <1>2, <2>1, <2>2, <3>1
      <4> QED
        BY <2>1, <3>1, <4>1
    <3>2. CASE Came /\ k # u + 1
      <4>1. k - 1 \in 1..n /\ (k - 1) + 1 = k /\ k - 1 \in u + 1..n
        BY <1>2, <2>1, <2>2, <3>2
      <4> QED
        BY <2>1, <3>2, <4>1
    <3> QED
      BY <1>1, <3>1, <3>2
  <2>3. Ahead' \subseteq Ahead \cup {dataset'[u + 1]}
    BY <2>1, <2>2
  <2> QED
    BY <2>3
<1>11. FewMissed'
  <2> SUFFICES ASSUME Paging, req.Limit <= MaxLimit PROVE Cardinality(Missed)' <= changes + 1
    BY <1>1, <1>5 DEF FewMissed
  <2>1. PICK x : Ahead \subseteq Ahead' \cup {x}
    BY <1>9
  <2>2. Missed' \subseteq Missed \cup {x}
    BY <1>5, <1>8, <2>1 DEF Missed
  <2>3. IsFiniteSet(Missed)
    <3>1. Missed \subseteq ToSet(dataset)
      BY DEF Missed, Wanted
    <3> QED
      BY <1>7, <3>1, FS_Subset
  <2>4. Cardinality(Missed) \in Nat /\ Cardinality(Missed) <= changes
    BY <2>3, FS_CardinalityType DEF FindIInv, FewMissed
  <2>5. Cardinality(Missed)' \in Nat /\ Cardinality(Missed)' <= Cardinality(Missed) + 1
    BY <2>2, <2>3, OneMore
  <2> QED
    BY <1>2, <2>4, <2>5
<1>12. FewTwice'
  <2> DEFINE shown == Len(Seen) - Cardinality(ToSet(Seen))
             ahead == Cardinality(Ahead \cap ToSet(Seen))
  <2> SUFFICES ASSUME Paging, req.Limit <= MaxLimit PROVE shown + ahead' <= changes + 1
    BY <1>1, <1>5 DEF FewTwice
  <2>1. PICK x : Ahead' \subseteq Ahead \cup {x}
    BY <1>10
  <2>2. Seen \in Seq(Nat)
    <3>1. CASE Taken
      <4>1. Response(data).Users \in Seq(Nat)
        BY <3>1 DEF Taken, FindIInv, AnswerFits
      <4> QED
        BY <1>2, <3>1, <4>1, ConcatIs DEF Seen
    <3> QED
      BY <1>2, <3>1 DEF Seen
  <2>3. Len(Seen) \in Nat /\ IsFiniteSet(ToSet(Seen)) /\ Cardinality(ToSet(Seen)) \in Nat
    BY <2>2, ItemsIs, LenProperties
  <2>4. IsFiniteSet(Ahead \cap ToSet(Seen)) /\ ahead \in Nat
    BY <2>3, FS_Intersection, FS_CardinalityType
  <2>5. ahead' \in Nat /\ ahead' <= ahead + 1
    <3>1. (Ahead \cap ToSet(Seen))' \subseteq (Ahead \cap ToSet(Seen)) \cup {x}
      BY <1>5, <2>1
    <3> QED
      BY <2>4, <3>1, OneMore
  <2>6. shown + ahead <= changes /\ shown \in Int
    BY <2>3 DEF FindIInv, FewTwice
  <2>7. ASSUME NEW a \in Int, NEW b \in Nat, NEW c \in Nat, a + b <= changes, c <= b + 1
        PROVE  a + c <= changes + 1
    BY <1>2, <2>7
  <2> HIDE DEF shown, ahead
  <2> QED
    BY <2>4, <2>5, <2>6, <2>7
<1>13. InOrder'
  <2>1. changes' # 0
    BY <1>1, <1>2
  <2> QED
    BY <2>1 DEF InOrder
<1> QED
  BY <1>3, <1>4, <1>11, <1>12, <1>13 DEF FindIInv

LEMMA NextFindIInv == FindIInv /\ [FindNext]_findVars => FindIInv'
<1> SUFFICES ASSUME FindIInv, [FindNext]_findVars PROVE FindIInv'
  OBVIOUS
<1>1. CASE UNCHANGED findVars
  <2>1. UNCHANGED <<dataset, req, sent, data, status, findPc, result, gathered, start, changes>>
    BY <1>1 DEF findVars
  <2>2. FindTypeOK' /\ AskedFor' /\ AnswerFits'
    BY <2>1 DEF FindIInv, FindTypeOK, AskedFor, AnswerFits, Response
  <2>3. Seen' = Seen /\ Upto' = Upto /\ (LastPage' <=> LastPage) /\ (Paging' <=> Paging)
    BY <2>1 DEF Taken, Seen, Upto, LastPage, Paging, Response
  <2>4. Ahead' = Ahead
    BY <2>1, <2>3 DEF Ahead
  <2> QED
    BY <2>1, <2>2, <2>3, <2>4, PassedOn DEF FindIInv
<1> QED
  BY <1>1, AskKeeps, SearchServerKeeps, ServerFailsKeeps, UnpackKeeps, TurnKeeps, OthersChangeKeeps
     DEF FindNext

LEMMA WhatThePagesShow == FindIInv => PagesMakeTheList
<1> SUFFICES ASSUME FindIInv PROVE PagesMakeTheList
  OBVIOUS
<1>1. /\ dataset \in Seq(Nat) /\ gathered \in Seq(Nat) /\ Len(dataset) \in Nat /\ changes \in Nat
      /\ start \in Int /\ req.Limit \in Int /\ req.Offset \in Int /\ MaxUsers \in Nat
  BY LenProperties, FindUsersAssumption DEF FindIInv, FindTypeOK
<1>2. findPc = "over" => /\ ~Taken /\ Seen = gathered /\ LastPage /\ Ahead = {} /\ 0 <= start
                         /\ Upto = req.Offset + req.Limit
  BY DEF Taken, Seen, LastPage, Ahead, Upto, FindIInv, AskedFor
<1>3. ToSet(dataset) = {dataset[k] : k \in 1..Len(dataset)}
  BY <1>1, ItemsIs
<1>4. PagesShow
  <2> SUFFICES ASSUME findPc = "over", changes = 0, req.Limit > 0
               PROVE  /\ ToSet(gathered) = {k \in ToSet(dataset) :
                            start < k /\ (k - 1 - start) % req.Limit < MaxLimit}
                      /\ \A j, k \in 1..Len(gathered) : j < k => gathered[j] < gathered[k]
    BY DEF PagesShow
  <2>1. Paging
    BY <1>1, <1>2 DEF Paging
  <2>2. /\ ToSet(gathered) = ShownTo(Upto) /\ Len(dataset) <= Upto
        /\ \A j, k \in 1..Len(gathered) : j < k => gathered[j] < gathered[k]
        /\ \A k \in 1..Len(dataset) : dataset[k] = k
    BY <1>2, <2>1 DEF FindIInv, InOrder, UsersDiffer
  <2>3. ToSet(dataset) = 1..Len(dataset)
    BY <1>3, <2>2
  <2>4. \A k \in 1..Len(dataset) : k <= Upto
    BY <1>1, <1>2, <2>2
  <2>5. ShownTo(Upto) = {k \in ToSet(dataset) : start < k /\ (k - 1 - start) % req.Limit < MaxLimit}
    BY <2>3, <2>4, Zenon DEF ShownTo
  <2> QED
    BY <2>2, <2>5
<1>5. EachChangeCostsOne
  <2> SUFFICES ASSUME findPc = "over", req.Limit \in 1..MaxLimit
               PROVE  /\ Cardinality({u \in ToSet(dataset) : start < u /\ u <= MaxUsers} \ ToSet(gathered)) <= changes
                      /\ Len(gathered) - Cardinality(ToSet(gathered)) <= changes
    BY DEF EachChangeCostsOne
  <2>1. Paging /\ req.Limit <= MaxLimit
    BY <1>1, <1>2, FindUsersAssumption DEF Paging
  <2>2. Missed = {u \in ToSet(dataset) : start < u /\ u <= MaxUsers} \ ToSet(gathered)
    BY <1>2 DEF Missed, Wanted
  <2>3. Cardinality(Missed) <= changes
    BY <2>1 DEF FindIInv, FewMissed
  <2>4. Cardinality(Ahead \cap ToSet(Seen)) = 0
    <3>1. Ahead \cap ToSet(Seen) = {}
      BY <1>2
    <3> QED
      BY <3>1, FS_EmptySet, Zenon
  <2>5. Len(gathered) - Cardinality(ToSet(gathered)) <= changes
    <3>1. Len(gathered) - Cardinality(ToSet(gathered)) + 0 <= changes
      BY <1>2, <2>1, <2>4 DEF FindIInv, FewTwice
    <3>2. Len(gathered) \in Nat /\ Cardinality(ToSet(gathered)) \in Nat
      BY <1>1, ItemsIs, LenProperties
    <3> QED
      BY <1>1, <3>1, <3>2
  <2> QED
    BY <2>2, <2>3, <2>5
<1> QED
  BY <1>4, <1>5 DEF PagesMakeTheList

(* FindUsers' pages are the list: of users that stay as they are all are   *)
(* shown once and in order, and each change costs at most one user and one *)
(* repetition, whatever the limit, the offset and the server's limit.      *)
THEOREM ThePagesMakeTheList == FindSpec => []PagesMakeTheList
<1> QED
  BY InitFindIInv, NextFindIInv, WhatThePagesShow, PTL DEF FindSpec

(***************************************************************************)
(* Search: what FastSearch has seen and found of the lines it has read.    *)
(***************************************************************************)
Line(n) == file.lines[n]
Both(n) == AndroidsOf(Line(n)) # {} /\ MSIEsOf(Line(n)) # {}
Named(n) == {b \in Browsers(Line(n)) : Names(b, "Android") \/ Names(b, "MSIE")}

FoundUser == [line : Nat, email : BOOLEAN, name : BOOLEAN]

SearchTypes ==
  /\ file.lines \in Seq(UserLine) /\ i \in 0..Len(file.lines)
  /\ found \in Seq(FoundUser)
  /\ fast \in {"reads", "done", "panic"}
  /\ fast = "done" => i = Len(file.lines)

SeenSoFar ==
  fast # "panic" =>
    /\ seenBrowsers = UNION {Named(n) : n \in 1..i}

(* What is found is a line read that names both, and each such is found    *)
(* once, in the order of the file.                                         *)
FoundSoFar ==
  fast # "panic" =>
    /\ \A k \in 1..Len(found) :
         /\ found[k].line + 1 \in 1..i /\ Both(found[k].line + 1)
         /\ found[k] = Shown(found[k].line, Line(found[k].line + 1))
    /\ \A j, k \in 1..Len(found) : j < k => found[j].line < found[k].line
    /\ \A n \in 1..i : Both(n) => \E k \in 1..Len(found) : found[k].line = n - 1
    /\ Len(found) = Cardinality({n \in 1..i : Both(n)})

SearchIInv == SearchTypes /\ SeenSoFar /\ FoundSoFar

LEMMA InitSearchIInv == SearchInit => SearchIInv
<1> SUFFICES ASSUME SearchInit PROVE SearchIInv
  OBVIOUS
<1>1. file.lines \in Seq(UserLine)
  <2>1. file.lines \in UpTo(UserLine, MaxLines)
    BY DEF SearchInit
  <2>2. PICK k \in 0..MaxLines : file.lines \in [1..k -> UserLine]
    BY <2>1 DEF UpTo
  <2>3. k \in Nat
    BY <2>2, SearchAssumption
  <2> HIDE DEF UserLine
  <2> QED
    BY <2>2, <2>3
<1>2. i = 0 /\ seenBrowsers = {} /\ found = <<>> /\ fast = "reads" /\ 1..i = {}
  BY DEF SearchInit
<1>3. SearchTypes
  <2>1. Len(file.lines) \in Nat /\ <<>> \in Seq(FoundUser)
    BY <1>1, LenProperties
  <2> QED
    BY <1>1, <1>2, <2>1 DEF SearchTypes
<1>4. SeenSoFar
  BY <1>2 DEF SeenSoFar
<1>5. FoundSoFar
  <2>1. Len(found) = 0 /\ 1..Len(found) = {} /\ {n \in 1..i : Both(n)} = {}
    BY <1>2
  <2>2. Len(found) = Cardinality({n \in 1..i : Both(n)})
    BY <2>1, FS_EmptySet, Zenon
  <2> QED
    BY <1>2, <2>1, <2>2 DEF FoundSoFar
<1> QED
  BY <1>3, <1>4, <1>5 DEF SearchIInv

(* The browsers of a line that count are those that name either word.      *)
LEMMA NamedAre == \A n : Named(n) = AndroidsOf(Line(n)) \cup MSIEsOf(Line(n))
BY DEF Named, AndroidsOf, MSIEsOf

LEMMA ScanKeeps == ASSUME SearchIInv, Scan PROVE SearchIInv'
<1> DEFINE line == Line(i + 1)
<1>1. /\ fast = "reads" /\ i' = i + 1 /\ file' = file /\ i \in Nat /\ i < Len(file.lines)
      /\ Len(file.lines) \in Nat /\ i' \in 1..Len(file.lines)
  BY LenProperties DEF Scan, SearchIInv, SearchTypes
<1>2. CASE fast' = "panic" /\ UNCHANGED <<seenBrowsers, found>>
  BY <1>1, <1>2 DEF SearchIInv, SearchTypes, SeenSoFar, FoundSoFar
<1>3. CASE /\ UNCHANGED fast
           /\ seenBrowsers' = seenBrowsers \cup AndroidsOf(line) \cup MSIEsOf(line)
           /\ found' = IF Both(i + 1) THEN Append(found, Shown(i, line)) ELSE found
  <2>1. /\ \A n : Line(n)' = Line(n) /\ Both(n)' = Both(n) /\ Named(n)' = Named(n)
        /\ 1..i' = (1..i) \cup {i + 1} /\ i + 1 \notin 1..i
    BY <1>1 DEF Line, Both, Named
  <2>2. SeenSoFar'
    <3>1. seenBrowsers = UNION {Named(n) : n \in 1..i}
      BY <1>1 DEF SearchIInv, SeenSoFar
    <3>2. seenBrowsers' = seenBrowsers \cup Named(i + 1)
      BY <1>3, NamedAre
    <3>3. seenBrowsers' = UNION {Named(n) : n \in 1..i'}
      BY <2>1, <3>1, <3>2
    <3> QED
      BY <2>1, <3>3 DEF SeenSoFar
  <2>3. /\ found \in Seq(FoundUser) /\ Len(found) \in Nat
        /\ \A k \in 1..Len(found) :
             /\ found[k].line + 1 \in 1..i /\ Both(found[k].line + 1)
             /\ found[k] = Shown(found[k].line, Line(found[k].line + 1))
        /\ \A j, k \in 1..Len(found) : j < k => found[j].line < found[k].line
        /\ \A n \in 1..i : Both(n) => \E k \in 1..Len(found) : found[k].line = n - 1
        /\ Len(found) = Cardinality({n \in 1..i : Both(n)})
    BY <1>1, LenProperties DEF SearchIInv, SearchTypes, FoundSoFar
  <2>4. ASSUME NEW k \in 1..Len(found) PROVE found[k].line \in Nat /\ found[k].line < i
    <3>1. found[k] \in FoundUser
      BY <2>3, ElementOfSeq
    <3>2. found[k].line \in Nat /\ found[k].line + 1 \in 1..i
      BY <2>3, <3>1 DEF FoundUser
    <3> QED
      BY <1>1, <3>2
  <2>5. IsFiniteSet({n \in 1..i : Both(n)})
    BY <1>1, FS_Interval, FS_Subset
  <2>6. CASE Both(i + 1)
    <3>1. Shown(i, line) \in FoundUser /\ Shown(i, line).line = i
      BY <1>1 DEF Shown, FoundUser
    <3>2. found' = Append(found, Shown(i, line))
      BY <1>3, <2>6
    <3>3. /\ found' \in Seq(FoundUser)
          /\ Len(found') = Len(found) + 1 /\ found'[Len(found) + 1] = Shown(i, line)
          /\ \A k \in 1..Len(found) : found'[k] = found[k]
      <4> DEFINE e == Shown(i, line)
      <4>1. found \in Seq(FoundUser) /\ Len(found) \in Nat /\ e \in FoundUser /\ found' = Append(found, e)
        BY <2>3, <3>1, <3>2
      <4> HIDE DEF e
      <4>2. /\ found' \in Seq(FoundUser) /\ Len(found') = Len(found) + 1
            /\ found'[Len(found) + 1] = e
            /\ \A k \in 1..Len(found) : found'[k] = found[k]
        BY <4>1, AppendProperties
      <4> QED
        BY <4>2 DEF e
    <3>4. \A k \in 1..Len(found') : k \in 1..Len(found) \/ k = Len(found) + 1
      BY <2>3, <3>3
    <3>5. ASSUME NEW k \in 1..Len(found')
          PROVE  /\ found'[k].line + 1 \in 1..i' /\ Both(found'[k].line + 1)
                 /\ found'[k] = Shown(found'[k].line, Line(found'[k].line + 1))
      <4>1. CASE k \in 1..Len(found)
        BY <2>1, <2>3, <3>3, <4>1
      <4>2. CASE k = Len(found) + 1
        BY <1>1, <2>1, <2>6, <3>1, <3>3, <4>2
      <4> QED
        BY <3>4, <4>1, <4>2
    <3>6. ASSUME NEW j \in 1..Len(found'), NEW k \in 1..Len(found'), j < k
          PROVE  found'[j].line < found'[k].line
      <4>1. j \in 1..Len(found)
        BY <2>3, <3>3, <3>6
      <4>2. CASE k \in 1..Len(found)
        BY <2>3, <3>3, <3>6, <4>1, <4>2
      <4>3. CASE k = Len(found) + 1
        BY <2>4, <3>1, <3>3, <4>1, <4>3
      <4> QED
        BY <3>4, <4>2, <4>3
    <3>7. ASSUME NEW n \in 1..i', Both(n) PROVE \E k \in 1..Len(found') : found'[k].line = n - 1
      <4>1. CASE n \in 1..i
        <5>1. PICK k \in 1..Len(found) : found[k].line = n - 1
          BY <2>3, <3>7, <4>1
        <5>2. k \in 1..Len(found')
          BY <2>3, <3>3
        <5> QED
          BY <3>3, <5>1, <5>2
      <4>2. CASE n = i + 1
        <5>1. Len(found) + 1 \in 1..Len(found') /\ n - 1 = i
          BY <1>1, <2>3, <3>3, <4>2
        <5> QED
          BY <3>1, <3>3, <5>1
      <4> QED
        BY <2>1, <4>1, <4>2
    <3>8. Len(found') = Cardinality({n \in 1..i' : Both(n)})
      <4>1. {n \in 1..i' : Both(n)} = {n \in 1..i : Both(n)} \cup {i + 1}
        BY <2>1, <2>6
      <4>2. i + 1 \notin {n \in 1..i : Both(n)}
        BY <2>1
      <4>3. Cardinality({n \in 1..i : Both(n)} \cup {i + 1}) = Cardinality({n \in 1..i : Both(n)}) + 1
        BY <2>5, <4>2, FS_AddElement
      <4> QED
        BY <2>3, <3>3, <4>1, <4>3
    <3>9. SearchTypes'
      BY <1>1, <1>3, <3>3 DEF SearchIInv, SearchTypes
    <3>10. FoundSoFar'
      BY <2>1, <3>5, <3>6, <3>7, <3>8 DEF FoundSoFar
    <3> QED
      BY <2>2, <3>9, <3>10 DEF SearchIInv
  <2>7. CASE ~Both(i + 1)
    <3>1. found' = found
      BY <1>3, <2>7
    <3>2. {n \in 1..i' : Both(n)} = {n \in 1..i : Both(n)}
      BY <2>1, <2>7
    <3>3. \A k \in 1..Len(found) : found[k].line + 1 \in 1..i'
      BY <2>1, <2>3
    <3>4. \A n \in 1..i' : Both(n) => n \in 1..i
      BY <2>1, <2>7
    <3>5. SearchTypes'
      BY <1>1, <1>3, <3>1 DEF SearchIInv, SearchTypes
    <3>6. Len(found') = Cardinality({n \in 1..i' : Both(n)})
      BY <2>3, <3>1, <3>2
    <3>7. FoundSoFar'
      BY <2>1, <2>3, <3>1, <3>3, <3>4, <3>6 DEF FoundSoFar
    <3> QED
      BY <2>2, <3>5, <3>7 DEF SearchIInv
  <2> QED
    BY <2>6, <2>7
<1> QED
  BY <1>2, <1>3 DEF Scan, Line, Both

LEMMA NextSearchIInv == SearchIInv /\ [SearchNext]_searchVars => SearchIInv'
<1> SUFFICES ASSUME SearchIInv, [SearchNext]_searchVars PROVE SearchIInv'
  OBVIOUS
<1>1. CASE ScanEnds
  BY <1>1 DEF ScanEnds, SearchIInv, SearchTypes, SeenSoFar, FoundSoFar, Line, Both, Named
<1>2. CASE UNCHANGED searchVars
  BY <1>2 DEF searchVars, SearchIInv, SearchTypes, SeenSoFar, FoundSoFar, Line, Both, Named
<1> QED
  BY <1>1, <1>2, ScanKeeps DEF SearchNext

LEMMA BothAreSlow ==
  ASSUME NEW n \in 1..Len(file.lines)
  PROVE  /\ Both(n) => SlowHas(Line(n), "Android") /\ SlowHas(Line(n), "MSIE")
         /\ "Android MSIE" \notin Browsers(Line(n)) =>
              (SlowHas(Line(n), "Android") /\ SlowHas(Line(n), "MSIE") => Both(n))
         /\ SlowFound[n] # <<>> <=> SlowHas(Line(n), "Android") /\ SlowHas(Line(n), "MSIE")
         /\ SlowFound[n] # <<>> => SlowFound[n] = <<Shown(n - 1, Line(n))>>
<1>1. Both(n) => SlowHas(Line(n), "Android") /\ SlowHas(Line(n), "MSIE")
  BY DEF Both, AndroidsOf, MSIEsOf, SlowHas
<1>2. "Android MSIE" \notin Browsers(Line(n)) =>
        (SlowHas(Line(n), "Android") /\ SlowHas(Line(n), "MSIE") => Both(n))
  BY DEF Both, AndroidsOf, MSIEsOf, SlowHas, Names
<1>3. SlowFound[n] = IF SlowHas(Line(n), "Android") /\ SlowHas(Line(n), "MSIE")
                     THEN <<Shown(n - 1, Line(n))>> ELSE <<>>
  BY DEF SlowFound, Line
<1>4. <<Shown(n - 1, Line(n))>> # <<>>
  OBVIOUS
<1> QED
  BY <1>1, <1>2, <1>3, <1>4

LEMMA WhatTheSearchesShow == SearchIInv => SearchesAgree
<1> SUFFICES ASSUME SearchIInv, fast = "done" PROVE SearchesAgree
  BY DEF SearchesAgree, FastIsSlow, FastFindsNoMore
<1>6. /\ i = Len(file.lines) /\ Len(file.lines) \in Nat /\ Len(found) \in Nat /\ found \in Seq(FoundUser)
  BY LenProperties DEF SearchIInv, SearchTypes
<1>7. ASSUME NEW k \in 1..Len(found) PROVE found[k].line \in Nat
  <2>1. found[k] \in FoundUser
    BY <1>6, ElementOfSeq
  <2> QED
    BY <2>1 DEF FoundUser
<1>1. /\ i = Len(file.lines) /\ Len(file.lines) \in Nat /\ Len(found) \in Nat
      /\ seenBrowsers = UNION {Named(n) : n \in 1..i}
      /\ \A k \in 1..Len(found) :
           /\ found[k].line \in Nat /\ found[k].line + 1 \in 1..i /\ Both(found[k].line + 1)
           /\ found[k] = Shown(found[k].line, Line(found[k].line + 1))
      /\ \A j, k \in 1..Len(found) : j < k => found[j].line < found[k].line
      /\ \A n \in 1..i : Both(n) => \E k \in 1..Len(found) : found[k].line = n - 1
      /\ Len(found) = Cardinality({n \in 1..i : Both(n)})
  BY <1>6, <1>7 DEF SearchIInv, SeenSoFar, FoundSoFar
<1>2. Cardinality(seenBrowsers) = SlowCount
  <2>1. seenBrowsers = {b \in UNION {Browsers(file.lines[n]) : n \in 1..Len(file.lines)} :
                          Names(b, "Android") \/ Names(b, "MSIE")}
    BY <1>1 DEF Named, Line
  <2> QED
    BY <2>1, Zenon DEF SlowCount
<1>3. ASSUME NEW k \in 1..Len(found) PROVE SlowLists(found[k])
  <2> DEFINE n == found[k].line + 1
  <2>1. n \in 1..Len(file.lines) /\ Both(n) /\ found[k] = Shown(found[k].line, Line(n)) /\ n - 1 = found[k].line
    BY <1>1
  <2> HIDE DEF n
  <2>2. SlowFound[n] = <<Shown(n - 1, Line(n))>>
    BY <2>1, BothAreSlow
  <2> QED
    BY <2>1, <2>2 DEF SlowLists
<1>4. FastIsSlow
  <2> SUFFICES ASSUME Ordinary
               PROVE  /\ ~SlowPanics
                      /\ Len(found) = Cardinality({n \in 1..Len(file.lines) : SlowFound[n] # <<>>})
                      /\ \A k \in 1..Len(found) : k > 1 => found[k - 1].line < found[k].line
    BY <1>2, <1>3 DEF FastIsSlow
  <2>1. \A n \in 1..Len(file.lines) : /\ Line(n).odd = "nothing"
                                      /\ SlowFound[n] # <<>> <=> Both(n)
    BY BothAreSlow DEF Ordinary, Odd, Line
  <2>2. ~SlowPanics
    <3>1. ~file.newline /\ file.lines # <<>>
      BY DEF Ordinary
    <3>2. Len(file.lines) # 0
      BY <3>1, EmptySeq DEF SearchIInv, SearchTypes
    <3>3. ASSUME NEW n \in 1..Len(file.lines), SlowFound[n] # <<>> PROVE SlowFound[n][1].email
      <4>1. SlowFound[n] = <<Shown(n - 1, Line(n))>>
        BY <3>3, BothAreSlow
      <4>2. Shown(n - 1, Line(n)).email
        BY <2>1 DEF Shown
      <4> QED
        BY <4>1, <4>2
    <3> QED
      BY <3>1, <3>2, <3>3 DEF SlowPanics
  <2>3. {n \in 1..i : Both(n)} = {n \in 1..Len(file.lines) : SlowFound[n] # <<>>}
    BY <1>1, <2>1
  <2>4. \A k \in 1..Len(found) : k > 1 => found[k - 1].line < found[k].line
    <3>1. \A k \in 1..Len(found) : k > 1 => k - 1 \in 1..Len(found) /\ k - 1 < k
      BY <1>1
    <3> QED
      BY <1>1, <3>1
  <2> QED
    BY <1>1, <2>2, <2>3, <2>4
<1>5. FastFindsNoMore
  <2>1. ASSUME NEW n \in 1..Len(file.lines), SlowFound[n] # <<>>,
               \A k \in 1..Len(found) : found[k].line # n - 1
        PROVE  "Android MSIE" \in Browsers(file.lines[n])
    <3>1. ~Both(n)
      BY <1>1, <2>1
    <3> QED
      BY <2>1, <3>1, BothAreSlow DEF Line
  <2> QED
    BY <1>2, <1>3, <2>1 DEF FastFindsNoMore
<1> QED
  BY <1>4, <1>5 DEF SearchesAgree

(* FastSearch may stand for SlowSearch, on a users.txt of any length.      *)
THEOREM TheSearchesAgree == SearchSpec => []SearchesAgree
<1> QED
  BY InitSearchIInv, NextSearchIInv, WhatTheSearchesShow, PTL DEF SearchSpec

(***************************************************************************)
(* Goroutines: how the instructions run.                                   *)
(***************************************************************************)
Channels == DOMAIN Demos[demo].cap
GoTypes ==
  /\ demo \in DOMAIN Demos
  /\ gpc \in [Goroutines -> Nat]
  /\ chan \in [Channels -> [n : Nat, closed : BOOLEAN]]

(* What goroutine g does by an alternative of its instruction.             *)
Act(g, a) ==
  \/ Put(g, a) \/ Get(g, a) \/ Closes(g, a) \/ Pass(g, a) \/ Memory(g, a) \/ MapAccess(g, a)
  \/ \E h \in Goroutines \ {g} : \E b \in Alts(h) : Meet(g, a, h, b)

LEMMA NextIs ==
  ASSUME GoNext
  PROVE  /\ demo' = demo /\ ~Terminated("main")
         /\ \E g \in Goroutines : \E a \in Alts(g) : Act(g, a)
BY DEF GoNext, Run, Act

LEMMA AltIs ==
  ASSUME NEW op, NEW ch, NEW jump, NEW closed
  PROVE  /\ Alt(op, ch, jump, closed).op = op /\ Alt(op, ch, jump, closed).ch = ch
         /\ Alt(op, ch, jump, closed).jump = jump /\ Alt(op, ch, jump, closed).closed = closed
BY DEF Alt

Same == UNCHANGED <<counter, reg, inMap, raced>>

(* Only g moves, and only channel ch changes.                              *)
Moves(g, jump) ==
  /\ gpc' \in [Goroutines -> Nat] /\ gpc'[g] = gpc[g] + jump
  /\ \A h \in Goroutines \ {g} : gpc'[h] = gpc[h]
Becomes(ch, n, closed) ==
  /\ chan' \in [Channels -> [n : Nat, closed : BOOLEAN]]
  /\ chan'[ch].n = n /\ chan'[ch].closed = closed
  /\ \A d \in Channels \ {ch} : chan'[d] = chan[d]

LEMMA MovesIs ==
  ASSUME GoTypes, NEW g \in Goroutines, NEW jump \in Nat, gpc' = [gpc EXCEPT ![g] = @ + jump]
  PROVE  Moves(g, jump)
BY DEF GoTypes, Moves

LEMMA BecomesIs ==
  ASSUME GoTypes, NEW ch \in Channels
  PROVE  /\ chan' = [chan EXCEPT ![ch].n = @ + 1] => Becomes(ch, chan[ch].n + 1, chan[ch].closed)
         /\ chan[ch].n > 0 /\ chan' = [chan EXCEPT ![ch].n = @ - 1] => Becomes(ch, chan[ch].n - 1, chan[ch].closed)
         /\ chan' = [chan EXCEPT ![ch].closed = TRUE] => Becomes(ch, chan[ch].n, TRUE)
         /\ chan' = chan => Becomes(ch, chan[ch].n, chan[ch].closed)
<1>1. chan \in [Channels -> [n : Nat, closed : BOOLEAN]] /\ chan[ch] \in [n : Nat, closed : BOOLEAN]
  BY DEF GoTypes
<1>2. ASSUME NEW c \in [n : Nat, closed : BOOLEAN], chan' = [chan EXCEPT ![ch] = c]
      PROVE  Becomes(ch, c.n, c.closed)
  BY <1>1, <1>2 DEF Becomes
<1>3. /\ [chan[ch] EXCEPT !.n = @ + 1] \in [n : Nat, closed : BOOLEAN]
      /\ [chan[ch] EXCEPT !.n = @ + 1].n = chan[ch].n + 1
      /\ [chan[ch] EXCEPT !.n = @ + 1].closed = chan[ch].closed
  BY <1>1
<1>4. chan[ch].n > 0 =>
        /\ [chan[ch] EXCEPT !.n = @ - 1] \in [n : Nat, closed : BOOLEAN]
        /\ [chan[ch] EXCEPT !.n = @ - 1].n = chan[ch].n - 1
        /\ [chan[ch] EXCEPT !.n = @ - 1].closed = chan[ch].closed
  BY <1>1
<1>5. /\ [chan[ch] EXCEPT !.closed = TRUE] \in [n : Nat, closed : BOOLEAN]
      /\ [chan[ch] EXCEPT !.closed = TRUE].n = chan[ch].n
      /\ [chan[ch] EXCEPT !.closed = TRUE].closed = TRUE
  BY <1>1
<1>6. chan' = [chan EXCEPT ![ch].n = @ + 1] => Becomes(ch, chan[ch].n + 1, chan[ch].closed)
  <2> SUFFICES ASSUME chan' = [chan EXCEPT ![ch].n = @ + 1]
               PROVE  Becomes(ch, chan[ch].n + 1, chan[ch].closed)
    OBVIOUS
  <2>1. chan' = [chan EXCEPT ![ch] = [chan[ch] EXCEPT !.n = @ + 1]]
    OBVIOUS
  <2> QED
    BY <1>2, <1>3, <2>1
<1>7. chan[ch].n > 0 /\ chan' = [chan EXCEPT ![ch].n = @ - 1] => Becomes(ch, chan[ch].n - 1, chan[ch].closed)
  <2> SUFFICES ASSUME chan[ch].n > 0, chan' = [chan EXCEPT ![ch].n = @ - 1]
               PROVE  Becomes(ch, chan[ch].n - 1, chan[ch].closed)
    OBVIOUS
  <2>1. chan' = [chan EXCEPT ![ch] = [chan[ch] EXCEPT !.n = @ - 1]]
    OBVIOUS
  <2> QED
    BY <1>2, <1>4, <2>1
<1>8. chan' = [chan EXCEPT ![ch].closed = TRUE] => Becomes(ch, chan[ch].n, TRUE)
  <2> SUFFICES ASSUME chan' = [chan EXCEPT ![ch].closed = TRUE] PROVE Becomes(ch, chan[ch].n, TRUE)
    OBVIOUS
  <2>1. chan' = [chan EXCEPT ![ch] = [chan[ch] EXCEPT !.closed = TRUE]]
    OBVIOUS
  <2> QED
    BY <1>2, <1>5, <2>1
<1>9. chan' = chan => Becomes(ch, chan[ch].n, chan[ch].closed)
  BY <1>1 DEF Becomes
<1> QED
  BY <1>6, <1>7, <1>8, <1>9

(* An instruction on a channel with a buffer.                              *)
LEMMA Sends ==
  ASSUME GoTypes, NEW g \in Goroutines, NEW ch \in Channels, NEW jump \in Nat, NEW closed, NEW a,
         a = Alt("send", ch, jump, closed), Act(g, a), Cap(ch) # 0
  PROVE  chan[ch].n < Cap(ch) /\ Becomes(ch, chan[ch].n + 1, chan[ch].closed) /\ Moves(g, jump) /\ Same
<1>1. a.op = "send" /\ a.ch = ch /\ a.jump = jump
  BY AltIs
<1>2. /\ chan[ch].n < Cap(ch) /\ chan' = [chan EXCEPT ![ch].n = @ + 1]
      /\ gpc' = [gpc EXCEPT ![g] = @ + jump] /\ Same
  BY <1>1 DEF Act, Put, Get, Closes, Pass, Memory, MapAccess, Meet, Ready, Jump, Same
<1> QED
  BY <1>2, MovesIs, BecomesIs

LEMMA Receives ==
  ASSUME GoTypes, NEW g \in Goroutines, NEW ch \in Channels, NEW jump \in Nat, NEW closed \in Nat, NEW a,
         a = Alt("recv", ch, jump, closed), Act(g, a)
  PROVE  /\ \/ chan[ch].n > 0 /\ Becomes(ch, chan[ch].n - 1, chan[ch].closed) /\ Moves(g, jump)
            \/ /\ chan[ch].n = 0 /\ chan[ch].closed /\ Becomes(ch, chan[ch].n, chan[ch].closed)
               /\ Moves(g, closed)
         /\ Same
<1>1. a.op = "recv" /\ a.ch = ch /\ a.jump = jump /\ a.closed = closed
  BY AltIs
<1>2. /\ \/ /\ chan[ch].n > 0 /\ chan' = [chan EXCEPT ![ch].n = @ - 1]
            /\ gpc' = [gpc EXCEPT ![g] = @ + jump]
         \/ /\ chan[ch].n = 0 /\ chan[ch].closed /\ chan' = chan
            /\ gpc' = [gpc EXCEPT ![g] = @ + closed]
      /\ Same
  BY <1>1 DEF Act, Put, Get, Closes, Pass, Memory, MapAccess, Meet, Jump, Same
<1> QED
  BY <1>2, MovesIs, BecomesIs

LEMMA ClosesIt ==
  ASSUME GoTypes, NEW g \in Goroutines, NEW ch \in Channels, NEW jump \in Nat, NEW closed, NEW a,
         a = Alt("close", ch, jump, closed), Act(g, a)
  PROVE  Becomes(ch, chan[ch].n, TRUE) /\ Moves(g, jump) /\ Same
<1>1. a.op = "close" /\ a.ch = ch /\ a.jump = jump
  BY AltIs
<1>2. /\ chan' = [chan EXCEPT ![ch].closed = TRUE]
      /\ gpc' = [gpc EXCEPT ![g] = @ + jump] /\ Same
  BY <1>1 DEF Act, Put, Get, Closes, Pass, Memory, MapAccess, Meet, Jump, Same
<1> QED
  BY <1>2, MovesIs, BecomesIs

(* An instruction on none.                                                 *)
LEMMA Passes ==
  ASSUME GoTypes, NEW g \in Goroutines, NEW op \in {"time", "default"}, NEW ch, NEW jump \in Nat,
         NEW closed, NEW a, a = Alt(op, ch, jump, closed), Act(g, a)
  PROVE  Moves(g, jump) /\ chan' = chan /\ Same
<1>1. a.op \in {"time", "default"} /\ a.jump = jump
  BY AltIs
<1>2. gpc' = [gpc EXCEPT ![g] = @ + jump] /\ chan' = chan /\ Same
  BY <1>1 DEF Act, Put, Get, Closes, Pass, Memory, MapAccess, Meet, Jump, Same
<1> QED
  BY <1>2, MovesIs

LEMMA Counts ==
  ASSUME GoTypes, NEW g \in Goroutines, NEW op \in {"load", "store", "add"}, NEW ch, NEW jump \in Nat,
         NEW closed, NEW a, a = Alt(op, ch, jump, closed), Act(g, a)
  PROVE  /\ Moves(g, jump) /\ chan' = chan /\ inMap' = inMap /\ raced' = raced
         /\ op = "add" => counter' = counter + 1
<1>1. a.op = op /\ a.jump = jump
  BY AltIs
<1>2. /\ gpc' = [gpc EXCEPT ![g] = @ + jump] /\ chan' = chan /\ inMap' = inMap /\ raced' = raced
      /\ op = "add" => counter' = counter + 1
  BY <1>1 DEF Act, Put, Get, Closes, Pass, Memory, MapAccess, Meet, Jump
<1> QED
  BY <1>2, MovesIs

LEMMA Touches ==
  ASSUME GoTypes, NEW g \in Goroutines, NEW op \in {"enter", "leave"}, NEW ch, NEW jump \in Nat,
         NEW closed, NEW a, a = Alt(op, ch, jump, closed), Act(g, a)
  PROVE  /\ Moves(g, jump) /\ chan' = chan
         /\ op = "enter" => inMap' = inMap \cup {g} /\ (raced' <=> raced \/ inMap # {})
         /\ op = "leave" => inMap' = inMap \ {g} /\ raced' = raced
<1>1. a.op = op /\ a.jump = jump
  BY AltIs
<1>2. /\ gpc' = [gpc EXCEPT ![g] = @ + jump] /\ chan' = chan
      /\ op = "enter" => inMap' = inMap \cup {g} /\ raced' = (raced \/ inMap # {})
      /\ op = "leave" => inMap' = inMap \ {g} /\ raced' = raced
  BY <1>1 DEF Act, Put, Get, Closes, Pass, Memory, MapAccess, Meet, Jump
<1> QED
  BY <1>2, MovesIs

(* Two goroutines that meet on a channel without a buffer.                 *)
Met(g, jump, h, k) ==
  /\ gpc' \in [Goroutines -> Nat] /\ gpc'[g] = gpc[g] + jump /\ gpc'[h] = gpc[h] + k
  /\ \A d \in Goroutines \ {g, h} : gpc'[d] = gpc[d]
MeetsSomebody(g, ch, jump) ==
  \E h \in Goroutines \ {g} : \E b \in Alts(h) :
    b.op = "recv" /\ b.ch = ch /\ (b.jump \in Nat => Met(g, jump, h, b.jump))

LEMMA Meets ==
  ASSUME GoTypes, NEW g \in Goroutines, NEW ch \in Channels, NEW jump \in Nat, NEW closed, NEW a,
         a = Alt("send", ch, jump, closed), Act(g, a), Cap(ch) = 0
  PROVE  chan' = chan /\ Same /\ MeetsSomebody(g, ch, jump)
<1>1. a.op = "send" /\ a.ch = ch /\ a.jump = jump
  BY AltIs
<1>2. /\ chan' = chan /\ Same
      /\ \E h \in Goroutines \ {g} : \E b \in Alts(h) :
           /\ b.op = "recv" /\ b.ch = ch
           /\ gpc' = [gpc EXCEPT ![g] = @ + jump, ![h] = @ + b.jump]
  BY <1>1 DEF Act, Put, Get, Closes, Pass, Memory, MapAccess, Meet, Jump, Same
<1>3. PICK h \in Goroutines \ {g} : \E b \in Alts(h) :
           /\ b.op = "recv" /\ b.ch = ch
           /\ gpc' = [gpc EXCEPT ![g] = @ + jump, ![h] = @ + b.jump]
  BY <1>2
<1>4. PICK b \in Alts(h) : /\ b.op = "recv" /\ b.ch = ch
                           /\ gpc' = [gpc EXCEPT ![g] = @ + jump, ![h] = @ + b.jump]
  BY <1>3
<1>5. b.jump \in Nat => Met(g, jump, h, b.jump)
  BY <1>3, <1>4 DEF GoTypes, Met
<1> QED
  BY <1>2, <1>3, <1>4, <1>5 DEF MeetsSomebody

LEMMA TypesStay ==
  ASSUME GoTypes, demo' = demo, gpc' \in [Goroutines -> Nat],
         chan' = chan \/ \E ch \in Channels : \E n, closed : Becomes(ch, n, closed)
  PROVE  GoTypes'
BY DEF GoTypes, Becomes, Channels, Goroutines

(* Who can go on.                                                          *)
LEMMA AlwaysGoes ==
  ASSUME NEW g, NEW op \in {"time", "close", "load", "store", "add", "enter", "leave"},
         NEW ch, NEW jump, NEW closed, Alt(op, ch, jump, closed) \in Alts(g)
  PROVE  CanGo(g)
<1> DEFINE a == Alt(op, ch, jump, closed)
<1>1. a.op = op /\ a \in Alts(g)
  BY AltIs
<1> HIDE DEF a
<1> QED
  BY <1>1 DEF CanGo, Ready

LEMMA SendGoes ==
  ASSUME NEW g, NEW ch, NEW jump, NEW closed, Alt("send", ch, jump, closed) \in Alts(g),
         Cap(ch) # 0, chan[ch].n < Cap(ch)
  PROVE  CanGo(g)
<1> DEFINE a == Alt("send", ch, jump, closed)
<1>1. a.op = "send" /\ a.ch = ch /\ a \in Alts(g)
  BY AltIs
<1> HIDE DEF a
<1> QED
  BY <1>1 DEF CanGo, Ready

LEMMA RecvGoes ==
  ASSUME NEW g, NEW ch, NEW jump, NEW closed, Alt("recv", ch, jump, closed) \in Alts(g),
         chan[ch].n > 0 \/ chan[ch].closed
  PROVE  CanGo(g)
<1> DEFINE a == Alt("recv", ch, jump, closed)
<1>1. a.op = "recv" /\ a.ch = ch /\ a \in Alts(g)
  BY AltIs
<1> HIDE DEF a
<1> QED
  BY <1>1 DEF CanGo, Ready

LEMMA MeetGoes ==
  ASSUME NEW g \in Goroutines, NEW h \in Goroutines \ {g}, NEW ch, Cap(ch) = 0,
         NEW j, NEW c, Alt("send", ch, j, c) \in Alts(g),
         NEW k, NEW d, Alt("recv", ch, k, d) \in Alts(h)
  PROVE  CanGo(g) /\ CanGo(h)
<1> DEFINE a == Alt("send", ch, j, c)
           b == Alt("recv", ch, k, d)
<1>1. a.op = "send" /\ a.ch = ch /\ a \in Alts(g) /\ b.op = "recv" /\ b.ch = ch /\ b \in Alts(h)
  BY AltIs
<1> HIDE DEF a, b
<1>2. h \in Partner(g, a) /\ g \in Partner(h, b)
  BY <1>1 DEF Partner
<1> QED
  BY <1>1, <1>2 DEF CanGo, Ready

(* Somebody can go on as long as main has not ended, and then those whom   *)
(* main leaves behind.                                                     *)
SomebodyGoes ==
  Terminated("main") \/ \E g \in Goroutines : CanGo(g) \/ \E a \in Alts(g) : a.op = "default"
TheOthersGo ==
  Terminated("main") =>
    \A g \in Goroutines \ {"main"} :
      Terminated(g) \/ \E h \in Goroutines \ {"main"} : CanGo(h)

LEMMA CanGoIsIn ==
  ASSUME NEW g, CanGo(g) \/ (\E a \in Alts(g) : a.op = "default")
  PROVE  ~Terminated(g) /\ ~Blocked(g)
BY DEF CanGo, Alts, Blocked

LEMMA GoingOn ==
  /\ SomebodyGoes => OnlySelect1Deadlocks
  /\ TheOthersGo => LateWorkersOnly
<1>1. SomebodyGoes => OnlySelect1Deadlocks
  BY CanGoIsIn DEF SomebodyGoes, OnlySelect1Deadlocks
<1>2. TheOthersGo => LateWorkersOnly
  BY CanGoIsIn DEF TheOthersGo, LateWorkersOnly
<1> QED
  BY <1>1, <1>2

(***************************************************************************)
(* How the programs are read.                                              *)
(***************************************************************************)
LEMMA DemoIs ==
  /\ Demos["chan_1"] = chan_1 /\ Demos["chan_2"] = chan_2 /\ Demos["select_1"] = select_1
  /\ Demos["select_2"] = select_2 /\ Demos["select_3"] = select_3 /\ Demos["wait_1"] = wait_1
  /\ Demos["wait_2"] = wait_2 /\ Demos["waitgroup"] = waitgroup /\ Demos["async_work"] = async_work
  /\ Demos["timeout"] = timeout /\ Demos["context_cancel"] = context_cancel
  /\ Demos["context_timeout"] = context_timeout /\ Demos["workerpool"] = workerpool
  /\ Demos["race_1"] = race_1 /\ Demos["race_2"] = race_2 /\ Demos["race_3"] = race_3
  /\ Demos["atomic_1"] = atomic_1 /\ Demos["atomic_2"] = atomic_2
BY DEF Demos

(* The code of main and of each of the others.                             *)
LEMMA CodeIs ==
  ASSUME NEW main, NEW others, Demos[demo].code = With(main, others)
  PROVE  /\ Goroutines = {"main"} \cup DOMAIN others
         /\ Code("main") = main
         /\ \A h \in DOMAIN others \ {"main"} : Code(h) = others[h]
BY DEF With, Goroutines, Code

LEMMA OneIs == ASSUME NEW c PROVE DOMAIN [g |-> c] = {"g"} /\ [g |-> c]["g"] = c
OBVIOUS

LEMMA InstructionIs ==
  ASSUME NEW h, gpc[h] \in Nat, NEW n \in Nat, Len(Code(h)) = n
  PROVE  /\ Terminated(h) <=> gpc[h] > n
         /\ gpc[h] <= n => Alts(h) = Code(h)[gpc[h]]
         /\ gpc[h] > n => Alts(h) = {}
BY DEF Terminated, Alts

LEMMA TwoAre ==
  ASSUME NEW main, NEW g, Demos[demo].code = With(main, [g |-> g])
  PROVE  Goroutines = {"main", "g"} /\ Code("main") = main /\ Code("g") = g
<1> DEFINE others == [g |-> g]
<1>1. DOMAIN others = {"g"} /\ others["g"] = g
  BY OneIs
<1>2. Demos[demo].code = With(main, others)
  OBVIOUS
<1> HIDE DEF others
<1>3. /\ Goroutines = {"main"} \cup {"g"} /\ Code("main") = main
      /\ \A h \in {"g"} \ {"main"} : Code(h) = others[h]
  BY <1>1, <1>2, CodeIs
<1> QED
  BY <1>1, <1>3

LEMMA EachIs ==
  ASSUME NEW main, NEW code, Demos[demo].code = With(main, Each(code))
  PROVE  Goroutines = {"main"} \cup Gophers /\ Code("main") = main /\ \A h \in Gophers : Code(h) = code
<1>1. DOMAIN Each(code) = Gophers /\ \A h \in Gophers : Each(code)[h] = code
  BY DEF Each
<1> QED
  BY <1>1, CodeIs, GoroutinesAssumption

(* A loop is its body, over and over; something may come before or after.  *)
LEMMA RepeatIs ==
  ASSUME NEW n \in Nat, NEW S, NEW x \in S
  PROVE  /\ Times(n, <<x>>) \in Seq(S) /\ Len(Times(n, <<x>>)) = n
         /\ \A k \in 1 .. n : Times(n, <<x>>)[k] = x
<1> DEFINE one == <<x>>
<1>1. Len(one) = 1 /\ one[1] = x
  OBVIOUS
<1> HIDE DEF one
<1>2. Times(n, one) = [k \in 1 .. n |-> one[((k - 1) % 1) + 1]]
  BY <1>1 DEF Times
<1>3. \A k \in 1 .. n : (k - 1) % 1 = 0
  OBVIOUS
<1>4. Times(n, one) = [k \in 1 .. n |-> x]
  BY <1>1, <1>2, <1>3
<1>5. /\ Times(n, one) \in Seq(S) /\ Len(Times(n, one)) = n
      /\ \A k \in 1 .. n : Times(n, one)[k] = x
  BY <1>4
<1> QED
  BY <1>5 DEF one

LoopThen(s, n, x, y) == Len(s) = n + 1 /\ (\A k \in 1 .. n : s[k] = x) /\ s[n + 1] = y
LEMMA RepeatThenIs ==
  ASSUME NEW n \in Nat, NEW x, NEW y
  PROVE  LoopThen(Times(n, <<x>>) \o <<y>>, n, x, y)
<1> DEFINE S == {x, y}
           t == Times(n, <<x>>)
           u == <<y>>
<1>1. t \in Seq(S) /\ Len(t) = n /\ \A k \in 1 .. n : t[k] = x
  BY RepeatIs, x \in S
<1>2. u \in Seq(S) /\ Len(u) = 1 /\ u[1] = y
  OBVIOUS
<1> HIDE DEF S, t, u
<1>3. /\ Len(t \o u) = Len(t) + Len(u)
      /\ \A k \in 1 .. Len(t) + Len(u) : (t \o u)[k] = IF k <= Len(t) THEN t[k] ELSE u[k - Len(t)]
  BY <1>1, <1>2, ConcatProperties
<1>4. Len(t \o u) = n + 1 /\ (\A k \in 1 .. n : (t \o u)[k] = x) /\ (t \o u)[n + 1] = y
  BY <1>1, <1>2, <1>3
<1> QED
  BY <1>4 DEF t, u, LoopThen

LoopThenTwo(s, n, x, y, z) ==
  Len(s) = n + 2 /\ (\A k \in 1 .. n : s[k] = x) /\ s[n + 1] = y /\ s[n + 2] = z
LEMMA RepeatThenTwoIs ==
  ASSUME NEW n \in Nat, NEW x, NEW y, NEW z
  PROVE  LoopThenTwo(Times(n, <<x>>) \o <<y, z>>, n, x, y, z)
<1> DEFINE S == {x, y, z}
           t == Times(n, <<x>>)
           u == <<y, z>>
<1>1. t \in Seq(S) /\ Len(t) = n /\ \A k \in 1 .. n : t[k] = x
  BY RepeatIs, x \in S
<1>2. u \in Seq(S) /\ Len(u) = 2 /\ u[1] = y /\ u[2] = z
  OBVIOUS
<1> HIDE DEF S, t, u
<1>3. /\ Len(t \o u) = Len(t) + Len(u)
      /\ \A k \in 1 .. Len(t) + Len(u) : (t \o u)[k] = IF k <= Len(t) THEN t[k] ELSE u[k - Len(t)]
  BY <1>1, <1>2, ConcatProperties
<1>4. /\ Len(t \o u) = n + 2 /\ (\A k \in 1 .. n : (t \o u)[k] = x)
      /\ (t \o u)[n + 1] = y /\ (t \o u)[n + 2] = z
  BY <1>1, <1>2, <1>3
<1> QED
  BY <1>4 DEF t, u, LoopThenTwo

LEMMA AfterIs ==
  ASSUME NEW S, NEW y \in S, NEW s \in Seq(S)
  PROVE  /\ Len(<<y>> \o s) = Len(s) + 1 /\ (<<y>> \o s)[1] = y
         /\ \A k \in 1 .. Len(s) : (<<y>> \o s)[k + 1] = s[k]
<1> DEFINE t == <<y>>
<1>1. t \in Seq(S) /\ Len(t) = 1 /\ t[1] = y /\ Len(s) \in Nat
  OBVIOUS
<1> HIDE DEF t
<1>2. /\ Len(t \o s) = Len(t) + Len(s)
      /\ \A k \in 1 .. Len(t) + Len(s) : (t \o s)[k] = IF k <= Len(t) THEN t[k] ELSE s[k - Len(t)]
  BY <1>1, ConcatProperties
<1>3. /\ Len(t \o s) = Len(s) + 1 /\ (t \o s)[1] = y
      /\ \A k \in 1 .. Len(s) : (t \o s)[k + 1] = s[k]
  BY <1>1, <1>2
<1> QED
  BY <1>3 DEF t

LoopAfter(s, n, x, y) == Len(s) = n + 1 /\ s[1] = y /\ \A k \in 2 .. n + 1 : s[k] = x
LEMMA RepeatAfterIs ==
  ASSUME NEW n \in Nat, NEW x, NEW y
  PROVE  LoopAfter(<<y>> \o Times(n, <<x>>), n, x, y)
<1> DEFINE S == {x, y}
           t == Times(n, <<x>>)
<1>1. t \in Seq(S) /\ Len(t) = n /\ \A k \in 1 .. n : t[k] = x
  BY RepeatIs, x \in S
<1>2. y \in S
  OBVIOUS
<1> HIDE DEF S, t
<1>3. /\ Len(<<y>> \o t) = n + 1 /\ (<<y>> \o t)[1] = y
      /\ \A k \in 1 .. n : (<<y>> \o t)[k + 1] = t[k]
  BY <1>1, <1>2, AfterIs
<1>4. \A k \in 2 .. n + 1 : k - 1 \in 1 .. n /\ (k - 1) + 1 = k
  OBVIOUS
<1>5. \A k \in 2 .. n + 1 : (<<y>> \o t)[k] = x
  BY <1>1, <1>3, <1>4
<1> QED
  BY <1>3, <1>5 DEF t, LoopAfter

(* A program of main alone.                                                *)
LEMMA OnlyMain ==
  ASSUME NEW code, Demos[demo].code = Main(code)
  PROVE  Goroutines = {"main"} /\ Code("main") = code
BY DEF Main, Goroutines, Code

(***************************************************************************)
(* chan_1                                                                  *)
(***************************************************************************)
chan_1OK ==
  LET m == gpc["main"]
      g == gpc["g"]
      c == chan["ch1"]
  IN  /\ m \in 1..4 /\ g \in 1..2 /\ c.n \in 0..1 /\ ~c.closed /\ ~raced
      /\ c.n + g = IF m < 3 THEN m ELSE 3

LEMMA chan_1Code ==
  ASSUME GoTypes, demo = "chan_1"
  PROVE  /\ Goroutines = {"main", "g"} /\ Channels = {"ch1"} /\ Cap("ch1") = 1
         /\ Terminated("main") <=> gpc["main"] > 3
         /\ Terminated("g") <=> gpc["g"] > 1
         /\ gpc["main"] \in {1, 2} => Alts("main") = {Alt("send", "ch1", 1, 0)}
         /\ gpc["main"] = 3 => Alts("main") = {Alt("time", "none", 1, 0)}
         /\ gpc["g"] = 1 => Alts("g") = {Alt("recv", "ch1", 1, 1)}
<1> DEFINE main == <<Send("ch1"), Send("ch1"), Time>>
           g == <<Recv("ch1")>>
           others == [g |-> g]
<1>1. Demos[demo].cap = [ch1 |-> 1] /\ Demos[demo].code = With(main, others)
  BY DemoIs DEF chan_1
<1>2. Channels = {"ch1"} /\ Cap("ch1") = 1
  BY <1>1 DEF Channels, Cap
<1>3. DOMAIN others = {"g"} /\ others["g"] = g
  BY OneIs
<1>4. /\ Len(main) = 3 /\ main[1] = Send("ch1") /\ main[2] = Send("ch1") /\ main[3] = Time
      /\ Len(g) = 1 /\ g[1] = Recv("ch1")
  OBVIOUS
<1> HIDE DEF main, g, others
<1>5. /\ Goroutines = {"main"} \cup {"g"} /\ Code("main") = main
      /\ \A h \in {"g"} \ {"main"} : Code(h) = others[h]
  BY <1>1, <1>3, CodeIs
<1>6. Goroutines = {"main", "g"} /\ Code("main") = main /\ Code("g") = g
  BY <1>3, <1>5
<1>7. gpc["main"] \in Nat /\ gpc["g"] \in Nat
  BY <1>6 DEF GoTypes
<1>8. /\ Terminated("main") <=> gpc["main"] > 3
      /\ gpc["main"] <= 3 => Alts("main") = main[gpc["main"]]
  BY <1>4, <1>6, <1>7, InstructionIs
<1>9. /\ Terminated("g") <=> gpc["g"] > 1
      /\ gpc["g"] <= 1 => Alts("g") = g[gpc["g"]]
  BY <1>4, <1>6, <1>7, InstructionIs
<1> QED
  BY <1>2, <1>4, <1>6, <1>8, <1>9 DEF Send, Recv, Time

LEMMA chan_1Steps ==
  ASSUME GoTypes, demo = "chan_1", chan_1OK, GoNext
  PROVE  GoTypes' /\ chan_1OK'
<1>1. /\ Goroutines = {"main", "g"} /\ Channels = {"ch1"} /\ Cap("ch1") = 1 /\ demo' = demo
  BY chan_1Code, NextIs
<1>2. PICK g \in {"main", "g"} : \E a \in Alts(g) : Act(g, a)
  BY <1>1, NextIs
<1>3. PICK a \in Alts(g) : Act(g, a)
  BY <1>2
<1>4. CASE g = "main" /\ gpc["main"] \in {1, 2}
  <2>1. a = Alt("send", "ch1", 1, 0)
    BY <1>3, <1>4, chan_1Code
  <2>2. chan["ch1"].n < 1 /\ Becomes("ch1", chan["ch1"].n + 1, chan["ch1"].closed) /\ Moves("main", 1) /\ Same
    BY <1>1, <1>3, <1>4, <2>1, Sends
  <2> QED
    BY <1>1, <1>4, <2>2, TypesStay DEF chan_1OK, Same, Moves, Becomes
<1>5. CASE g = "main" /\ gpc["main"] = 3
  <2>1. a = Alt("time", "none", 1, 0)
    BY <1>3, <1>5, chan_1Code
  <2>2. Moves("main", 1) /\ chan' = chan /\ Same
    BY <1>1, <1>3, <1>5, <2>1, Passes
  <2> QED
    BY <1>1, <1>5, <2>2, TypesStay DEF chan_1OK, Same, Moves
<1>6. CASE g = "g" /\ gpc["g"] = 1
  <2>1. a = Alt("recv", "ch1", 1, 1)
    BY <1>3, <1>6, chan_1Code
  <2>2. chan["ch1"].n > 0 /\ Becomes("ch1", chan["ch1"].n - 1, chan["ch1"].closed) /\ Moves("g", 1) /\ Same
    BY <1>1, <1>3, <1>6, <2>1, Receives DEF chan_1OK
  <2> QED
    BY <1>1, <1>6, <2>2, TypesStay DEF chan_1OK, Same, Moves, Becomes
<1>7. \/ g = "main" /\ gpc["main"] \in {1, 2, 3}
      \/ g = "g" /\ gpc["g"] = 1
  BY <1>3, chan_1Code DEF Alts, chan_1OK
<1> QED
  BY <1>4, <1>5, <1>6, <1>7

LEMMA chan_1Goes ==
  ASSUME GoTypes, demo = "chan_1", chan_1OK
  PROVE  SomebodyGoes /\ TheOthersGo
<1>1. CASE gpc["main"] = 1 \/ (gpc["main"] = 2 /\ chan["ch1"].n = 0)
  <2>1. CanGo("main")
    BY <1>1, SendGoes, chan_1Code DEF chan_1OK
  <2> QED
    BY <1>1, <2>1, chan_1Code DEF SomebodyGoes, TheOthersGo
<1>2. CASE gpc["main"] = 2 /\ chan["ch1"].n = 1
  <2>1. CanGo("g")
    BY <1>2, RecvGoes, chan_1Code DEF chan_1OK
  <2> QED
    BY <1>2, <2>1, chan_1Code DEF SomebodyGoes, TheOthersGo
<1>3. CASE gpc["main"] = 3
  <2>1. CanGo("main")
    BY <1>3, AlwaysGoes, chan_1Code
  <2> QED
    BY <1>3, <2>1, chan_1Code DEF SomebodyGoes, TheOthersGo
<1>4. CASE gpc["main"] = 4
  BY <1>4, chan_1Code DEF SomebodyGoes, TheOthersGo, chan_1OK
<1> QED
  BY <1>1, <1>2, <1>3, <1>4 DEF chan_1OK

(***************************************************************************)
(* chan_2                                                                  *)
(***************************************************************************)
chan_2OK ==
  LET m == gpc["main"]
      g == gpc["g"]
  IN  /\ m \in 1..2 /\ g \in 1 .. Rounds + 2 /\ chan["in"].n = 0 /\ ~raced
      /\ chan["in"].closed <=> g = Rounds + 2
      /\ m = 2 => g = Rounds + 2

LEMMA chan_2Code ==
  ASSUME GoTypes, demo = "chan_2"
  PROVE  /\ Goroutines = {"main", "g"} /\ Channels = {"in"} /\ Cap("in") = 0
         /\ Terminated("main") <=> gpc["main"] > 1
         /\ Terminated("g") <=> gpc["g"] > Rounds + 1
         /\ gpc["main"] = 1 => Alts("main") = {Alt("recv", "in", 0, 1)}
         /\ gpc["g"] \in 1 .. Rounds => Alts("g") = {Alt("send", "in", 1, 0)}
         /\ gpc["g"] = Rounds + 1 => Alts("g") = {Alt("close", "in", 1, 0)}
<1> DEFINE main == <<RangeOver("in")>>
           g == Times(Rounds, <<Send("in")>>) \o <<Close("in")>>
<1>1. Demos[demo].cap = [in |-> 0] /\ Demos[demo].code = With(main, [g |-> g])
  BY DemoIs DEF chan_2
<1>2. Channels = {"in"} /\ Cap("in") = 0
  BY <1>1 DEF Channels, Cap
<1>3. Len(main) = 1 /\ main[1] = RangeOver("in")
  OBVIOUS
<1>4. /\ Rounds \in Nat /\ Len(g) = Rounds + 1
      /\ \A k \in 1 .. Rounds : g[k] = Send("in")
      /\ g[Rounds + 1] = Close("in")
  BY RepeatThenIs, GoroutinesAssumption DEF LoopThen
<1> HIDE DEF main, g
<1>5. Goroutines = {"main", "g"} /\ Code("main") = main /\ Code("g") = g
  BY <1>1, TwoAre
<1>6. gpc["main"] \in Nat /\ gpc["g"] \in Nat
  BY <1>5 DEF GoTypes
<1>7. /\ Terminated("main") <=> gpc["main"] > 1
      /\ gpc["main"] <= 1 => Alts("main") = main[gpc["main"]]
  BY <1>3, <1>5, <1>6, InstructionIs
<1>8. /\ Terminated("g") <=> gpc["g"] > Rounds + 1
      /\ gpc["g"] <= Rounds + 1 => Alts("g") = g[gpc["g"]]
  BY <1>4, <1>5, <1>6, InstructionIs
<1> QED
  BY <1>2, <1>3, <1>4, <1>5, <1>7, <1>8 DEF Send, RangeOver, Close

LEMMA chan_2Steps ==
  ASSUME GoTypes, demo = "chan_2", chan_2OK, GoNext
  PROVE  GoTypes' /\ chan_2OK'
<1>1. /\ Goroutines = {"main", "g"} /\ Channels = {"in"} /\ Cap("in") = 0 /\ demo' = demo
      /\ Rounds \in Nat
  BY chan_2Code, NextIs, GoroutinesAssumption
<1>2. PICK g \in {"main", "g"} : \E a \in Alts(g) : Act(g, a)
  BY <1>1, NextIs
<1>3. PICK a \in Alts(g) : Act(g, a)
  BY <1>2
<1>4. CASE g = "main" /\ gpc["main"] = 1
  <2>1. a = Alt("recv", "in", 0, 1)
    BY <1>3, <1>4, chan_2Code
  <2>2. chan["in"].closed /\ Becomes("in", 0, chan["in"].closed) /\ Moves("main", 1) /\ Same
    BY <1>1, <1>3, <1>4, <2>1, Receives DEF chan_2OK
  <2> QED
    BY <1>1, <1>4, <2>2, TypesStay DEF chan_2OK, Same, Moves, Becomes
<1>5. CASE g = "g" /\ gpc["g"] \in 1 .. Rounds
  <2>1. a = Alt("send", "in", 1, 0) /\ Alts("main") = {Alt("recv", "in", 0, 1)}
    BY <1>3, <1>5, chan_2Code, NextIs DEF chan_2OK
  <2>2. chan' = chan /\ Same /\ MeetsSomebody("g", "in", 1)
    BY <1>1, <1>3, <1>5, <2>1, Meets
  <2>3. Met("g", 1, "main", 0)
    BY <1>1, <2>1, <2>2, AltIs DEF MeetsSomebody
  <2> QED
    BY <1>1, <1>5, <2>2, <2>3, TypesStay DEF chan_2OK, Same, Met
<1>6. CASE g = "g" /\ gpc["g"] = Rounds + 1
  <2>1. a = Alt("close", "in", 1, 0)
    BY <1>3, <1>6, chan_2Code
  <2>2. Becomes("in", 0, TRUE) /\ Moves("g", 1) /\ Same
    BY <1>1, <1>3, <1>6, <2>1, ClosesIt DEF chan_2OK
  <2> QED
    BY <1>1, <1>6, <2>2, TypesStay DEF chan_2OK, Same, Moves, Becomes
<1>7. \/ g = "main" /\ gpc["main"] = 1
      \/ g = "g" /\ gpc["g"] \in 1 .. Rounds + 1
  BY <1>1, <1>3, chan_2Code DEF Alts, chan_2OK
<1> QED
  BY <1>1, <1>4, <1>5, <1>6, <1>7

LEMMA chan_2Goes ==
  ASSUME GoTypes, demo = "chan_2", chan_2OK
  PROVE  SomebodyGoes /\ TheOthersGo
<1>1. Rounds \in Nat /\ Goroutines = {"main", "g"} /\ Cap("in") = 0
  BY GoroutinesAssumption, chan_2Code
<1>2. CASE gpc["main"] = 2
  BY <1>1, <1>2, chan_2Code DEF SomebodyGoes, TheOthersGo, chan_2OK
<1>3. CASE gpc["main"] = 1
  <2>1. CASE gpc["g"] = Rounds + 2
    BY <1>1, <1>3, <2>1, RecvGoes, chan_2Code DEF SomebodyGoes, TheOthersGo, chan_2OK
  <2>2. CASE gpc["g"] = Rounds + 1
    BY <1>1, <1>3, <2>2, AlwaysGoes, chan_2Code DEF SomebodyGoes, TheOthersGo, chan_2OK
  <2>3. CASE gpc["g"] \in 1 .. Rounds
    <3>1. CanGo("g")
      BY <1>1, <1>3, <2>3, MeetGoes, chan_2Code
    <3> QED
      BY <1>1, <1>3, <3>1, chan_2Code DEF SomebodyGoes, TheOthersGo
  <2> QED
    BY <1>1, <2>1, <2>2, <2>3 DEF chan_2OK
<1> QED
  BY <1>2, <1>3 DEF chan_2OK

(***************************************************************************)
(* select_1                                                                *)
(***************************************************************************)
select_1OK ==
  /\ gpc["main"] = 1 /\ ~raced
  /\ chan["ch1"].n = 0 /\ ~chan["ch1"].closed

LEMMA select_1Code ==
  ASSUME GoTypes, demo = "select_1"
  PROVE  /\ Goroutines = {"main"} /\ Channels = {"ch1", "ch2"} /\ Cap("ch1") = 1 /\ Cap("ch2") = 0
         /\ gpc["main"] = 1 => Alts("main") = {Alt("recv", "ch1", 1, 1), Alt("send", "ch2", 1, 0)}
<1> DEFINE main == <<Recv("ch1") \cup Send("ch2")>>
<1>1. Demos[demo].cap = [ch1 |-> 1, ch2 |-> 0] /\ Demos[demo].code = Main(main)
  BY DemoIs DEF select_1
<1>2. Channels = {"ch1", "ch2"} /\ Cap("ch1") = 1 /\ Cap("ch2") = 0
  BY <1>1 DEF Channels, Cap
<1>3. Len(main) = 1 /\ main[1] = Recv("ch1") \cup Send("ch2")
  OBVIOUS
<1> HIDE DEF main
<1>4. Goroutines = {"main"} /\ Code("main") = main
  BY <1>1, OnlyMain
<1>5. gpc["main"] \in Nat
  BY <1>4 DEF GoTypes
<1>6. gpc["main"] <= 1 => Alts("main") = main[gpc["main"]]
  BY <1>3, <1>4, <1>5, InstructionIs
<1> QED
  BY <1>2, <1>3, <1>4, <1>6 DEF Send, Recv

(* It has no step.                                                         *)
LEMMA select_1Steps ==
  ASSUME GoTypes, demo = "select_1", select_1OK, GoNext
  PROVE  FALSE
<1>1. /\ Goroutines = {"main"} /\ Channels = {"ch1", "ch2"} /\ Cap("ch2") = 0
      /\ Alts("main") = {Alt("recv", "ch1", 1, 1), Alt("send", "ch2", 1, 0)}
  BY select_1Code DEF select_1OK
<1>2. PICK a \in Alts("main") : Act("main", a)
  BY <1>1, NextIs
<1>3. CASE a = Alt("recv", "ch1", 1, 1)
  BY <1>1, <1>2, <1>3, Receives DEF select_1OK
<1>4. CASE a = Alt("send", "ch2", 1, 0)
  BY <1>1, <1>2, <1>4, Meets DEF MeetsSomebody
<1> QED
  BY <1>1, <1>2, <1>3, <1>4

(***************************************************************************)
(* select_2                                                                *)
(***************************************************************************)
select_2OK ==
  LET m == gpc["main"]
      c == chan["ch1"]
      d == chan["ch2"]
  IN  /\ m \in 1..5 /\ ~c.closed /\ ~d.closed /\ ~raced
      /\ m \in 1..3 => c.n = m - 1 /\ d.n = 0

LEMMA select_2Code ==
  ASSUME GoTypes, demo = "select_2"
  PROVE  /\ Goroutines = {"main"} /\ Channels = {"ch1", "ch2"} /\ Cap("ch1") = 2 /\ Cap("ch2") = 2
         /\ Terminated("main") <=> gpc["main"] > 4
         /\ gpc["main"] \in {1, 2} => Alts("main") = {Alt("send", "ch1", 1, 0)}
         /\ gpc["main"] = 3 => Alts("main") = {Alt("send", "ch2", 1, 0)}
         /\ gpc["main"] = 4 => Alts("main") = {Alt("recv", "ch1", 0, 1), Alt("recv", "ch2", 0, 1),
                                                Alt("default", "none", 1, 0)}
<1> DEFINE main == <<Send("ch1"), Send("ch1"), Send("ch2"),
                     RangeOver("ch1") \cup RangeOver("ch2") \cup Op("default")>>
<1>1. Demos[demo].cap = [ch1 |-> 2, ch2 |-> 2] /\ Demos[demo].code = Main(main)
  BY DemoIs DEF select_2
<1>2. Channels = {"ch1", "ch2"} /\ Cap("ch1") = 2 /\ Cap("ch2") = 2
  BY <1>1 DEF Channels, Cap
<1>3. /\ Len(main) = 4 /\ main[1] = Send("ch1") /\ main[2] = Send("ch1") /\ main[3] = Send("ch2")
      /\ main[4] = RangeOver("ch1") \cup RangeOver("ch2") \cup Op("default")
  OBVIOUS
<1> HIDE DEF main
<1>4. Goroutines = {"main"} /\ Code("main") = main
  BY <1>1, OnlyMain
<1>5. /\ Terminated("main") <=> gpc["main"] > 4
      /\ gpc["main"] <= 4 => Alts("main") = main[gpc["main"]]
  BY <1>3, <1>4, InstructionIs DEF GoTypes
<1> QED
  BY <1>2, <1>3, <1>4, <1>5 DEF Send, RangeOver, Op

LEMMA select_2Steps ==
  ASSUME GoTypes, demo = "select_2", select_2OK, GoNext
  PROVE  GoTypes' /\ select_2OK'
<1>1. /\ Goroutines = {"main"} /\ Channels = {"ch1", "ch2"} /\ Cap("ch1") = 2 /\ Cap("ch2") = 2
      /\ demo' = demo
  BY select_2Code, NextIs
<1>2. PICK a \in Alts("main") : Act("main", a)
  BY <1>1, NextIs
<1>3. CASE gpc["main"] \in {1, 2}
  <2>1. a = Alt("send", "ch1", 1, 0)
    BY <1>2, <1>3, select_2Code
  <2>2. Becomes("ch1", chan["ch1"].n + 1, chan["ch1"].closed) /\ Moves("main", 1) /\ Same
    BY <1>1, <1>2, <2>1, Sends
  <2> QED
    BY <1>1, <1>3, <2>2, TypesStay DEF select_2OK, Same, Moves, Becomes
<1>4. CASE gpc["main"] = 3
  <2>1. a = Alt("send", "ch2", 1, 0)
    BY <1>2, <1>4, select_2Code
  <2>2. Becomes("ch2", chan["ch2"].n + 1, chan["ch2"].closed) /\ Moves("main", 1) /\ Same
    BY <1>1, <1>2, <2>1, Sends
  <2> QED
    BY <1>1, <1>4, <2>2, TypesStay DEF select_2OK, Same, Moves, Becomes
<1>5. CASE gpc["main"] = 4
  <2>1. CASE a = Alt("recv", "ch1", 0, 1)
    <3>1. Becomes("ch1", chan["ch1"].n - 1, chan["ch1"].closed) /\ Moves("main", 0) /\ Same
      BY <1>1, <1>2, <2>1, Receives DEF select_2OK
    <3> QED
      BY <1>1, <1>5, <3>1, TypesStay DEF select_2OK, Same, Moves, Becomes
  <2>2. CASE a = Alt("recv", "ch2", 0, 1)
    <3>1. Becomes("ch2", chan["ch2"].n - 1, chan["ch2"].closed) /\ Moves("main", 0) /\ Same
      BY <1>1, <1>2, <2>2, Receives DEF select_2OK
    <3> QED
      BY <1>1, <1>5, <3>1, TypesStay DEF select_2OK, Same, Moves, Becomes
  <2>3. CASE a = Alt("default", "none", 1, 0)
    <3>1. Moves("main", 1) /\ chan' = chan /\ Same
      BY <1>1, <1>2, <2>3, Passes
    <3> QED
      BY <1>1, <1>5, <3>1, TypesStay DEF select_2OK, Same, Moves
  <2> QED
    BY <1>2, <1>5, <2>1, <2>2, <2>3, select_2Code
<1>6. gpc["main"] \in 1..4
  BY select_2Code, NextIs DEF select_2OK
<1> QED
  BY <1>3, <1>4, <1>5, <1>6

LEMMA select_2Goes ==
  ASSUME GoTypes, demo = "select_2", select_2OK
  PROVE  SomebodyGoes /\ TheOthersGo
<1>1. TheOthersGo
  BY select_2Code DEF TheOthersGo
<1>2. CASE gpc["main"] \in 1..3
  <2>1. CanGo("main")
    BY <1>2, SendGoes, select_2Code DEF select_2OK
  <2> QED
    BY <1>1, <2>1, select_2Code DEF SomebodyGoes
<1>3. CASE gpc["main"] = 4
  <2>1. Alt("default", "none", 1, 0) \in Alts("main") /\ Alt("default", "none", 1, 0).op = "default"
    BY <1>3, select_2Code, AltIs
  <2> QED
    BY <1>1, <2>1, select_2Code DEF SomebodyGoes
<1>4. CASE gpc["main"] = 5
  BY <1>1, <1>4, select_2Code DEF SomebodyGoes
<1> QED
  BY <1>2, <1>3, <1>4 DEF select_2OK

(***************************************************************************)
(* select_3                                                                *)
(***************************************************************************)
select_3OK ==
  LET m == gpc["main"]
      g == gpc["g"]
  IN  /\ m \in 1..7 /\ g \in 1..2 /\ ~raced
      /\ \A ch \in {"cancel", "data"} : chan[ch].n = 0 /\ ~chan[ch].closed
      /\ m = 7 <=> g = 2

LEMMA select_3Code ==
  ASSUME GoTypes, demo = "select_3"
  PROVE  /\ Goroutines = {"main", "g"} /\ Channels = {"cancel", "data"}
         /\ Cap("cancel") = 0 /\ Cap("data") = 0
         /\ Terminated("main") <=> gpc["main"] > 6
         /\ Terminated("g") <=> gpc["g"] > 1
         /\ gpc["main"] \in 1..5 => Alts("main") = {Alt("recv", "data", 1, 1)}
         /\ gpc["main"] = 6 => Alts("main") = {Alt("send", "cancel", 1, 0)}
         /\ gpc["g"] = 1 => Alts("g") = {Alt("recv", "cancel", 1, 1), Alt("send", "data", 0, 0)}
<1> DEFINE main == Times(5, <<Recv("data")>>) \o <<Send("cancel")>>
           g == <<Recv("cancel") \cup {Alt("send", "data", 0, 0)}>>
<1>1. /\ Demos[demo].cap = [cancel |-> 0, data |-> 0]
      /\ Demos[demo].code = With(main, [g |-> g])
  BY DemoIs DEF select_3
<1>2. Channels = {"cancel", "data"} /\ Cap("cancel") = 0 /\ Cap("data") = 0
  BY <1>1 DEF Channels, Cap
<1>3. Len(g) = 1 /\ g[1] = Recv("cancel") \cup {Alt("send", "data", 0, 0)}
  OBVIOUS
<1>4. Len(main) = 6 /\ (\A k \in 1..5 : main[k] = Recv("data")) /\ main[6] = Send("cancel")
  <2>1. LoopThen(main, 5, Recv("data"), Send("cancel"))
    BY RepeatThenIs
  <2> QED
    BY <2>1 DEF LoopThen
<1> HIDE DEF main, g
<1>5. Goroutines = {"main", "g"} /\ Code("main") = main /\ Code("g") = g
  BY <1>1, TwoAre
<1>6. gpc["main"] \in Nat /\ gpc["g"] \in Nat
  BY <1>5 DEF GoTypes
<1>7. /\ Terminated("main") <=> gpc["main"] > 6
      /\ gpc["main"] <= 6 => Alts("main") = main[gpc["main"]]
  BY <1>4, <1>5, <1>6, InstructionIs
<1>8. /\ Terminated("g") <=> gpc["g"] > 1
      /\ gpc["g"] <= 1 => Alts("g") = g[gpc["g"]]
  BY <1>3, <1>5, <1>6, InstructionIs
<1> QED
  BY <1>2, <1>3, <1>4, <1>5, <1>7, <1>8 DEF Send, Recv

LEMMA select_3Steps ==
  ASSUME GoTypes, demo = "select_3", select_3OK, GoNext
  PROVE  GoTypes' /\ select_3OK'
<1>1. /\ Goroutines = {"main", "g"} /\ Channels = {"cancel", "data"} /\ Cap("cancel") = 0
      /\ Cap("data") = 0 /\ demo' = demo
  BY select_3Code, NextIs
<1>2. PICK g \in {"main", "g"} : \E a \in Alts(g) : Act(g, a)
  BY <1>1, NextIs
<1>3. PICK a \in Alts(g) : Act(g, a)
  BY <1>2
<1>4. gpc["main"] \in 1..6 /\ gpc["g"] = 1
  BY select_3Code, NextIs DEF select_3OK
<1>5. ~(a \in {Alt("recv", "data", 1, 1), Alt("recv", "cancel", 1, 1)})
  BY <1>1, <1>3, Receives DEF select_3OK
<1>6. CASE g = "main" /\ a = Alt("send", "cancel", 1, 0) /\ gpc["main"] = 6
  <2>1. chan' = chan /\ Same /\ MeetsSomebody("main", "cancel", 1)
    BY <1>1, <1>3, <1>6, Meets
  <2>2. Met("main", 1, "g", 1)
    BY <1>1, <1>4, <2>1, AltIs, select_3Code DEF MeetsSomebody
  <2> QED
    BY <1>1, <1>4, <1>6, <2>1, <2>2, TypesStay DEF select_3OK, Same, Met
<1>7. CASE g = "g" /\ a = Alt("send", "data", 0, 0)
  <2>1. chan' = chan /\ Same /\ MeetsSomebody("g", "data", 0)
    BY <1>1, <1>3, <1>7, Meets
  <2>2. Met("g", 0, "main", 1) /\ gpc["main"] # 6
    BY <1>1, <1>4, <2>1, AltIs, select_3Code DEF MeetsSomebody
  <2> QED
    BY <1>1, <1>4, <2>1, <2>2, TypesStay DEF select_3OK, Same, Met
<1>8. \/ g = "main" /\ a = Alt("recv", "data", 1, 1)
      \/ g = "main" /\ a = Alt("send", "cancel", 1, 0) /\ gpc["main"] = 6
      \/ g = "g" /\ a \in {Alt("recv", "cancel", 1, 1), Alt("send", "data", 0, 0)}
  BY <1>3, <1>4, select_3Code
<1> QED
  BY <1>5, <1>6, <1>7, <1>8

LEMMA select_3Goes ==
  ASSUME GoTypes, demo = "select_3", select_3OK
  PROVE  SomebodyGoes /\ TheOthersGo
<1>1. Goroutines = {"main", "g"} /\ Cap("data") = 0 /\ Cap("cancel") = 0
  BY select_3Code
<1>2. CASE gpc["main"] \in 1..5
  <2>1. CanGo("g")
    BY <1>1, <1>2, MeetGoes, select_3Code DEF select_3OK
  <2> QED
    BY <1>1, <1>2, <2>1, select_3Code DEF SomebodyGoes, TheOthersGo
<1>3. CASE gpc["main"] = 6
  <2>1. CanGo("main")
    BY <1>1, <1>3, MeetGoes, select_3Code DEF select_3OK
  <2> QED
    BY <1>1, <1>3, <2>1, select_3Code DEF SomebodyGoes, TheOthersGo
<1>4. CASE gpc["main"] = 7
  BY <1>1, <1>4, select_3Code DEF SomebodyGoes, TheOthersGo, select_3OK
<1> QED
  BY <1>2, <1>3, <1>4 DEF select_3OK

(***************************************************************************)
(* wait_1                                                                  *)
(***************************************************************************)
wait_1OK ==
  LET m == gpc["main"]
      g == gpc["g"]
  IN  /\ m \in 1..3 /\ g \in 1..3 /\ ~raced
      /\ chan["result"].n = 0 /\ ~chan["result"].closed
      /\ m = 3 <=> g = 3

LEMMA wait_1Code ==
  ASSUME GoTypes, demo = "wait_1"
  PROVE  /\ Goroutines = {"main", "g"} /\ Channels = {"result"} /\ Cap("result") = 0
         /\ \A h \in {"main", "g"} :
              /\ Terminated(h) <=> gpc[h] > 2
              /\ gpc[h] = 1 => Alts(h) = {Alt("time", "none", 1, 0)}
         /\ gpc["main"] = 2 => Alts("main") = {Alt("recv", "result", 1, 1)}
         /\ gpc["g"] = 2 => Alts("g") = {Alt("send", "result", 1, 0)}
<1> DEFINE main == <<Time, Recv("result")>>
           g == <<Time, Send("result")>>
<1>1. Demos[demo].cap = [result |-> 0] /\ Demos[demo].code = With(main, [g |-> g])
  BY DemoIs DEF wait_1
<1>2. Channels = {"result"} /\ Cap("result") = 0
  BY <1>1 DEF Channels, Cap
<1>3. /\ Len(main) = 2 /\ main[1] = Time /\ main[2] = Recv("result")
      /\ Len(g) = 2 /\ g[1] = Time /\ g[2] = Send("result")
  OBVIOUS
<1> HIDE DEF main, g
<1>4. Goroutines = {"main", "g"} /\ Code("main") = main /\ Code("g") = g
  BY <1>1, TwoAre
<1>5. gpc["main"] \in Nat /\ gpc["g"] \in Nat
  BY <1>4 DEF GoTypes
<1>6. /\ Terminated("main") <=> gpc["main"] > 2
      /\ gpc["main"] <= 2 => Alts("main") = main[gpc["main"]]
  BY <1>3, <1>4, <1>5, InstructionIs
<1>7. /\ Terminated("g") <=> gpc["g"] > 2
      /\ gpc["g"] <= 2 => Alts("g") = g[gpc["g"]]
  BY <1>3, <1>4, <1>5, InstructionIs
<1> QED
  BY <1>2, <1>3, <1>4, <1>6, <1>7 DEF Send, Recv, Time

LEMMA wait_1Steps ==
  ASSUME GoTypes, demo = "wait_1", wait_1OK, GoNext
  PROVE  GoTypes' /\ wait_1OK'
<1>1. /\ Goroutines = {"main", "g"} /\ Channels = {"result"} /\ Cap("result") = 0 /\ demo' = demo
      /\ gpc["main"] # 3
  BY wait_1Code, NextIs
<1>2. PICK g \in {"main", "g"} : \E a \in Alts(g) : Act(g, a)
  BY <1>1, NextIs
<1>3. PICK a \in Alts(g) : Act(g, a)
  BY <1>2
<1>4. CASE gpc[g] = 1
  <2>1. a = Alt("time", "none", 1, 0)
    BY <1>3, <1>4, wait_1Code
  <2>2. Moves(g, 1) /\ chan' = chan /\ Same
    BY <1>1, <1>3, <2>1, Passes
  <2> QED
    BY <1>1, <1>4, <2>2, TypesStay DEF wait_1OK, Same, Moves
<1>5. CASE g = "main" /\ gpc["main"] = 2
  <2>1. a = Alt("recv", "result", 1, 1)
    BY <1>3, <1>5, wait_1Code
  <2> QED
    BY <1>1, <1>3, <1>5, <2>1, Receives DEF wait_1OK
<1>6. CASE g = "g" /\ gpc["g"] = 2
  <2>1. a = Alt("send", "result", 1, 0)
    BY <1>3, <1>6, wait_1Code
  <2>2. chan' = chan /\ Same /\ MeetsSomebody("g", "result", 1)
    BY <1>1, <1>3, <1>6, <2>1, Meets
  <2>3. Met("g", 1, "main", 1) /\ gpc["main"] = 2
    BY <1>1, <2>2, AltIs, wait_1Code DEF MeetsSomebody, wait_1OK
  <2> QED
    BY <1>1, <1>6, <2>2, <2>3, TypesStay DEF wait_1OK, Same, Met
<1>7. gpc[g] \in {1, 2}
  BY <1>1, <1>3 DEF wait_1OK
<1> QED
  BY <1>4, <1>5, <1>6, <1>7

LEMMA wait_1Goes ==
  ASSUME GoTypes, demo = "wait_1", wait_1OK
  PROVE  SomebodyGoes /\ TheOthersGo
<1>1. Goroutines = {"main", "g"} /\ Cap("result") = 0
  BY wait_1Code
<1>2. CASE gpc["main"] = 1
  <2>1. CanGo("main")
    BY <1>1, <1>2, AlwaysGoes, wait_1Code
  <2> QED
    BY <1>1, <1>2, <2>1, wait_1Code DEF SomebodyGoes, TheOthersGo
<1>3. CASE gpc["main"] = 2
  <2>1. CASE gpc["g"] = 1
    <3>1. CanGo("g")
      BY <1>1, <2>1, AlwaysGoes, wait_1Code
    <3> QED
      BY <1>1, <1>3, <3>1, wait_1Code DEF SomebodyGoes, TheOthersGo
  <2>2. CASE gpc["g"] = 2
    <3>1. CanGo("g")
      BY <1>1, <1>3, <2>2, MeetGoes, wait_1Code
    <3> QED
      BY <1>1, <1>3, <3>1, wait_1Code DEF SomebodyGoes, TheOthersGo
  <2> QED
    BY <1>3, <2>1, <2>2 DEF wait_1OK
<1>4. CASE gpc["main"] = 3
  BY <1>1, <1>4, wait_1Code DEF SomebodyGoes, TheOthersGo, wait_1OK
<1> QED
  BY <1>2, <1>3, <1>4 DEF wait_1OK

(***************************************************************************)
(* async_work                                                              *)
(***************************************************************************)
async_workOK ==
  /\ gpc["main"] \in 1..2 /\ gpc["g"] \in 1..3 /\ ~raced
  /\ chan["result"].n = (IF gpc["g"] = 3 THEN 1 ELSE 0) /\ ~chan["result"].closed

LEMMA async_workCode ==
  ASSUME GoTypes, demo = "async_work"
  PROVE  /\ Goroutines = {"main", "g"} /\ Channels = {"result"} /\ Cap("result") = 1
         /\ Terminated("main") <=> gpc["main"] > 1
         /\ Terminated("g") <=> gpc["g"] > 2
         /\ \A h \in {"main", "g"} : gpc[h] = 1 => Alts(h) = {Alt("time", "none", 1, 0)}
         /\ gpc["g"] = 2 => Alts("g") = {Alt("send", "result", 1, 0)}
<1> DEFINE main == <<Time>>
           g == <<Time, Send("result")>>
<1>1. Demos[demo].cap = [result |-> 1] /\ Demos[demo].code = With(main, [g |-> g])
  BY DemoIs DEF async_work
<1>2. Channels = {"result"} /\ Cap("result") = 1
  BY <1>1 DEF Channels, Cap
<1>3. Len(main) = 1 /\ main[1] = Time /\ Len(g) = 2 /\ g[1] = Time /\ g[2] = Send("result")
  OBVIOUS
<1> HIDE DEF main, g
<1>4. Goroutines = {"main", "g"} /\ Code("main") = main /\ Code("g") = g
  BY <1>1, TwoAre
<1>5. gpc["main"] \in Nat /\ gpc["g"] \in Nat
  BY <1>4 DEF GoTypes
<1>6. /\ Terminated("main") <=> gpc["main"] > 1
      /\ gpc["main"] <= 1 => Alts("main") = main[gpc["main"]]
  BY <1>3, <1>4, <1>5, InstructionIs
<1>7. /\ Terminated("g") <=> gpc["g"] > 2
      /\ gpc["g"] <= 2 => Alts("g") = g[gpc["g"]]
  BY <1>3, <1>4, <1>5, InstructionIs
<1> QED
  BY <1>2, <1>3, <1>4, <1>6, <1>7 DEF Send, Time

LEMMA async_workSteps ==
  ASSUME GoTypes, demo = "async_work", async_workOK, GoNext
  PROVE  GoTypes' /\ async_workOK'
<1>1. /\ Goroutines = {"main", "g"} /\ Channels = {"result"} /\ Cap("result") = 1 /\ demo' = demo
      /\ gpc["main"] = 1
  BY async_workCode, NextIs DEF async_workOK
<1>2. PICK g \in {"main", "g"} : \E a \in Alts(g) : Act(g, a)
  BY <1>1, NextIs
<1>3. PICK a \in Alts(g) : Act(g, a)
  BY <1>2
<1>4. CASE gpc[g] = 1
  <2>1. a = Alt("time", "none", 1, 0)
    BY <1>3, <1>4, async_workCode
  <2>2. Moves(g, 1) /\ chan' = chan /\ Same
    BY <1>1, <1>3, <2>1, Passes
  <2> QED
    BY <1>1, <1>4, <2>2, TypesStay DEF async_workOK, Same, Moves
<1>5. CASE g = "g" /\ gpc["g"] = 2
  <2>1. a = Alt("send", "result", 1, 0)
    BY <1>3, <1>5, async_workCode
  <2>2. Becomes("result", 1, chan["result"].closed) /\ Moves("g", 1) /\ Same
    BY <1>1, <1>3, <1>5, <2>1, Sends DEF async_workOK
  <2> QED
    BY <1>1, <1>5, <2>2, TypesStay DEF async_workOK, Same, Moves, Becomes
<1>6. gpc[g] = 1 \/ (g = "g" /\ gpc["g"] = 2)
  BY <1>1, <1>3, async_workCode DEF async_workOK, Alts
<1> QED
  BY <1>4, <1>5, <1>6

LEMMA async_workGoes ==
  ASSUME GoTypes, demo = "async_work", async_workOK
  PROVE  SomebodyGoes /\ TheOthersGo
<1>1. Goroutines = {"main", "g"} /\ Cap("result") = 1
  BY async_workCode
<1>2. gpc["main"] = 1 => CanGo("main")
  BY <1>1, AlwaysGoes, async_workCode
<1>3. gpc["g"] = 1 => CanGo("g")
  BY <1>1, AlwaysGoes, async_workCode
<1>4. gpc["g"] = 2 => CanGo("g")
  BY <1>1, SendGoes, async_workCode DEF async_workOK
<1> QED
  BY <1>1, <1>2, <1>3, <1>4, async_workCode DEF SomebodyGoes, TheOthersGo, async_workOK

(***************************************************************************)
(* timeout: main either takes the result and stops the timer, or finds     *)
(* that it has fired; until then nobody else takes from C.                 *)
(***************************************************************************)
timeoutOK ==
  LET m == gpc["main"]
      t == gpc["timer"]
      q == gpc["query"]
  IN  /\ m \in 1..3 /\ t \in 1..3 /\ q \in 1..3 /\ ~raced
      /\ chan["C"].n \in 0..1 /\ chan["result"].n \in 0..1 /\ chan["stop"].n = 0
      /\ ~chan["C"].closed /\ ~chan["result"].closed /\ ~chan["stop"].closed
      /\ t < 3 => chan["C"].n = 0
      /\ m < 3 /\ t = 3 => chan["C"].n = 1
      /\ q < 3 => chan["result"].n = 0

LEMMA timeoutCode ==
  ASSUME GoTypes, demo = "timeout"
  PROVE  /\ Goroutines = {"main", "timer", "query"} /\ Channels = {"C", "result", "stop"}
         /\ Cap("C") = 1 /\ Cap("result") = 1 /\ Cap("stop") = 0
         /\ \A h \in {"main", "timer", "query"} : Terminated(h) <=> gpc[h] > 2
         /\ gpc["main"] = 1 => Alts("main") = {Alt("recv", "C", 2, 2), Alt("time", "none", 2, 0),
                                               Alt("recv", "result", 1, 1)}
         /\ gpc["main"] = 2 => Alts("main") = {Alt("send", "stop", 1, 0), Alt("recv", "C", 1, 1)}
         /\ gpc["timer"] = 1 => Alts("timer") = {Alt("recv", "stop", 2, 2), Alt("time", "none", 1, 0)}
         /\ gpc["timer"] = 2 => Alts("timer") = {Alt("send", "C", 1, 0)}
         /\ gpc["query"] = 1 => Alts("query") = {Alt("time", "none", 1, 0)}
         /\ gpc["query"] = 2 => Alts("query") = {Alt("send", "result", 1, 0)}
<1> DEFINE main == <<{Alt("recv", "C", 2, 2), Alt("time", "none", 2, 0)} \cup Recv("result"),
                     Send("stop") \cup Recv("C")>>
           timer == <<{Alt("recv", "stop", 2, 2)} \cup Time, Send("C")>>
           query == <<Time, Send("result")>>
           others == [timer |-> timer, query |-> query]
<1>1. /\ Demos[demo].cap = [C |-> 1, result |-> 1, stop |-> 0]
      /\ Demos[demo].code = With(main, others)
  BY DemoIs DEF timeout
<1>2. /\ Channels = {"C", "result", "stop"} /\ Cap("C") = 1 /\ Cap("result") = 1 /\ Cap("stop") = 0
  BY <1>1 DEF Channels, Cap
<1>3. /\ Len(main) = 2 /\ Len(timer) = 2 /\ Len(query) = 2
      /\ main[1] = {Alt("recv", "C", 2, 2), Alt("time", "none", 2, 0)} \cup Recv("result")
      /\ main[2] = Send("stop") \cup Recv("C")
      /\ timer[1] = {Alt("recv", "stop", 2, 2)} \cup Time /\ timer[2] = Send("C")
      /\ query[1] = Time /\ query[2] = Send("result")
  OBVIOUS
<1> HIDE DEF main, timer, query
<1>4. DOMAIN others = {"timer", "query"} /\ others["timer"] = timer /\ others["query"] = query
  OBVIOUS
<1> HIDE DEF others
<1>5. /\ Goroutines = {"main"} \cup {"timer", "query"} /\ Code("main") = main
      /\ \A h \in {"timer", "query"} \ {"main"} : Code(h) = others[h]
  BY <1>1, <1>4, CodeIs
<1>6. /\ Goroutines = {"main", "timer", "query"}
      /\ Code("main") = main /\ Code("timer") = timer /\ Code("query") = query
  BY <1>4, <1>5
<1>7. gpc["main"] \in Nat /\ gpc["timer"] \in Nat /\ gpc["query"] \in Nat
  BY <1>6 DEF GoTypes
<1>8. /\ Terminated("main") <=> gpc["main"] > 2
      /\ gpc["main"] <= 2 => Alts("main") = main[gpc["main"]]
  BY <1>3, <1>6, <1>7, InstructionIs
<1>9. /\ Terminated("timer") <=> gpc["timer"] > 2
      /\ gpc["timer"] <= 2 => Alts("timer") = timer[gpc["timer"]]
  BY <1>3, <1>6, <1>7, InstructionIs
<1>10. /\ Terminated("query") <=> gpc["query"] > 2
       /\ gpc["query"] <= 2 => Alts("query") = query[gpc["query"]]
  BY <1>3, <1>6, <1>7, InstructionIs
<1> QED
  BY <1>2, <1>3, <1>6, <1>8, <1>9, <1>10 DEF Send, Recv, Time

LEMMA timeoutSteps ==
  ASSUME GoTypes, demo = "timeout", timeoutOK, GoNext
  PROVE  GoTypes' /\ timeoutOK'
<1>1. /\ Goroutines = {"main", "timer", "query"} /\ Channels = {"C", "result", "stop"}
      /\ Cap("C") = 1 /\ Cap("result") = 1 /\ Cap("stop") = 0 /\ demo' = demo
      /\ gpc["main"] \in {1, 2}
  BY timeoutCode, NextIs DEF timeoutOK
<1>2. PICK g \in {"main", "timer", "query"} : \E a \in Alts(g) : Act(g, a)
  BY <1>1, NextIs
<1>3. PICK a \in Alts(g) : Act(g, a)
  BY <1>2
<1>4. CASE g = "main" /\ gpc["main"] = 1
  <2>1. CASE a = Alt("recv", "C", 2, 2)
    <3>1. chan["C"].n = 1 /\ Becomes("C", chan["C"].n - 1, chan["C"].closed) /\ Moves("main", 2) /\ Same
      BY <1>1, <1>3, <1>4, <2>1, Receives DEF timeoutOK
    <3> QED
      BY <1>1, <1>4, <3>1, TypesStay DEF timeoutOK, Same, Moves, Becomes
  <2>2. CASE a = Alt("time", "none", 2, 0)
    <3>1. Moves("main", 2) /\ chan' = chan /\ Same
      BY <1>1, <1>3, <1>4, <2>2, Passes
    <3> QED
      BY <1>1, <1>4, <3>1, TypesStay DEF timeoutOK, Same, Moves
  <2>3. CASE a = Alt("recv", "result", 1, 1)
    <3>1. /\ chan["result"].n = 1 /\ Becomes("result", chan["result"].n - 1, chan["result"].closed)
          /\ Moves("main", 1) /\ Same
      BY <1>1, <1>3, <1>4, <2>3, Receives DEF timeoutOK
    <3> QED
      BY <1>1, <1>4, <3>1, TypesStay DEF timeoutOK, Same, Moves, Becomes
  <2> QED
    BY <1>3, <1>4, <2>1, <2>2, <2>3, timeoutCode
<1>5. CASE g = "main" /\ gpc["main"] = 2
  <2>1. CASE a = Alt("send", "stop", 1, 0)
    <3>1. chan' = chan /\ Same /\ MeetsSomebody("main", "stop", 1)
      BY <1>1, <1>3, <1>5, <2>1, Meets
    <3>2. Met("main", 1, "timer", 2) /\ gpc["timer"] = 1
      <4>1. PICK h \in {"timer", "query"} : \E b \in Alts(h) :
              b.op = "recv" /\ b.ch = "stop" /\ (b.jump \in Nat => Met("main", 1, h, b.jump))
        BY <1>1, <3>1 DEF MeetsSomebody
      <4>2. h # "query"
        BY <1>1, <4>1, AltIs, timeoutCode DEF Alts, timeoutOK
      <4>3. h = "timer" /\ gpc["timer"] # 2 /\ gpc["timer"] # 3
        BY <1>1, <4>1, <4>2, AltIs, timeoutCode DEF Alts
      <4> QED
        BY <1>1, <4>1, <4>3, AltIs, timeoutCode DEF timeoutOK
    <3> QED
      BY <1>1, <1>5, <3>1, <3>2, TypesStay DEF timeoutOK, Same, Met
  <2>2. CASE a = Alt("recv", "C", 1, 1)
    <3>1. chan["C"].n = 1 /\ Becomes("C", chan["C"].n - 1, chan["C"].closed) /\ Moves("main", 1) /\ Same
      BY <1>1, <1>3, <1>5, <2>2, Receives DEF timeoutOK
    <3> QED
      BY <1>1, <1>5, <3>1, TypesStay DEF timeoutOK, Same, Moves, Becomes
  <2> QED
    BY <1>3, <1>5, <2>1, <2>2, timeoutCode
<1>6. CASE g = "timer" /\ gpc["timer"] = 1
  <2>1. CASE a = Alt("recv", "stop", 2, 2)
    BY <1>1, <1>3, <1>6, <2>1, Receives DEF timeoutOK
  <2>2. CASE a = Alt("time", "none", 1, 0)
    <3>1. Moves("timer", 1) /\ chan' = chan /\ Same
      BY <1>1, <1>3, <1>6, <2>2, Passes
    <3> QED
      BY <1>1, <1>6, <3>1, TypesStay DEF timeoutOK, Same, Moves
  <2> QED
    BY <1>3, <1>6, <2>1, <2>2, timeoutCode
<1>7. CASE g = "timer" /\ gpc["timer"] = 2
  <2>1. a = Alt("send", "C", 1, 0)
    BY <1>3, <1>7, timeoutCode
  <2>2. Becomes("C", chan["C"].n + 1, chan["C"].closed) /\ Moves("timer", 1) /\ Same
    BY <1>1, <1>3, <1>7, <2>1, Sends
  <2> QED
    BY <1>1, <1>7, <2>2, TypesStay DEF timeoutOK, Same, Moves, Becomes
<1>8. CASE g = "query" /\ gpc["query"] = 1
  <2>1. a = Alt("time", "none", 1, 0)
    BY <1>3, <1>8, timeoutCode
  <2>2. Moves("query", 1) /\ chan' = chan /\ Same
    BY <1>1, <1>3, <1>8, <2>1, Passes
  <2> QED
    BY <1>1, <1>8, <2>2, TypesStay DEF timeoutOK, Same, Moves
<1>9. CASE g = "query" /\ gpc["query"] = 2
  <2>1. a = Alt("send", "result", 1, 0)
    BY <1>3, <1>9, timeoutCode
  <2>2. Becomes("result", chan["result"].n + 1, chan["result"].closed) /\ Moves("query", 1) /\ Same
    BY <1>1, <1>3, <1>9, <2>1, Sends
  <2> QED
    BY <1>1, <1>9, <2>2, TypesStay DEF timeoutOK, Same, Moves, Becomes
<1>10. gpc[g] \in {1, 2}
  BY <1>1, <1>3, timeoutCode DEF timeoutOK, Alts
<1> QED
  BY <1>4, <1>5, <1>6, <1>7, <1>8, <1>9, <1>10

LEMMA timeoutGoes ==
  ASSUME GoTypes, demo = "timeout", timeoutOK
  PROVE  SomebodyGoes /\ TheOthersGo
<1>1. Goroutines = {"main", "timer", "query"} /\ Cap("C") = 1 /\ Cap("result") = 1
  BY timeoutCode
<1>2. gpc["main"] = 1 => CanGo("main")
  BY AlwaysGoes, timeoutCode
<1>3. gpc["timer"] = 1 => CanGo("timer")
  BY AlwaysGoes, timeoutCode
<1>4. gpc["timer"] = 2 => CanGo("timer")
  BY <1>1, SendGoes, timeoutCode DEF timeoutOK
<1>5. gpc["main"] = 2 /\ gpc["timer"] = 3 => CanGo("main")
  BY RecvGoes, timeoutCode DEF timeoutOK
<1>6. gpc["query"] = 1 => CanGo("query")
  BY AlwaysGoes, timeoutCode
<1>7. gpc["query"] = 2 => CanGo("query")
  BY <1>1, SendGoes, timeoutCode DEF timeoutOK
<1>8. SomebodyGoes
  BY <1>1, <1>2, <1>3, <1>4, <1>5, timeoutCode DEF SomebodyGoes, timeoutOK
<1>9. TheOthersGo
  BY <1>1, <1>3, <1>4, <1>6, <1>7, timeoutCode DEF TheOthersGo, timeoutOK
<1> QED
  BY <1>8, <1>9

(***************************************************************************)
(* context_cancel: until main has a result, a searcher has yet to send one *)
(* or has sent it.                                                         *)
(***************************************************************************)
context_cancelOK ==
  LET m == gpc["main"]
      n == chan["result"].n
  IN  /\ m \in 1..4 /\ (\A h \in Gophers : gpc[h] \in 1..3) /\ ~raced
      /\ n \in 0..1 /\ ~chan["result"].closed /\ chan["done"].n = 0
      /\ m = 1 => ~chan["done"].closed
      /\ m = 1 /\ n = 0 => \A h \in Gophers : gpc[h] < 3

LEMMA SearcherIs ==
  ASSUME NEW h, gpc[h] \in Nat, Code(h) = Searcher
  PROVE  /\ Terminated(h) <=> gpc[h] > 2
         /\ gpc[h] = 1 => Alts(h) = {Alt("recv", "done", 2, 2), Alt("time", "none", 1, 0)}
         /\ gpc[h] = 2 => Alts(h) = {Alt("send", "result", 1, 0)}
<1>1. /\ Len(Searcher) = 2 /\ Searcher[1] = {Alt("recv", "done", 2, 2)} \cup Time
      /\ Searcher[2] = Send("result")
  BY DEF Searcher
<1>2. /\ Terminated(h) <=> gpc[h] > 2
      /\ gpc[h] <= 2 => Alts(h) = Searcher[gpc[h]]
  BY <1>1, InstructionIs
<1> QED
  BY <1>1, <1>2 DEF Time, Send

LEMMA context_cancelCode ==
  ASSUME GoTypes, demo = "context_cancel"
  PROVE  /\ Goroutines = {"main"} \cup Gophers /\ Channels = {"result", "done"}
         /\ Cap("result") = 1 /\ Cap("done") = 0
         /\ Terminated("main") <=> gpc["main"] > 3
         /\ gpc["main"] = 1 => Alts("main") = {Alt("recv", "result", 1, 1)}
         /\ gpc["main"] = 2 => Alts("main") = {Alt("close", "done", 1, 0)}
         /\ gpc["main"] = 3 => Alts("main") = {Alt("time", "none", 1, 0)}
         /\ \A h \in Gophers :
              /\ Terminated(h) <=> gpc[h] > 2
              /\ gpc[h] = 1 => Alts(h) = {Alt("recv", "done", 2, 2), Alt("time", "none", 1, 0)}
              /\ gpc[h] = 2 => Alts(h) = {Alt("send", "result", 1, 0)}
<1> DEFINE main == <<Recv("result"), Close("done"), Time>>
<1>1. /\ Demos[demo].cap = [result |-> 1, done |-> 0]
      /\ Demos[demo].code = With(main, Each(Searcher))
  BY DemoIs DEF context_cancel
<1>2. Channels = {"result", "done"} /\ Cap("result") = 1 /\ Cap("done") = 0
  BY <1>1 DEF Channels, Cap
<1>3. Len(main) = 3 /\ main[1] = Recv("result") /\ main[2] = Close("done") /\ main[3] = Time
  OBVIOUS
<1> HIDE DEF main
<1>4. /\ Goroutines = {"main"} \cup Gophers /\ Code("main") = main
      /\ \A h \in Gophers : Code(h) = Searcher
  BY <1>1, EachIs
<1>5. gpc["main"] \in Nat /\ \A h \in Gophers : gpc[h] \in Nat
  BY <1>4 DEF GoTypes
<1>6. /\ Terminated("main") <=> gpc["main"] > 3
      /\ gpc["main"] <= 3 => Alts("main") = main[gpc["main"]]
  BY <1>3, <1>4, <1>5, InstructionIs
<1> QED
  BY <1>2, <1>3, <1>4, <1>5, <1>6, SearcherIs DEF Recv, Close, Time

LEMMA context_cancelSteps ==
  ASSUME GoTypes, demo = "context_cancel", context_cancelOK, GoNext
  PROVE  GoTypes' /\ context_cancelOK'
<1>1. /\ Goroutines = {"main"} \cup Gophers /\ Channels = {"result", "done"} /\ Cap("result") = 1
      /\ demo' = demo /\ gpc["main"] \in 1..3 /\ "main" \notin Gophers
      /\ "main" \in Goroutines /\ \A h \in Gophers : h \in Goroutines /\ h # "main"
  BY context_cancelCode, NextIs, GoroutinesAssumption DEF context_cancelOK
<1>2. PICK g \in Goroutines : \E a \in Alts(g) : Act(g, a)
  BY NextIs
<1>3. PICK a \in Alts(g) : Act(g, a)
  BY <1>2
<1>4. CASE g = "main" /\ gpc["main"] = 1
  <2>1. a = Alt("recv", "result", 1, 1)
    BY <1>3, <1>4, context_cancelCode
  <2>2. Becomes("result", chan["result"].n - 1, chan["result"].closed) /\ Moves("main", 1) /\ Same
        /\ chan["result"].n = 1
    BY <1>1, <1>3, <1>4, <2>1, Receives DEF context_cancelOK
  <2>3. GoTypes' /\ gpc'["main"] = gpc["main"] + 1 /\ \A h \in Gophers : gpc'[h] = gpc[h]
    BY <1>1, <2>2, TypesStay DEF Moves
  <2> QED
    BY <1>1, <1>4, <2>2, <2>3 DEF context_cancelOK, Same, Becomes
<1>5. CASE g = "main" /\ gpc["main"] = 2
  <2>1. a = Alt("close", "done", 1, 0)
    BY <1>3, <1>5, context_cancelCode
  <2>2. Becomes("done", chan["done"].n, TRUE) /\ Moves("main", 1) /\ Same
    BY <1>1, <1>3, <1>5, <2>1, ClosesIt
  <2>3. GoTypes' /\ gpc'["main"] = gpc["main"] + 1 /\ \A h \in Gophers : gpc'[h] = gpc[h]
    BY <1>1, <2>2, TypesStay DEF Moves
  <2> QED
    BY <1>1, <1>5, <2>2, <2>3 DEF context_cancelOK, Same, Becomes
<1>6. CASE g = "main" /\ gpc["main"] = 3
  <2>1. a = Alt("time", "none", 1, 0)
    BY <1>3, <1>6, context_cancelCode
  <2>2. Moves("main", 1) /\ chan' = chan /\ Same
    BY <1>1, <1>3, <1>6, <2>1, Passes
  <2>3. GoTypes' /\ gpc'["main"] = gpc["main"] + 1 /\ \A h \in Gophers : gpc'[h] = gpc[h]
    BY <1>1, <2>2, TypesStay DEF Moves
  <2> QED
    BY <1>1, <1>6, <2>2, <2>3 DEF context_cancelOK, Same
<1>7. CASE g \in Gophers /\ gpc[g] = 1
  <2>1. CASE a = Alt("recv", "done", 2, 2)
    <3>1. Becomes("done", chan["done"].n, chan["done"].closed) /\ Moves(g, 2) /\ Same /\ chan["done"].closed
      BY <1>1, <1>3, <2>1, Receives DEF context_cancelOK
    <3> QED
      BY <1>1, <1>7, <3>1, TypesStay DEF context_cancelOK, Same, Moves, Becomes
  <2>2. CASE a = Alt("time", "none", 1, 0)
    <3>1. Moves(g, 1) /\ chan' = chan /\ Same
      BY <1>1, <1>3, <2>2, Passes
    <3> QED
      BY <1>1, <1>7, <3>1, TypesStay DEF context_cancelOK, Same, Moves
  <2> QED
    BY <1>3, <1>7, <2>1, <2>2, context_cancelCode
<1>8. CASE g \in Gophers /\ gpc[g] = 2
  <2>1. a = Alt("send", "result", 1, 0)
    BY <1>3, <1>8, context_cancelCode
  <2>2. Becomes("result", chan["result"].n + 1, chan["result"].closed) /\ Moves(g, 1) /\ Same
        /\ chan["result"].n < 1
    BY <1>1, <1>3, <1>8, <2>1, Sends
  <2> QED
    BY <1>1, <1>8, <2>2, TypesStay DEF context_cancelOK, Same, Moves, Becomes
<1>9. g = "main" \/ (g \in Gophers /\ gpc[g] \in {1, 2})
  BY <1>1, <1>3, context_cancelCode DEF context_cancelOK, Alts
<1> QED
  BY <1>1, <1>4, <1>5, <1>6, <1>7, <1>8, <1>9

LEMMA context_cancelGoes ==
  ASSUME GoTypes, demo = "context_cancel", context_cancelOK
  PROVE  SomebodyGoes
<1>1. Goroutines = {"main"} \cup Gophers /\ Cap("result") = 1
  BY context_cancelCode
<1>2. CASE gpc["main"] = 1 /\ chan["result"].n = 0
  <2>1. PICK h \in Gophers : TRUE
    BY GoroutinesAssumption
  <2>2. CASE gpc[h] = 1
    <3>1. CanGo(h)
      BY <2>2, AlwaysGoes, context_cancelCode
    <3> QED
      BY <1>1, <3>1 DEF SomebodyGoes
  <2>3. CASE gpc[h] = 2
    <3>1. CanGo(h)
      BY <1>1, <1>2, <2>3, SendGoes, context_cancelCode
    <3> QED
      BY <1>1, <3>1 DEF SomebodyGoes
  <2> QED
    BY <1>2, <2>2, <2>3 DEF context_cancelOK
<1>3. CASE gpc["main"] = 1 /\ chan["result"].n = 1
  <2>1. CanGo("main")
    BY <1>3, RecvGoes, context_cancelCode
  <2> QED
    BY <1>1, <2>1 DEF SomebodyGoes
<1>4. CASE gpc["main"] \in {2, 3}
  <2>1. CanGo("main")
    BY <1>4, AlwaysGoes, context_cancelCode
  <2> QED
    BY <1>1, <2>1 DEF SomebodyGoes
<1>5. CASE gpc["main"] = 4
  BY <1>5, context_cancelCode DEF SomebodyGoes
<1> QED
  BY <1>2, <1>3, <1>4, <1>5 DEF context_cancelOK

(***************************************************************************)
(* context_timeout: somebody, whom nothing holds up, will close done.      *)
(***************************************************************************)
context_timeoutOK ==
  /\ gpc["main"] \in 1..3 /\ gpc["ctx"] \in 1..3 /\ (\A h \in Gophers : gpc[h] \in 1..3) /\ ~raced
  /\ chan["result"].n \in 0..1 /\ ~chan["result"].closed /\ chan["done"].n = 0
  /\ gpc["ctx"] = 3 => chan["done"].closed

LEMMA context_timeoutCode ==
  ASSUME GoTypes, demo = "context_timeout"
  PROVE  /\ Goroutines = {"main", "ctx"} \cup Gophers /\ Channels = {"result", "done"}
         /\ Cap("result") = 1 /\ Cap("done") = 0
         /\ Terminated("main") <=> gpc["main"] > 2
         /\ Terminated("ctx") <=> gpc["ctx"] > 2
         /\ gpc["main"] = 1 => Alts("main") = {Alt("recv", "result", 0, 1), Alt("recv", "done", 1, 1)}
         /\ gpc["main"] = 2 => Alts("main") = {Alt("time", "none", 1, 0)}
         /\ gpc["ctx"] = 1 => Alts("ctx") = {Alt("time", "none", 1, 0)}
         /\ gpc["ctx"] = 2 => Alts("ctx") = {Alt("close", "done", 1, 0)}
         /\ \A h \in Gophers \ {"ctx"} :
              /\ Terminated(h) <=> gpc[h] > 2
              /\ gpc[h] = 1 => Alts(h) = {Alt("recv", "done", 2, 2), Alt("time", "none", 1, 0)}
              /\ gpc[h] = 2 => Alts(h) = {Alt("send", "result", 1, 0)}
<1> DEFINE main == <<RangeOver("result") \cup Recv("done"), Time>>
           ctx == <<Time, Close("done")>>
           others == [g \in Gophers \cup {"ctx"} |-> IF g = "ctx" THEN ctx ELSE Searcher]
<1>1. /\ Demos[demo].cap = [result |-> 1, done |-> 0]
      /\ Demos[demo].code = With(main, others)
  BY DemoIs DEF context_timeout
<1>2. Channels = {"result", "done"} /\ Cap("result") = 1 /\ Cap("done") = 0
  BY <1>1 DEF Channels, Cap
<1>3. /\ Len(main) = 2 /\ main[1] = RangeOver("result") \cup Recv("done") /\ main[2] = Time
      /\ Len(ctx) = 2 /\ ctx[1] = Time /\ ctx[2] = Close("done")
  OBVIOUS
<1> HIDE DEF main, ctx
<1>4. /\ DOMAIN others = Gophers \cup {"ctx"} /\ others["ctx"] = ctx
      /\ \A h \in Gophers \ {"ctx"} : others[h] = Searcher
  OBVIOUS
<1> HIDE DEF others
<1>5. /\ Goroutines = {"main"} \cup (Gophers \cup {"ctx"}) /\ Code("main") = main
      /\ \A h \in (Gophers \cup {"ctx"}) \ {"main"} : Code(h) = others[h]
  BY <1>1, <1>4, CodeIs
<1>6. /\ Goroutines = {"main", "ctx"} \cup Gophers /\ Code("main") = main /\ Code("ctx") = ctx
      /\ \A h \in Gophers \ {"ctx"} : Code(h) = Searcher
  BY <1>4, <1>5, GoroutinesAssumption
<1>7. gpc["main"] \in Nat /\ gpc["ctx"] \in Nat /\ \A h \in Gophers : gpc[h] \in Nat
  BY <1>6 DEF GoTypes
<1>8. /\ Terminated("main") <=> gpc["main"] > 2
      /\ gpc["main"] <= 2 => Alts("main") = main[gpc["main"]]
  BY <1>3, <1>6, <1>7, InstructionIs
<1>9. /\ Terminated("ctx") <=> gpc["ctx"] > 2
      /\ gpc["ctx"] <= 2 => Alts("ctx") = ctx[gpc["ctx"]]
  BY <1>3, <1>6, <1>7, InstructionIs
<1>10. \A h \in Gophers \ {"ctx"} :
         /\ Terminated(h) <=> gpc[h] > 2
         /\ gpc[h] = 1 => Alts(h) = {Alt("recv", "done", 2, 2), Alt("time", "none", 1, 0)}
         /\ gpc[h] = 2 => Alts(h) = {Alt("send", "result", 1, 0)}
  BY <1>6, <1>7, SearcherIs
<1> QED
  BY <1>2, <1>3, <1>6, <1>8, <1>9, <1>10 DEF Recv, RangeOver, Close, Time

LEMMA context_timeoutSteps ==
  ASSUME GoTypes, demo = "context_timeout", context_timeoutOK, GoNext
  PROVE  GoTypes' /\ context_timeoutOK'
<1>1. /\ Goroutines = {"main", "ctx"} \cup Gophers /\ Channels = {"result", "done"} /\ Cap("result") = 1
      /\ demo' = demo /\ gpc["main"] \in 1..2
      /\ "main" \in Goroutines /\ "ctx" \in Goroutines
      /\ \A h \in Gophers : h \in Goroutines /\ h # "main"
  BY context_timeoutCode, NextIs, GoroutinesAssumption DEF context_timeoutOK
<1>2. PICK g \in Goroutines : \E a \in Alts(g) : Act(g, a)
  BY NextIs
<1>3. PICK a \in Alts(g) : Act(g, a)
  BY <1>2
<1>4. CASE g = "main" /\ gpc["main"] = 1
  <2>1. CASE a = Alt("recv", "result", 0, 1)
    <3>0. chan["result"].n \in 0..1 /\ ~chan["result"].closed /\ "result" \in Channels /\ g = "main"
      BY <1>1, <1>4 DEF context_timeoutOK
    <3>1. Becomes("result", chan["result"].n - 1, chan["result"].closed) /\ Moves("main", 0) /\ Same
          /\ chan["result"].n = 1
      BY <1>3, <2>1, <3>0, Receives
    <3>2. GoTypes' /\ gpc'["main"] = gpc["main"] + 0 /\ \A h \in Gophers \cup {"ctx"} : gpc'[h] = gpc[h]
      BY <1>1, <3>1, TypesStay DEF Moves
    <3> QED
      BY <1>1, <1>4, <3>1, <3>2 DEF context_timeoutOK, Same, Becomes
  <2>2. CASE a = Alt("recv", "done", 1, 1)
    <3>1. Becomes("done", chan["done"].n, chan["done"].closed) /\ Moves("main", 1) /\ Same
      BY <1>1, <1>3, <1>4, <2>2, Receives DEF context_timeoutOK
    <3>2. GoTypes' /\ gpc'["main"] = gpc["main"] + 1 /\ \A h \in Gophers \cup {"ctx"} : gpc'[h] = gpc[h]
      BY <1>1, <3>1, TypesStay DEF Moves
    <3> QED
      BY <1>1, <1>4, <3>1, <3>2 DEF context_timeoutOK, Same, Becomes
  <2> QED
    BY <1>3, <1>4, <2>1, <2>2, context_timeoutCode
<1>5. CASE g = "main" /\ gpc["main"] = 2
  <2>1. a = Alt("time", "none", 1, 0)
    BY <1>3, <1>5, context_timeoutCode
  <2>2. Moves("main", 1) /\ chan' = chan /\ Same
    BY <1>1, <1>3, <1>5, <2>1, Passes
  <2>3. GoTypes' /\ gpc'["main"] = gpc["main"] + 1 /\ \A h \in Gophers \cup {"ctx"} : gpc'[h] = gpc[h]
    BY <1>1, <2>2, TypesStay DEF Moves
  <2> QED
    BY <1>1, <1>5, <2>2, <2>3 DEF context_timeoutOK, Same
<1>6. CASE g = "ctx" /\ gpc["ctx"] = 1
  <2>1. a = Alt("time", "none", 1, 0)
    BY <1>3, <1>6, context_timeoutCode
  <2>2. Moves("ctx", 1) /\ chan' = chan /\ Same
    BY <1>1, <1>3, <1>6, <2>1, Passes
  <2>3. GoTypes' /\ gpc'["ctx"] = gpc["ctx"] + 1 /\ \A h \in (Gophers \cup {"main"}) \ {"ctx"} : gpc'[h] = gpc[h]
    BY <1>1, <2>2, TypesStay DEF Moves
  <2> QED
    BY <1>1, <1>6, <2>2, <2>3 DEF context_timeoutOK, Same
<1>7. CASE g = "ctx" /\ gpc["ctx"] = 2
  <2>1. a = Alt("close", "done", 1, 0)
    BY <1>3, <1>7, context_timeoutCode
  <2>2. Becomes("done", chan["done"].n, TRUE) /\ Moves("ctx", 1) /\ Same
    BY <1>1, <1>3, <1>7, <2>1, ClosesIt
  <2>3. GoTypes' /\ gpc'["ctx"] = gpc["ctx"] + 1 /\ \A h \in (Gophers \cup {"main"}) \ {"ctx"} : gpc'[h] = gpc[h]
    BY <1>1, <2>2, TypesStay DEF Moves
  <2> QED
    BY <1>1, <1>7, <2>2, <2>3 DEF context_timeoutOK, Same, Becomes
<1>8. CASE g \in Gophers \ {"ctx"} /\ gpc[g] = 1
  <2>1. CASE a = Alt("recv", "done", 2, 2)
    <3>1. Becomes("done", chan["done"].n, chan["done"].closed) /\ Moves(g, 2) /\ Same
      BY <1>1, <1>3, <2>1, Receives DEF context_timeoutOK
    <3> QED
      BY <1>1, <1>8, <3>1, TypesStay DEF context_timeoutOK, Same, Moves, Becomes
  <2>2. CASE a = Alt("time", "none", 1, 0)
    <3>1. Moves(g, 1) /\ chan' = chan /\ Same
      BY <1>1, <1>3, <2>2, Passes
    <3> QED
      BY <1>1, <1>8, <3>1, TypesStay DEF context_timeoutOK, Same, Moves
  <2> QED
    BY <1>3, <1>8, <2>1, <2>2, context_timeoutCode
<1>9. CASE g \in Gophers \ {"ctx"} /\ gpc[g] = 2
  <2>1. a = Alt("send", "result", 1, 0)
    BY <1>3, <1>9, context_timeoutCode
  <2>2. Becomes("result", chan["result"].n + 1, chan["result"].closed) /\ Moves(g, 1) /\ Same
        /\ chan["result"].n < 1
    BY <1>1, <1>3, <1>9, <2>1, Sends
  <2> QED
    BY <1>1, <1>9, <2>2, TypesStay DEF context_timeoutOK, Same, Moves, Becomes
<1>10. \/ g = "main"
       \/ g \in {"ctx"} \cup Gophers /\ gpc[g] \in {1, 2}
  BY <1>1, <1>3, context_timeoutCode DEF context_timeoutOK, Alts
<1> QED
  BY <1>1, <1>4, <1>5, <1>6, <1>7, <1>8, <1>9, <1>10

LEMMA context_timeoutGoes ==
  ASSUME GoTypes, demo = "context_timeout", context_timeoutOK
  PROVE  SomebodyGoes
<1>1. Goroutines = {"main", "ctx"} \cup Gophers
  BY context_timeoutCode
<1>2. gpc["ctx"] \in {1, 2} => CanGo("ctx")
  BY AlwaysGoes, context_timeoutCode
<1>3. gpc["ctx"] = 3 /\ gpc["main"] = 1 => CanGo("main")
  BY RecvGoes, context_timeoutCode DEF context_timeoutOK
<1>4. gpc["main"] = 2 => CanGo("main")
  BY AlwaysGoes, context_timeoutCode
<1>5. gpc["main"] = 3 => Terminated("main")
  BY context_timeoutCode
<1> QED
  BY <1>1, <1>2, <1>3, <1>4, <1>5 DEF SomebodyGoes, context_timeoutOK

(***************************************************************************)
(* workerpool: a worker only stops once the channel is closed, which main  *)
(* does when everything has been sent.                                     *)
(***************************************************************************)
workerpoolOK ==
  /\ gpc["main"] \in 1 .. Rounds + 3 /\ (\A h \in Gophers : gpc[h] \in 1..2) /\ ~raced
  /\ chan["in"].n \in 0..2
  /\ chan["in"].closed <=> gpc["main"] > Rounds + 1
  /\ \A h \in Gophers : gpc[h] = 2 => gpc["main"] > Rounds + 1

LEMMA workerpoolCode ==
  ASSUME GoTypes, demo = "workerpool"
  PROVE  /\ Goroutines = {"main"} \cup Gophers /\ Channels = {"in"} /\ Cap("in") = 2
         /\ Terminated("main") <=> gpc["main"] > Rounds + 2
         /\ gpc["main"] \in 1 .. Rounds => Alts("main") = {Alt("send", "in", 1, 0)}
         /\ gpc["main"] = Rounds + 1 => Alts("main") = {Alt("close", "in", 1, 0)}
         /\ gpc["main"] = Rounds + 2 => Alts("main") = {Alt("time", "none", 1, 0)}
         /\ \A h \in Gophers :
              /\ Terminated(h) <=> gpc[h] > 1
              /\ gpc[h] = 1 => Alts(h) = {Alt("recv", "in", 0, 1)}
<1> DEFINE main == Times(Rounds, <<Send("in")>>) \o <<Close("in"), Time>>
           worker == <<RangeOver("in")>>
<1>1. Demos[demo].cap = [in |-> 2] /\ Demos[demo].code = With(main, Each(worker))
  BY DemoIs DEF workerpool
<1>2. Channels = {"in"} /\ Cap("in") = 2
  BY <1>1 DEF Channels, Cap
<1>3. Len(worker) = 1 /\ worker[1] = RangeOver("in")
  OBVIOUS
<1>4. /\ Rounds \in Nat /\ Len(main) = Rounds + 2
      /\ \A k \in 1 .. Rounds : main[k] = Send("in")
      /\ main[Rounds + 1] = Close("in") /\ main[Rounds + 2] = Time
  <2>1. Rounds \in Nat
    BY GoroutinesAssumption
  <2>2. LoopThenTwo(main, Rounds, Send("in"), Close("in"), Time)
    BY <2>1, RepeatThenTwoIs
  <2> QED
    BY <2>1, <2>2 DEF LoopThenTwo
<1> HIDE DEF main, worker
<1>5. /\ Goroutines = {"main"} \cup Gophers /\ Code("main") = main
      /\ \A h \in Gophers : Code(h) = worker
  BY <1>1, EachIs
<1>6. gpc["main"] \in Nat /\ \A h \in Gophers : gpc[h] \in Nat
  BY <1>5 DEF GoTypes
<1>7. /\ Terminated("main") <=> gpc["main"] > Rounds + 2
      /\ gpc["main"] <= Rounds + 2 => Alts("main") = main[gpc["main"]]
  BY <1>4, <1>5, <1>6, InstructionIs
<1>8. \A h \in Gophers :
        /\ Terminated(h) <=> gpc[h] > 1
        /\ gpc[h] <= 1 => Alts(h) = worker[gpc[h]]
  BY <1>3, <1>5, <1>6, InstructionIs
<1>9. /\ gpc["main"] \in 1 .. Rounds => Alts("main") = {Alt("send", "in", 1, 0)}
      /\ gpc["main"] = Rounds + 1 => Alts("main") = {Alt("close", "in", 1, 0)}
      /\ gpc["main"] = Rounds + 2 => Alts("main") = {Alt("time", "none", 1, 0)}
  BY <1>4, <1>6, <1>7 DEF Send, Close, Time
<1>10. \A h \in Gophers : gpc[h] = 1 => Alts(h) = {Alt("recv", "in", 0, 1)}
  BY <1>3, <1>8 DEF RangeOver
<1> QED
  BY <1>2, <1>5, <1>7, <1>8, <1>9, <1>10

LEMMA workerpoolSteps ==
  ASSUME GoTypes, demo = "workerpool", workerpoolOK, GoNext
  PROVE  GoTypes' /\ workerpoolOK'
<1>1. /\ Goroutines = {"main"} \cup Gophers /\ Channels = {"in"} /\ Cap("in") = 2 /\ demo' = demo
      /\ Rounds \in Nat /\ gpc["main"] \in 1 .. Rounds + 2
      /\ "main" \in Goroutines /\ \A h \in Gophers : h \in Goroutines /\ h # "main"
  BY workerpoolCode, NextIs, GoroutinesAssumption DEF workerpoolOK
<1>2. PICK g \in Goroutines : \E a \in Alts(g) : Act(g, a)
  BY NextIs
<1>3. PICK a \in Alts(g) : Act(g, a)
  BY <1>2
<1>4. CASE g = "main" /\ gpc["main"] \in 1 .. Rounds
  <2>1. a = Alt("send", "in", 1, 0)
    BY <1>3, <1>4, workerpoolCode
  <2>2. /\ chan["in"].n < 2 /\ Becomes("in", chan["in"].n + 1, chan["in"].closed)
        /\ Moves("main", 1) /\ Same
    BY <1>1, <1>3, <1>4, <2>1, Sends
  <2>3. GoTypes' /\ gpc'["main"] = gpc["main"] + 1 /\ \A h \in Gophers : gpc'[h] = gpc[h]
    BY <1>1, <2>2, TypesStay DEF Moves
  <2> QED
    BY <1>1, <1>4, <2>2, <2>3 DEF workerpoolOK, Same, Becomes
<1>5. CASE g = "main" /\ gpc["main"] = Rounds + 1
  <2>1. a = Alt("close", "in", 1, 0)
    BY <1>3, <1>5, workerpoolCode
  <2>2. Becomes("in", chan["in"].n, TRUE) /\ Moves("main", 1) /\ Same
    BY <1>1, <1>3, <1>5, <2>1, ClosesIt
  <2>3. GoTypes' /\ gpc'["main"] = gpc["main"] + 1 /\ \A h \in Gophers : gpc'[h] = gpc[h]
    BY <1>1, <2>2, TypesStay DEF Moves
  <2> QED
    BY <1>1, <1>5, <2>2, <2>3 DEF workerpoolOK, Same, Becomes
<1>6. CASE g = "main" /\ gpc["main"] = Rounds + 2
  <2>1. a = Alt("time", "none", 1, 0)
    BY <1>3, <1>6, workerpoolCode
  <2>2. Moves("main", 1) /\ chan' = chan /\ Same
    BY <1>1, <1>3, <1>6, <2>1, Passes
  <2>3. GoTypes' /\ gpc'["main"] = gpc["main"] + 1 /\ \A h \in Gophers : gpc'[h] = gpc[h]
    BY <1>1, <2>2, TypesStay DEF Moves
  <2> QED
    BY <1>1, <1>6, <2>2, <2>3 DEF workerpoolOK, Same
<1>7. CASE g \in Gophers /\ gpc[g] = 1
  <2>1. a = Alt("recv", "in", 0, 1)
    BY <1>3, <1>7, workerpoolCode
  <2>2. CASE chan["in"].n > 0
    <3>1. Becomes("in", chan["in"].n - 1, chan["in"].closed) /\ Moves(g, 0) /\ Same
      BY <1>1, <1>3, <2>1, <2>2, Receives
    <3>2. GoTypes'
      BY <1>1, <3>1, TypesStay DEF Moves
    <3>3. gpc'["main"] = gpc["main"] /\ \A h \in Gophers : gpc'[h] = gpc[h]
      <4>1. gpc[g] \in Nat /\ gpc'[g] = gpc[g] + 0
        BY <3>1 DEF Moves, GoTypes
      <4> QED
        BY <1>1, <1>7, <3>1, <4>1 DEF Moves
    <3> QED
      BY <1>1, <2>2, <3>1, <3>2, <3>3 DEF workerpoolOK, Same, Becomes
  <2>3. CASE chan["in"].n = 0
    <3>1. /\ chan["in"].closed /\ Becomes("in", chan["in"].n, chan["in"].closed)
          /\ Moves(g, 1) /\ Same
      BY <1>1, <1>3, <2>1, <2>3, Receives
    <3>2. GoTypes'
      BY <1>1, <3>1, TypesStay DEF Moves
    <3>3. gpc'["main"] = gpc["main"] /\ gpc'[g] = 2 /\ \A h \in Gophers \ {g} : gpc'[h] = gpc[h]
      BY <1>1, <1>7, <3>1 DEF Moves
    <3> QED
      BY <1>1, <1>7, <3>1, <3>2, <3>3 DEF workerpoolOK, Same, Becomes
  <2> QED
    BY <2>2, <2>3 DEF workerpoolOK
<1>8. g = "main" \/ (g \in Gophers /\ gpc[g] = 1)
  BY <1>1, <1>3, workerpoolCode DEF workerpoolOK, Alts
<1> QED
  BY <1>1, <1>4, <1>5, <1>6, <1>7, <1>8

LEMMA workerpoolGoes ==
  ASSUME GoTypes, demo = "workerpool", workerpoolOK
  PROVE  SomebodyGoes /\ TheOthersGo
<1>1. Goroutines = {"main"} \cup Gophers /\ Cap("in") = 2 /\ Rounds \in Nat
  BY workerpoolCode, GoroutinesAssumption
<1>2. gpc["main"] \in {Rounds + 1, Rounds + 2} => CanGo("main")
  BY AlwaysGoes, workerpoolCode
<1>3. gpc["main"] \in 1 .. Rounds /\ chan["in"].n < 2 => CanGo("main")
  BY <1>1, SendGoes, workerpoolCode
<1>4. \A h \in Gophers : gpc[h] = 1 /\ (chan["in"].n > 0 \/ chan["in"].closed) => CanGo(h)
  BY RecvGoes, workerpoolCode
<1>5. gpc["main"] \in 1 .. Rounds /\ chan["in"].n = 2 => \E h \in Gophers : CanGo(h)
  <2>1. PICK h \in Gophers : TRUE
    BY GoroutinesAssumption
  <2>2. gpc["main"] \in 1 .. Rounds => gpc[h] = 1
    BY <1>1 DEF workerpoolOK
  <2> QED
    BY <1>4, <2>2
<1>6. SomebodyGoes
  <2>1. \/ gpc["main"] \in 1 .. Rounds /\ (chan["in"].n < 2 \/ chan["in"].n = 2)
        \/ gpc["main"] \in {Rounds + 1, Rounds + 2} \/ gpc["main"] > Rounds + 2
    BY <1>1 DEF workerpoolOK
  <2>2. Terminated("main") \/ CanGo("main") \/ \E h \in Gophers : CanGo(h)
    BY <1>2, <1>3, <1>5, <2>1, workerpoolCode
  <2> QED
    BY <1>1, <2>2 DEF SomebodyGoes
<1>7. TheOthersGo
  <2>1. ASSUME Terminated("main"), NEW h \in Gophers
        PROVE  Terminated(h) \/ CanGo(h)
    <3>1. chan["in"].closed
      BY <1>1, <2>1, workerpoolCode DEF workerpoolOK
    <3> QED
      BY <1>4, <3>1, workerpoolCode DEF workerpoolOK
  <2> QED
    BY <1>1, <2>1, GoroutinesAssumption DEF TheOthersGo
<1> QED
  BY <1>6, <1>7

(***************************************************************************)
(* wait_2 and waitgroup: what main has taken and what the channel holds is *)
(* what the workers have put there.                                        *)
(***************************************************************************)
Waiting == demo \in {"wait_2", "waitgroup"}
Done == {h \in Gophers : gpc[h] = Rounds + 2}
WaitingOK ==
  /\ gpc["main"] \in 1 .. Cardinality(Gophers) + 2
  /\ (\A h \in Gophers : gpc[h] \in 1 .. Rounds + 2) /\ ~raced
  /\ ~chan["wg"].closed
  /\ chan["wg"].n + (IF gpc["main"] = 1 THEN 0 ELSE gpc["main"] - 2) = Cardinality(Done)

LEMMA SomeGophers == Cardinality(Gophers) \in Nat \ {0}
BY FS_CardinalityType, FS_EmptySet, GoroutinesAssumption

LEMMA WaitingCode ==
  ASSUME GoTypes, Waiting
  PROVE  /\ Goroutines = {"main"} \cup Gophers /\ Channels = {"wg"} /\ Cap("wg") = Cardinality(Gophers)
         /\ Terminated("main") <=> gpc["main"] > Cardinality(Gophers) + 1
         /\ gpc["main"] = 1 => Alts("main") = {Alt("time", "none", 1, 0)}
         /\ gpc["main"] \in 2 .. Cardinality(Gophers) + 1 => Alts("main") = {Alt("recv", "wg", 1, 1)}
         /\ \A h \in Gophers :
              /\ Terminated(h) <=> gpc[h] > Rounds + 1
              /\ gpc[h] \in 1 .. Rounds => Alts(h) = {Alt("time", "none", 1, 0)}
              /\ gpc[h] = Rounds + 1 => Alts(h) = {Alt("send", "wg", 1, 0)}
<1> DEFINE N == Cardinality(Gophers)
           main == <<Time>> \o Times(N, <<Recv("wg")>>)
           worker == Times(Rounds, <<Time>>) \o <<Send("wg")>>
<1>1. Demos[demo].cap = [wg |-> N] /\ Demos[demo].code = With(main, Each(worker))
  BY DemoIs DEF Waiting, wait_2, waitgroup
<1>2. Channels = {"wg"} /\ Cap("wg") = N
  BY <1>1 DEF Channels, Cap
<1>3. N \in Nat /\ Rounds \in Nat
  BY SomeGophers, GoroutinesAssumption
<1> HIDE DEF N
<1>4. Len(main) = N + 1 /\ main[1] = Time /\ \A k \in 2 .. N + 1 : main[k] = Recv("wg")
  BY <1>3, RepeatAfterIs DEF LoopAfter
<1>5. Len(worker) = Rounds + 1 /\ (\A k \in 1 .. Rounds : worker[k] = Time) /\ worker[Rounds + 1] = Send("wg")
  BY <1>3, RepeatThenIs DEF LoopThen
<1> HIDE DEF main, worker
<1>6. /\ Goroutines = {"main"} \cup Gophers /\ Code("main") = main
      /\ \A h \in Gophers : Code(h) = worker
  BY <1>1, EachIs
<1>7. gpc["main"] \in Nat /\ \A h \in Gophers : gpc[h] \in Nat
  BY <1>6 DEF GoTypes
<1>8. /\ Terminated("main") <=> gpc["main"] > N + 1
      /\ gpc["main"] <= N + 1 => Alts("main") = main[gpc["main"]]
  BY <1>3, <1>4, <1>6, <1>7, InstructionIs
<1>9. \A h \in Gophers :
        /\ Terminated(h) <=> gpc[h] > Rounds + 1
        /\ gpc[h] <= Rounds + 1 => Alts(h) = worker[gpc[h]]
  BY <1>3, <1>5, <1>6, <1>7, InstructionIs
<1>10. /\ gpc["main"] = 1 => Alts("main") = {Alt("time", "none", 1, 0)}
       /\ gpc["main"] \in 2 .. N + 1 => Alts("main") = {Alt("recv", "wg", 1, 1)}
  BY <1>3, <1>4, <1>7, <1>8 DEF Recv, Time
<1>11. \A h \in Gophers :
         /\ gpc[h] \in 1 .. Rounds => Alts(h) = {Alt("time", "none", 1, 0)}
         /\ gpc[h] = Rounds + 1 => Alts(h) = {Alt("send", "wg", 1, 0)}
  BY <1>3, <1>5, <1>7, <1>9 DEF Send, Time
<1> QED
  BY <1>2, <1>6, <1>8, <1>9, <1>10, <1>11 DEF N

LEMMA DoneIs ==
  /\ IsFiniteSet(Done) /\ Cardinality(Done) \in Nat /\ Cardinality(Done) <= Cardinality(Gophers)
  /\ Cardinality(Done) = Cardinality(Gophers) => Done = Gophers
BY FS_Subset, FS_CardinalityType, GoroutinesAssumption DEF Done

LEMMA WaitingSteps ==
  ASSUME GoTypes, Waiting, WaitingOK, GoNext
  PROVE  GoTypes' /\ WaitingOK'
<1> DEFINE N == Cardinality(Gophers)
<1>1. /\ Goroutines = {"main"} \cup Gophers /\ Channels = {"wg"} /\ Cap("wg") = N /\ demo' = demo
      /\ N \in Nat \ {0} /\ Rounds \in Nat /\ gpc["main"] \in 1 .. N + 1
      /\ "main" \in Goroutines /\ \A h \in Gophers : h \in Goroutines /\ h # "main"
  BY WaitingCode, NextIs, SomeGophers, GoroutinesAssumption DEF WaitingOK
<1>2. PICK g \in Goroutines : \E a \in Alts(g) : Act(g, a)
  BY NextIs
<1>3. PICK a \in Alts(g) : Act(g, a)
  BY <1>2
<1>4. CASE g = "main" /\ gpc["main"] = 1
  <2>1. a = Alt("time", "none", 1, 0)
    BY <1>3, <1>4, WaitingCode
  <2>2. Moves("main", 1) /\ chan' = chan /\ Same
    BY <1>1, <1>3, <1>4, <2>1, Passes
  <2>3. GoTypes' /\ gpc'["main"] = gpc["main"] + 1 /\ \A h \in Gophers : gpc'[h] = gpc[h]
    BY <1>1, <2>2, TypesStay DEF Moves
  <2>4. Done' = Done
    BY <2>3 DEF Done
  <2> QED
    BY <1>1, <1>4, <2>2, <2>3, <2>4 DEF WaitingOK, Same
<1>5. CASE g = "main" /\ gpc["main"] \in 2 .. N + 1
  <2>1. a = Alt("recv", "wg", 1, 1)
    BY <1>3, <1>5, WaitingCode
  <2>2. /\ chan["wg"].n > 0 /\ Becomes("wg", chan["wg"].n - 1, chan["wg"].closed)
        /\ Moves("main", 1) /\ Same
    BY <1>1, <1>3, <1>5, <2>1, Receives DEF WaitingOK
  <2>3. GoTypes' /\ gpc'["main"] = gpc["main"] + 1 /\ \A h \in Gophers : gpc'[h] = gpc[h]
    BY <1>1, <2>2, TypesStay DEF Moves
  <2>4. Done' = Done
    BY <2>3 DEF Done
  <2>5. chan["wg"].n \in Nat
    BY <1>1 DEF GoTypes
  <2> QED
    BY <1>1, <1>5, <2>2, <2>3, <2>4, <2>5, DoneIs DEF WaitingOK, Same, Becomes
<1>6. CASE g \in Gophers /\ gpc[g] \in 1 .. Rounds
  <2>1. a = Alt("time", "none", 1, 0)
    BY <1>3, <1>6, WaitingCode
  <2>2. Moves(g, 1) /\ chan' = chan /\ Same
    BY <1>1, <1>3, <2>1, Passes
  <2>3. GoTypes'
    BY <1>1, <2>2, TypesStay DEF Moves
  <2>4. /\ gpc'["main"] = gpc["main"] /\ \A h \in Gophers \ {g} : gpc'[h] = gpc[h]
        /\ gpc'[g] \in 1 .. Rounds + 1
    BY <1>1, <1>6, <2>2 DEF Moves
  <2>5. Done' = Done
    <3>1. gpc'[g] # Rounds + 2 /\ gpc[g] # Rounds + 2
      BY <1>1, <1>6, <2>4
    <3>2. \A h \in Gophers : gpc'[h] = Rounds + 2 <=> gpc[h] = Rounds + 2
      BY <2>4, <3>1
    <3> QED
      BY <3>2 DEF Done
  <2> QED
    BY <1>1, <1>6, <2>2, <2>3, <2>4, <2>5 DEF WaitingOK, Same
<1>7. CASE g \in Gophers /\ gpc[g] = Rounds + 1
  <2>1. a = Alt("send", "wg", 1, 0)
    BY <1>3, <1>7, WaitingCode
  <2>2. Becomes("wg", chan["wg"].n + 1, chan["wg"].closed) /\ Moves(g, 1) /\ Same
    BY <1>1, <1>3, <2>1, Sends
  <2>3. GoTypes'
    BY <1>1, <2>2, TypesStay DEF Moves
  <2>4. /\ gpc'["main"] = gpc["main"] /\ \A h \in Gophers \ {g} : gpc'[h] = gpc[h]
        /\ gpc'[g] = Rounds + 2
    BY <1>1, <1>7, <2>2 DEF Moves
  <2>5. Done' = Done \cup {g} /\ g \notin Done
    <3>1. gpc[g] # Rounds + 2
      BY <1>1, <1>7
    <3> QED
      BY <1>7, <2>4, <3>1 DEF Done
  <2>6. Cardinality(Done') = Cardinality(Done) + 1
    BY <2>5, DoneIs, FS_AddElement
  <2>7. chan["wg"].n \in Nat
    BY <1>1 DEF GoTypes
  <2> QED
    BY <1>1, <1>7, <2>2, <2>3, <2>4, <2>6, <2>7, DoneIs DEF WaitingOK, Same, Becomes
<1>8. g = "main" \/ (g \in Gophers /\ gpc[g] \in 1 .. Rounds + 1)
  BY <1>1, <1>3, WaitingCode DEF WaitingOK, Alts
<1> QED
  BY <1>1, <1>4, <1>5, <1>6, <1>7, <1>8

LEMMA WaitingGoes ==
  ASSUME GoTypes, Waiting, WaitingOK
  PROVE  SomebodyGoes /\ TheOthersGo
<1> DEFINE N == Cardinality(Gophers)
<1>1. /\ Goroutines = {"main"} \cup Gophers /\ Cap("wg") = N /\ Rounds \in Nat /\ N \in Nat \ {0}
      /\ chan["wg"].n \in Nat
  BY WaitingCode, SomeGophers, GoroutinesAssumption DEF GoTypes
<1>2. gpc["main"] = 1 => CanGo("main")
  BY AlwaysGoes, WaitingCode
<1>3. gpc["main"] \in 2 .. N + 1 /\ chan["wg"].n > 0 => CanGo("main")
  BY RecvGoes, WaitingCode
<1>4. gpc["main"] \in 2 .. N + 1 /\ chan["wg"].n = 0 => \E h \in Gophers : CanGo(h)
  <2> SUFFICES ASSUME gpc["main"] \in 2 .. N + 1, chan["wg"].n = 0
               PROVE  \E h \in Gophers : CanGo(h)
    OBVIOUS
  <2>1. Cardinality(Done) = gpc["main"] - 2
    BY <1>1, DoneIs DEF WaitingOK
  <2>2. Done # Gophers
    BY <1>1, <2>1
  <2>3. PICK h \in Gophers : gpc[h] \in 1 .. Rounds + 1
    BY <1>1, <2>2 DEF Done, WaitingOK
  <2>4. gpc[h] \in 1 .. Rounds => CanGo(h)
    BY AlwaysGoes, WaitingCode
  <2>5. gpc[h] = Rounds + 1 => CanGo(h)
    BY <1>1, SendGoes, WaitingCode
  <2> QED
    BY <1>1, <2>3, <2>4, <2>5
<1>5. gpc["main"] = N + 2 => \A h \in Gophers : gpc[h] = Rounds + 2
  BY <1>1, DoneIs DEF WaitingOK, Done
<1>6. SomebodyGoes
  <2>1. \/ gpc["main"] \in 2 .. N + 1 /\ (chan["wg"].n > 0 \/ chan["wg"].n = 0)
        \/ gpc["main"] = 1 \/ gpc["main"] > N + 1
    BY <1>1 DEF WaitingOK
  <2>2. Terminated("main") \/ CanGo("main") \/ \E h \in Gophers : CanGo(h)
    BY <1>2, <1>3, <1>4, <2>1, WaitingCode
  <2> QED
    BY <1>1, <2>2 DEF SomebodyGoes
<1>7. TheOthersGo
  BY <1>1, <1>5, WaitingCode DEF TheOthersGo, WaitingOK
<1> QED
  BY <1>6, <1>7

(***************************************************************************)
(* Programs without channels: nobody waits for anybody.                    *)
(***************************************************************************)
Started == \A g \in Goroutines : gpc[g] >= 1
Alone ==
  /\ "main" \in Goroutines
  /\ \A g \in Goroutines :
       \/ Terminated(g)
       \/ \E op \in {"time", "enter", "leave", "load", "store", "add"} : Alts(g) = {Alt(op, "none", 1, 0)}

LEMMA TheOpIs ==
  ASSUME NEW p, NEW q, {Alt(p, "none", 1, 0)} = {Alt(q, "none", 1, 0)}
  PROVE  p = q
<1>1. Alt(p, "none", 1, 0) = Alt(q, "none", 1, 0)
  OBVIOUS
<1> QED
  BY <1>1, AltIs

LEMMA AloneGoes == Alone => SomebodyGoes /\ TheOthersGo
<1> SUFFICES ASSUME Alone PROVE SomebodyGoes /\ TheOthersGo
  OBVIOUS
<1>1. \A g \in Goroutines : Terminated(g) \/ CanGo(g)
  <2> SUFFICES ASSUME NEW g \in Goroutines, ~Terminated(g) PROVE CanGo(g)
    OBVIOUS
  <2>1. PICK op \in {"time", "enter", "leave", "load", "store", "add"} : Alts(g) = {Alt(op, "none", 1, 0)}
    BY DEF Alone
  <2>2. Alt(op, "none", 1, 0) \in Alts(g)
    BY <2>1
  <2> QED
    BY <2>2, AlwaysGoes
<1>2. "main" \in Goroutines /\ (Terminated("main") \/ CanGo("main"))
  BY <1>1 DEF Alone
<1> QED
  BY <1>1, <1>2 DEF SomebodyGoes, TheOthersGo

LEMMA AloneSteps ==
  ASSUME GoTypes, Alone, GoNext
  PROVE  \E g \in Goroutines : \E op \in {"time", "enter", "leave", "load", "store", "add"} :
           /\ ~Terminated(g) /\ Alts(g) = {Alt(op, "none", 1, 0)}
           /\ GoTypes' /\ demo' = demo /\ Moves(g, 1)
           /\ op \notin {"enter", "leave"} => raced' = raced
           /\ op = "time" => counter' = counter
           /\ op = "add" => counter' = counter + 1
<1>1. PICK g \in Goroutines : \E a \in Alts(g) : Act(g, a)
  BY NextIs
<1>2. PICK a \in Alts(g) : Act(g, a)
  BY <1>1
<1>3. ~Terminated(g)
  BY <1>2 DEF Alts
<1>4. PICK op \in {"time", "enter", "leave", "load", "store", "add"} : Alts(g) = {Alt(op, "none", 1, 0)}
  BY <1>3 DEF Alone
<1>5. a = Alt(op, "none", 1, 0)
  BY <1>2, <1>4
<1>6. CASE op = "time"
  <2>1. Moves(g, 1) /\ chan' = chan /\ Same
    BY <1>2, <1>5, <1>6, Passes
  <2> QED
    BY <1>3, <1>4, <1>6, <2>1, NextIs, TypesStay DEF Same, Moves
<1>7. CASE op \in {"enter", "leave"}
  <2>1. Moves(g, 1) /\ chan' = chan
    BY <1>2, <1>5, <1>7, Touches
  <2> QED
    BY <1>3, <1>4, <1>7, <2>1, NextIs, TypesStay DEF Moves
<1>8. CASE op \in {"load", "store", "add"}
  <2>1. Moves(g, 1) /\ chan' = chan /\ raced' = raced /\ (op = "add" => counter' = counter + 1)
    BY <1>2, <1>5, <1>8, Counts
  <2> QED
    BY <1>3, <1>4, <1>8, <2>1, NextIs, TypesStay DEF Moves
<1> QED
  BY <1>4, <1>6, <1>7, <1>8

LEMMA race_1Code ==
  ASSUME GoTypes, demo = "race_1", Started
  PROVE  Alone
<1> DEFINE main == <<Time>> \o Count
           other == Times(Rounds, Count)
<1>1. Demos[demo].code = With(main, Each(other))
  BY DemoIs DEF race_1
<1>2. /\ Rounds \in Nat /\ Len(Count) = 2 /\ Count[1] = Op("enter") /\ Count[2] = Op("leave")
  BY GoroutinesAssumption DEF Count
<1>3. Len(main) = 3 /\ main[1] = Time /\ main[2] = Op("enter") /\ main[3] = Op("leave")
  BY DEF Count
<1>4. /\ Len(other) = Rounds * 2
      /\ \A k \in 1 .. Rounds * 2 : other[k] \in {Op("enter"), Op("leave")}
  <2>1. other = [k \in 1 .. Rounds * 2 |-> Count[((k - 1) % 2) + 1]]
    BY <1>2 DEF Times
  <2>2. \A k \in 1 .. Rounds * 2 : (k - 1) % 2 = 0 \/ (k - 1) % 2 = 1
    BY <1>2
  <2> HIDE DEF other
  <2>3. Len(other) = Rounds * 2
    BY <1>2, <2>1
  <2> QED
    BY <1>2, <2>1, <2>2, <2>3
<1> HIDE DEF main, other
<1>5. /\ Goroutines = {"main"} \cup Gophers /\ Code("main") = main
      /\ \A h \in Gophers : Code(h) = other
  BY <1>1, EachIs
<1>6. /\ gpc["main"] \in Nat /\ gpc["main"] >= 1
      /\ \A h \in Gophers : gpc[h] \in Nat /\ gpc[h] >= 1
  BY <1>5 DEF GoTypes, Started
<1>7. /\ Terminated("main") <=> gpc["main"] > 3
      /\ gpc["main"] <= 3 => Alts("main") = main[gpc["main"]]
  BY <1>3, <1>5, <1>6, InstructionIs
<1>8. Rounds * 2 \in Nat
  BY <1>2
<1>9. \A h \in Gophers :
        /\ Terminated(h) <=> gpc[h] > Rounds * 2
        /\ gpc[h] <= Rounds * 2 => Alts(h) = other[gpc[h]]
  BY <1>4, <1>5, <1>6, <1>8, InstructionIs
<1>10. ASSUME NEW h \in Gophers, ~Terminated(h)
       PROVE  Alts(h) = Op("enter") \/ Alts(h) = Op("leave")
  BY <1>4, <1>6, <1>8, <1>9, <1>10
<1>11. ~Terminated("main") => Alts("main") \in {Time, Op("enter"), Op("leave")}
  BY <1>3, <1>6, <1>7
<1> QED
  BY <1>5, <1>10, <1>11 DEF Alone, Time, Op

LEMMA atomic_1Code ==
  ASSUME GoTypes, demo = "atomic_1", Started
  PROVE  /\ Alone
         /\ \A g \in Goroutines : Alts(g) # {Alt("enter", "none", 1, 0)} /\ Alts(g) # {Alt("leave", "none", 1, 0)}
<1> DEFINE main == <<Time>>
           other == <<Op("load"), Op("store")>>
<1>1. Demos[demo].code = With(main, Each(other))
  BY DemoIs DEF atomic_1
<1>2. Len(main) = 1 /\ main[1] = Time /\ Len(other) = 2 /\ other[1] = Op("load") /\ other[2] = Op("store")
  OBVIOUS
<1> HIDE DEF main, other
<1>3. /\ Goroutines = {"main"} \cup Gophers /\ Code("main") = main
      /\ \A h \in Gophers : Code(h) = other
  BY <1>1, EachIs
<1>4. /\ gpc["main"] \in Nat /\ gpc["main"] >= 1
      /\ \A h \in Gophers : gpc[h] \in Nat /\ gpc[h] >= 1
  BY <1>3 DEF GoTypes, Started
<1>5. /\ Terminated("main") <=> gpc["main"] > 1
      /\ gpc["main"] <= 1 => Alts("main") = main[gpc["main"]]
  BY <1>2, <1>3, <1>4, InstructionIs
<1>6. \A h \in Gophers :
        /\ Terminated(h) <=> gpc[h] > 2
        /\ gpc[h] <= 2 => Alts(h) = other[gpc[h]]
  BY <1>2, <1>3, <1>4, InstructionIs
<1>7. (Terminated("main") /\ Alts("main") = {}) \/ Alts("main") = Time
  BY <1>2, <1>4, <1>5 DEF Alts
<1>8. \A h \in Gophers : (Terminated(h) /\ Alts(h) = {}) \/ Alts(h) = Op("load") \/ Alts(h) = Op("store")
  <2> SUFFICES ASSUME NEW h \in Gophers, ~Terminated(h)
               PROVE  Alts(h) = Op("load") \/ Alts(h) = Op("store")
    BY DEF Alts
  <2> QED
    BY <1>2, <1>4, <1>6
<1>9. \A g \in Goroutines :
        \/ Terminated(g) /\ Alts(g) = {}
        \/ \E op \in {"time", "load", "store"} : Alts(g) = {Alt(op, "none", 1, 0)}
  BY <1>3, <1>7, <1>8 DEF Time, Op
<1>10. \A op \in {"time", "load", "store"} :
         /\ {Alt(op, "none", 1, 0)} # {Alt("enter", "none", 1, 0)}
         /\ {Alt(op, "none", 1, 0)} # {Alt("leave", "none", 1, 0)}
  BY TheOpIs
<1>11. \A g \in Goroutines : Alts(g) # {Alt("enter", "none", 1, 0)} /\ Alts(g) # {Alt("leave", "none", 1, 0)}
  BY <1>9, <1>10
<1> QED
  BY <1>3, <1>9, <1>11 DEF Alone

(* Whoever has added has ended, and the other way round.                   *)
atomic_2OK ==
  /\ \A h \in Gophers : gpc[h] \in 1..2
  /\ counter = Cardinality({h \in Gophers : gpc[h] = 2})

LEMMA atomic_2Code ==
  ASSUME GoTypes, demo = "atomic_2", Started
  PROVE  /\ Alone /\ Goroutines = {"main"} \cup Gophers
         /\ ~Terminated("main") => Alts("main") = {Alt("time", "none", 1, 0)}
         /\ \A h \in Gophers : /\ Terminated(h) <=> gpc[h] > 1
                               /\ ~Terminated(h) => Alts(h) = {Alt("add", "none", 1, 0)}
<1> DEFINE main == <<Time>>
           other == <<Op("add")>>
<1>1. Demos[demo].code = With(main, Each(other))
  BY DemoIs DEF atomic_2
<1>2. Len(main) = 1 /\ main[1] = Time /\ Len(other) = 1 /\ other[1] = Op("add")
  OBVIOUS
<1> HIDE DEF main, other
<1>3. /\ Goroutines = {"main"} \cup Gophers /\ Code("main") = main
      /\ \A h \in Gophers : Code(h) = other
  BY <1>1, EachIs
<1>4. /\ gpc["main"] \in Nat /\ gpc["main"] >= 1
      /\ \A h \in Gophers : gpc[h] \in Nat /\ gpc[h] >= 1
  BY <1>3 DEF GoTypes, Started
<1>5. /\ Terminated("main") <=> gpc["main"] > 1
      /\ gpc["main"] <= 1 => Alts("main") = main[gpc["main"]]
  BY <1>2, <1>3, <1>4, InstructionIs
<1>6. \A h \in Gophers :
        /\ Terminated(h) <=> gpc[h] > 1
        /\ gpc[h] <= 1 => Alts(h) = other[gpc[h]]
  BY <1>2, <1>3, <1>4, InstructionIs
<1>7. ~Terminated("main") => Alts("main") = {Alt("time", "none", 1, 0)}
  BY <1>2, <1>4, <1>5 DEF Time
<1>8. \A h \in Gophers : ~Terminated(h) => Alts(h) = {Alt("add", "none", 1, 0)}
  BY <1>2, <1>4, <1>6 DEF Op
<1> QED
  BY <1>3, <1>6, <1>7, <1>8 DEF Alone

LEMMA StartedStays ==
  ASSUME GoTypes, Started, NEW g \in Goroutines, Moves(g, 1), demo' = demo
  PROVE  Started'
<1>1. Goroutines' = Goroutines
  BY DEF Goroutines
<1>2. \A h \in Goroutines : gpc[h] \in Nat /\ gpc[h] >= 1
  BY DEF GoTypes, Started
<1>3. gpc'[g] = gpc[g] + 1 /\ \A h \in Goroutines \ {g} : gpc'[h] = gpc[h]
  BY DEF Moves
<1> QED
  BY <1>1, <1>2, <1>3 DEF Started

LEMMA race_1Steps ==
  ASSUME GoTypes, demo = "race_1", Started, GoNext
  PROVE  GoTypes' /\ Started'
BY race_1Code, AloneSteps, StartedStays

LEMMA atomic_1Steps ==
  ASSUME GoTypes, demo = "atomic_1", Started, ~raced, GoNext
  PROVE  GoTypes' /\ Started' /\ ~raced'
<1>1. PICK g \in Goroutines : \E op \in {"time", "enter", "leave", "load", "store", "add"} :
        /\ Alts(g) = {Alt(op, "none", 1, 0)} /\ GoTypes' /\ demo' = demo /\ Moves(g, 1)
        /\ op \notin {"enter", "leave"} => raced' = raced
  BY atomic_1Code, AloneSteps
<1> QED
  BY <1>1, atomic_1Code, StartedStays

LEMMA atomic_2Steps ==
  ASSUME GoTypes, demo = "atomic_2", Started, atomic_2OK, ~raced, GoNext
  PROVE  GoTypes' /\ Started' /\ atomic_2OK' /\ ~raced'
<1> DEFINE Added == {h \in Gophers : gpc[h] = 2}
<1>1. PICK g \in Goroutines : \E op \in {"time", "enter", "leave", "load", "store", "add"} :
        /\ ~Terminated(g) /\ Alts(g) = {Alt(op, "none", 1, 0)}
        /\ GoTypes' /\ demo' = demo /\ Moves(g, 1)
        /\ op \notin {"enter", "leave"} => raced' = raced
        /\ op = "time" => counter' = counter
        /\ op = "add" => counter' = counter + 1
  BY atomic_2Code, AloneSteps
<1>2. PICK op \in {"time", "enter", "leave", "load", "store", "add"} :
        /\ ~Terminated(g) /\ Alts(g) = {Alt(op, "none", 1, 0)}
        /\ GoTypes' /\ demo' = demo /\ Moves(g, 1)
        /\ op \notin {"enter", "leave"} => raced' = raced
        /\ op = "time" => counter' = counter
        /\ op = "add" => counter' = counter + 1
  BY <1>1
<1>3. \A p, q : {Alt(p, "none", 1, 0)} = {Alt(q, "none", 1, 0)} => p = q
  BY TheOpIs
<1>4. /\ Goroutines = {"main"} \cup Gophers /\ "main" \notin Gophers
      /\ g = "main" => op = "time"
      /\ g \in Gophers => op = "add" /\ gpc[g] = 1
  BY <1>2, <1>3, atomic_2Code, GoroutinesAssumption DEF atomic_2OK
<1>5. GoTypes' /\ Started' /\ ~raced'
  BY <1>2, <1>4, StartedStays
<1>6. CASE g = "main"
  <2>1. \A h \in Gophers : gpc'[h] = gpc[h]
    BY <1>2, <1>4, <1>6 DEF Moves
  <2>2. Added' = Added /\ counter' = counter
    BY <1>2, <1>4, <1>6, <2>1
  <2> QED
    BY <1>5, <2>1, <2>2 DEF atomic_2OK
<1>7. CASE g \in Gophers
  <2>1. gpc'[g] = 2 /\ \A h \in Gophers \ {g} : gpc'[h] = gpc[h]
    BY <1>2, <1>4, <1>7 DEF Moves
  <2>2. Added' = Added \cup {g} /\ g \notin Added /\ counter' = counter + 1
    <3>1. gpc[g] # 2 /\ counter' = counter + 1
      BY <1>2, <1>4, <1>7
    <3> QED
      BY <1>7, <2>1, <3>1
  <2>3. IsFiniteSet(Added)
    BY FS_Subset, GoroutinesAssumption
  <2>4. Cardinality(Added') = Cardinality(Added) + 1
    BY <2>2, <2>3, FS_AddElement
  <2>5. \A h \in Gophers : gpc'[h] \in 1..2
    BY <2>1 DEF atomic_2OK
  <2> QED
    BY <1>5, <2>2, <2>4, <2>5 DEF atomic_2OK
<1> QED
  BY <1>4, <1>6, <1>7

(***************************************************************************)
(* race_2 and race_3: the goroutine that holds the mutex, and no other, is *)
(* where the code has it locked.  In race_3 main does not lock it.         *)
(***************************************************************************)
Mutexed == demo \in {"race_2", "race_3"}

(* How far a goroutine has got since it locked the mutex: 0 not at all.    *)
At(h) ==
  IF h = "main" THEN IF demo = "race_2" /\ gpc["main"] \in 3..5 THEN gpc["main"] - 2 ELSE 0
                ELSE (gpc[h] - 1) % 4

MutexOK ==
  /\ gpc["main"] \in 1..6 /\ \A h \in Gophers : gpc[h] \in 1 .. Rounds * 4 + 1
  /\ chan["mu"].n \in 0..1 /\ ~chan["mu"].closed
  /\ chan["mu"].n = 0 => \A h \in Goroutines : At(h) = 0
  /\ chan["mu"].n = 1 => \E h \in Goroutines : At(h) # 0
  /\ \A g, h \in Goroutines : At(g) # 0 /\ At(h) # 0 => g = h
  /\ demo = "race_2" => ~raced /\ \A h \in inMap : h \in Goroutines /\ At(h) = 2

LEMMA GuardedIs ==
  /\ Len(Guarded(Count)) = 4 /\ Guarded(Count)[1] = Send("mu") /\ Guarded(Count)[2] = Op("enter")
  /\ Guarded(Count)[3] = Op("leave") /\ Guarded(Count)[4] = Recv("mu")
BY DEF Guarded, Count

LEMMA GophersAre ==
  ASSUME GoTypes, Mutexed
  PROVE  /\ Goroutines = {"main"} \cup Gophers /\ Channels = {"mu"} /\ Cap("mu") = 1
         /\ \A h \in Gophers : Code(h) = Times(Rounds, Guarded(Count))
         /\ demo = "race_2" => Code("main") = <<Time>> \o Guarded(Count)
         /\ demo = "race_3" => Code("main") = <<Time>> \o Count
<1> DEFINE other == Times(Rounds, Guarded(Count))
           main_2 == <<Time>> \o Guarded(Count)
           main_3 == <<Time>> \o Count
<1>1. /\ Demos[demo].cap = [mu |-> 1]
      /\ demo = "race_2" => Demos[demo].code = With(main_2, Each(other))
      /\ demo = "race_3" => Demos[demo].code = With(main_3, Each(other))
  BY DemoIs DEF Mutexed, race_2, race_3
<1>2. Channels = {"mu"} /\ Cap("mu") = 1
  BY <1>1 DEF Channels, Cap
<1> HIDE DEF main_2, main_3, other
<1>3. CASE demo = "race_2"
  BY <1>1, <1>2, <1>3, EachIs DEF main_2, other
<1>4. CASE demo = "race_3"
  BY <1>1, <1>2, <1>4, EachIs DEF main_3, other
<1> QED
  BY <1>3, <1>4 DEF Mutexed

LEMMA LoopIs ==
  ASSUME GoTypes, Mutexed, NEW h \in Gophers, gpc[h] >= 1
  PROVE  /\ Terminated(h) <=> gpc[h] > Rounds * 4
         /\ At(h) \in 0..3
         /\ ~Terminated(h) =>
              /\ At(h) = 0 => Alts(h) = {Alt("send", "mu", 1, 0)}
              /\ At(h) = 1 => Alts(h) = {Alt("enter", "none", 1, 0)}
              /\ At(h) = 2 => Alts(h) = {Alt("leave", "none", 1, 0)}
              /\ At(h) = 3 => Alts(h) = {Alt("recv", "mu", 1, 1)}
<1> DEFINE other == Times(Rounds, Guarded(Count))
           p == (gpc[h] - 1) % 4
<1>1. /\ Rounds \in Nat /\ gpc[h] \in Nat /\ h # "main" /\ Code(h) = other
  BY GophersAre, GoroutinesAssumption DEF GoTypes
<1>2. p \in 0..3 /\ At(h) = p
  BY <1>1 DEF At
<1>3. other = [k \in 1 .. Rounds * 4 |-> Guarded(Count)[((k - 1) % 4) + 1]]
  BY GuardedIs DEF Times
<1> HIDE DEF other
<1>4. Rounds * 4 \in Nat /\ Len(other) = Rounds * 4
  BY <1>1, <1>3
<1>5. /\ Terminated(h) <=> gpc[h] > Rounds * 4
      /\ gpc[h] <= Rounds * 4 => Alts(h) = other[gpc[h]]
  BY <1>1, <1>4, InstructionIs
<1>6. ~Terminated(h) => Alts(h) = Guarded(Count)[p + 1]
  BY <1>1, <1>3, <1>4, <1>5
<1> HIDE DEF p
<1>7. ~Terminated(h) =>
        /\ p = 0 => Alts(h) = Send("mu")
        /\ p = 1 => Alts(h) = Op("enter")
        /\ p = 2 => Alts(h) = Op("leave")
        /\ p = 3 => Alts(h) = Recv("mu")
  BY <1>2, <1>6, GuardedIs
<1> QED
  BY <1>2, <1>5, <1>7 DEF Send, Op, Recv

LEMMA MutexMainIs ==
  ASSUME GoTypes, Mutexed, gpc["main"] \in 1..6
  PROVE  /\ demo = "race_2" =>
              /\ Terminated("main") <=> gpc["main"] > 5
              /\ gpc["main"] = 1 => Alts("main") = {Alt("time", "none", 1, 0)}
              /\ gpc["main"] = 2 => Alts("main") = {Alt("send", "mu", 1, 0)}
              /\ gpc["main"] = 3 => Alts("main") = {Alt("enter", "none", 1, 0)}
              /\ gpc["main"] = 4 => Alts("main") = {Alt("leave", "none", 1, 0)}
              /\ gpc["main"] = 5 => Alts("main") = {Alt("recv", "mu", 1, 1)}
         /\ demo = "race_3" =>
              /\ Terminated("main") <=> gpc["main"] > 3
              /\ gpc["main"] = 1 => Alts("main") = {Alt("time", "none", 1, 0)}
              /\ gpc["main"] = 2 => Alts("main") = {Alt("enter", "none", 1, 0)}
              /\ gpc["main"] = 3 => Alts("main") = {Alt("leave", "none", 1, 0)}
<1>0. gpc["main"] \in Nat
  OBVIOUS
<1>1. CASE demo = "race_2"
  <2> DEFINE main == <<Time>> \o Guarded(Count)
  <2>1. Code("main") = main
    BY <1>1, GophersAre
  <2>2. /\ Len(main) = 5 /\ main[1] = Time /\ main[2] = Send("mu") /\ main[3] = Op("enter")
        /\ main[4] = Op("leave") /\ main[5] = Recv("mu")
    BY DEF Guarded, Count
  <2> HIDE DEF main
  <2>3. /\ Terminated("main") <=> gpc["main"] > 5
        /\ gpc["main"] <= 5 => Alts("main") = main[gpc["main"]]
    BY <2>1, <2>2, <1>0, InstructionIs
  <2> QED
    BY <1>1, <2>2, <2>3 DEF Time, Send, Op, Recv
<1>2. CASE demo = "race_3"
  <2> DEFINE main == <<Time>> \o Count
  <2>1. Code("main") = main
    BY <1>2, GophersAre
  <2>2. Len(main) = 3 /\ main[1] = Time /\ main[2] = Op("enter") /\ main[3] = Op("leave")
    BY DEF Count
  <2> HIDE DEF main
  <2>3. /\ Terminated("main") <=> gpc["main"] > 3
        /\ gpc["main"] <= 3 => Alts("main") = main[gpc["main"]]
    BY <2>1, <2>2, <1>0, InstructionIs
  <2> QED
    BY <1>2, <2>2, <2>3 DEF Time, Op
<1> QED
  BY <1>1, <1>2 DEF Mutexed

(* A step takes a goroutine on by one; the others stay where they are.     *)
LEMMA MutexMoves ==
  ASSUME GoTypes, Mutexed, MutexOK, NEW g \in Goroutines, ~Terminated(g), Moves(g, 1), demo' = demo
  PROVE  /\ gpc'["main"] \in 1..6 /\ \A h \in Gophers : gpc'[h] \in 1 .. Rounds * 4 + 1
         /\ \A h \in Goroutines \ {g} : At(h)' = At(h)
         /\ g \in Gophers => At(g)' = (IF At(g) = 3 THEN 0 ELSE At(g) + 1)
         /\ g = "main" /\ demo = "race_2" =>
              At(g)' = (CASE gpc["main"] = 2 -> 1 [] gpc["main"] = 3 -> 2 [] gpc["main"] = 4 -> 3
                          [] OTHER -> 0)
         /\ g = "main" /\ demo = "race_3" => At(g)' = 0
<1>1. /\ Goroutines = {"main"} \cup Gophers /\ "main" \notin Gophers /\ Rounds \in Nat
      /\ gpc["main"] \in 1..6 /\ \A h \in Gophers : gpc[h] \in 1 .. Rounds * 4 + 1
  BY GophersAre, GoroutinesAssumption DEF MutexOK
<1>2. gpc'[g] = gpc[g] + 1 /\ \A h \in Goroutines \ {g} : gpc'[h] = gpc[h]
  BY DEF Moves
<1>3. gpc'["main"] \in 1..6
  BY <1>1, <1>2, MutexMainIs DEF Mutexed
<1>4. \A h \in Gophers : gpc'[h] \in 1 .. Rounds * 4 + 1
  <2>1. CASE g \in Gophers
    <3>1. gpc[g] \in 1 .. Rounds * 4
      BY <1>1, <2>1, LoopIs
    <3>2. gpc'[g] \in 1 .. Rounds * 4 + 1
      BY <1>1, <1>2, <3>1
    <3> QED
      BY <1>1, <1>2, <3>2
  <2>2. CASE g = "main"
    BY <1>1, <1>2, <2>2
  <2> QED
    BY <1>1, <2>1, <2>2
<1>5. \A h \in Goroutines \ {g} : At(h)' = At(h)
  BY <1>1, <1>2 DEF At
<1>6. ASSUME g \in Gophers
      PROVE  At(g)' = (IF At(g) = 3 THEN 0 ELSE At(g) + 1)
  <2>1. g # "main" /\ gpc[g] \in Nat /\ gpc[g] >= 1
    BY <1>1, <1>6
  <2>2. At(g) = (gpc[g] - 1) % 4 /\ At(g)' = ((gpc[g] + 1) - 1) % 4
    BY <1>2, <2>1 DEF At
  <2> QED
    BY <2>1, <2>2
<1>7. /\ g = "main" /\ demo = "race_2" =>
           At(g)' = (CASE gpc["main"] = 2 -> 1 [] gpc["main"] = 3 -> 2 [] gpc["main"] = 4 -> 3
                       [] OTHER -> 0)
      /\ g = "main" /\ demo = "race_3" => At(g)' = 0
  BY <1>1, <1>2 DEF At
<1> QED
  BY <1>3, <1>4, <1>5, <1>6, <1>7

(* What a step does, by where the goroutine is.                            *)
MutexStep(g) ==
  /\ GoTypes' /\ demo' = demo
  /\ gpc'["main"] \in 1..6 /\ \A h \in Gophers : gpc'[h] \in 1 .. Rounds * 4 + 1
  /\ \A h \in Goroutines \ {g} : At(h)' = At(h)
  /\ ~chan'["mu"].closed
  /\ \/ /\ At(g) = 0 /\ At(g)' = 1 /\ chan["mu"].n < 1 /\ chan'["mu"].n = chan["mu"].n + 1
        /\ inMap' = inMap /\ raced' = raced
     \/ /\ At(g) = 1 /\ At(g)' = 2 /\ chan' = chan
        /\ inMap' = inMap \cup {g} /\ (raced' <=> raced \/ inMap # {})
     \/ /\ At(g) = 2 /\ At(g)' = 3 /\ chan' = chan
        /\ inMap' = inMap \ {g} /\ raced' = raced
     \/ /\ At(g) = 3 /\ At(g)' = 0 /\ chan["mu"].n > 0 /\ chan'["mu"].n = chan["mu"].n - 1
        /\ inMap' = inMap /\ raced' = raced
     \/ /\ At(g) = 0 /\ At(g)' = 0 /\ chan' = chan
        /\ demo = "race_2" => inMap' = inMap /\ raced' = raced

LEMMA MutexSteps ==
  ASSUME GoTypes, Mutexed, MutexOK, GoNext
  PROVE  \E g \in Goroutines : MutexStep(g)
<1>1. PICK g \in Goroutines : \E a \in Alts(g) : Act(g, a)
  BY NextIs
<1>2. PICK a \in Alts(g) : Act(g, a)
  BY <1>1
<1>3. /\ ~Terminated(g) /\ ~Terminated("main") /\ demo' = demo
      /\ Goroutines = {"main"} \cup Gophers /\ Channels = {"mu"} /\ "mu" \in Channels /\ Cap("mu") # 0 /\ Cap("mu") = 1
      /\ gpc["main"] \in 1..6 /\ "main" \notin Gophers
      /\ \A h \in Gophers : gpc[h] >= 1
      /\ ~chan["mu"].closed /\ chan["mu"].n \in 0..1
  BY <1>2, GophersAre, NextIs, GoroutinesAssumption DEF Alts, MutexOK
<1>4. CASE a = Alt("send", "mu", 1, 0) /\ At(g) = 0 /\ (Moves(g, 1) => At(g)' = 1)
  <2>1. /\ chan["mu"].n < 1 /\ Becomes("mu", chan["mu"].n + 1, chan["mu"].closed)
        /\ Moves(g, 1) /\ Same
    BY <1>2, <1>3, <1>4, Sends
  <2>2. GoTypes'
    BY <1>3, <2>1, TypesStay DEF Moves
  <2> QED
    BY <1>3, <1>4, <2>1, <2>2, MutexMoves DEF MutexStep, Becomes, Same
<1>5. CASE a = Alt("enter", "none", 1, 0) /\ At(g) = 1 /\ (Moves(g, 1) => At(g)' = 2)
  <2>1. Moves(g, 1) /\ chan' = chan /\ inMap' = inMap \cup {g} /\ (raced' <=> raced \/ inMap # {})
    BY <1>2, <1>5, Touches
  <2>2. GoTypes'
    BY <1>3, <2>1, TypesStay DEF Moves
  <2> QED
    BY <1>3, <1>5, <2>1, <2>2, MutexMoves DEF MutexStep
<1>6. CASE a = Alt("leave", "none", 1, 0) /\ At(g) = 2 /\ (Moves(g, 1) => At(g)' = 3)
  <2>1. Moves(g, 1) /\ chan' = chan /\ inMap' = inMap \ {g} /\ raced' = raced
    BY <1>2, <1>6, Touches
  <2>2. GoTypes'
    BY <1>3, <2>1, TypesStay DEF Moves
  <2> QED
    BY <1>3, <1>6, <2>1, <2>2, MutexMoves DEF MutexStep
<1>7. CASE a = Alt("recv", "mu", 1, 1) /\ At(g) = 3 /\ (Moves(g, 1) => At(g)' = 0)
  <2>1. /\ chan["mu"].n > 0 /\ Becomes("mu", chan["mu"].n - 1, chan["mu"].closed)
        /\ Moves(g, 1) /\ Same
    BY <1>2, <1>3, <1>7, Receives
  <2>2. GoTypes'
    BY <1>3, <2>1, TypesStay DEF Moves
  <2> QED
    BY <1>3, <1>7, <2>1, <2>2, MutexMoves DEF MutexStep, Becomes, Same
<1>8. CASE a = Alt("time", "none", 1, 0) /\ At(g) = 0 /\ (Moves(g, 1) => At(g)' = 0)
  <2>1. Moves(g, 1) /\ chan' = chan /\ Same
    BY <1>2, <1>8, Passes
  <2>2. GoTypes'
    BY <1>3, <2>1, TypesStay DEF Moves
  <2> QED
    BY <1>3, <1>8, <2>1, <2>2, MutexMoves DEF MutexStep, Same
<1>9. CASE /\ demo = "race_3" /\ a \in {Alt("enter", "none", 1, 0), Alt("leave", "none", 1, 0)}
           /\ At(g) = 0 /\ (Moves(g, 1) => At(g)' = 0)
  <2>1. Moves(g, 1) /\ chan' = chan
    BY <1>2, <1>9, Touches
  <2>2. GoTypes'
    BY <1>3, <2>1, TypesStay DEF Moves
  <2> QED
    BY <1>3, <1>9, <2>1, <2>2, MutexMoves DEF MutexStep
<1>10. CASE g \in Gophers
  <2>1. Moves(g, 1) => At(g)' = (IF At(g) = 3 THEN 0 ELSE At(g) + 1)
    BY <1>3, <1>10, MutexMoves
  <2>2. At(g) \in {0, 1, 2, 3}
    BY <1>3, <1>10, LoopIs
  <2>3. /\ At(g) = 0 => a = Alt("send", "mu", 1, 0)
        /\ At(g) = 1 => a = Alt("enter", "none", 1, 0)
        /\ At(g) = 2 => a = Alt("leave", "none", 1, 0)
        /\ At(g) = 3 => a = Alt("recv", "mu", 1, 1)
    BY <1>2, <1>3, <1>10, LoopIs
  <2> QED
    BY <1>4, <1>5, <1>6, <1>7, <2>1, <2>2, <2>3
<1>11. CASE g = "main" /\ demo = "race_2"
  <2>1. gpc["main"] \in {1, 2, 3, 4, 5}
    BY <1>3, <1>11, MutexMainIs
  <2>2. Moves(g, 1) =>
          At(g)' = (CASE gpc["main"] = 2 -> 1 [] gpc["main"] = 3 -> 2 [] gpc["main"] = 4 -> 3
                      [] OTHER -> 0)
    BY <1>3, <1>11, MutexMoves
  <2>3. At(g) = IF gpc["main"] \in 3..5 THEN gpc["main"] - 2 ELSE 0
    BY <1>11 DEF At
  <2>4. /\ gpc["main"] = 1 => a = Alt("time", "none", 1, 0)
        /\ gpc["main"] = 2 => a = Alt("send", "mu", 1, 0)
        /\ gpc["main"] = 3 => a = Alt("enter", "none", 1, 0)
        /\ gpc["main"] = 4 => a = Alt("leave", "none", 1, 0)
        /\ gpc["main"] = 5 => a = Alt("recv", "mu", 1, 1)
    BY <1>2, <1>3, <1>11, MutexMainIs
  <2> QED
    BY <1>4, <1>5, <1>6, <1>7, <1>8, <2>1, <2>2, <2>3, <2>4
<1>12. CASE g = "main" /\ demo = "race_3"
  <2>1. gpc["main"] \in {1, 2, 3}
    BY <1>3, <1>12, MutexMainIs
  <2>2. At(g) = 0 /\ (Moves(g, 1) => At(g)' = 0)
    BY <1>3, <1>12, MutexMoves DEF At
  <2>3. a \in {Alt("time", "none", 1, 0), Alt("enter", "none", 1, 0), Alt("leave", "none", 1, 0)}
    BY <1>2, <1>3, <1>12, <2>1, MutexMainIs
  <2> QED
    BY <1>8, <1>9, <1>12, <2>2, <2>3
<1> QED
  BY <1>3, <1>10, <1>11, <1>12 DEF Mutexed

LEMMA MutexStays ==
  ASSUME GoTypes, Mutexed, MutexOK, GoNext
  PROVE  GoTypes' /\ MutexOK'
<1>1. PICK g \in Goroutines : MutexStep(g)
  BY MutexSteps
<1>2. GoTypes' /\ Goroutines' = Goroutines /\ demo' = demo
  BY <1>1 DEF MutexStep, Goroutines
<1>3. /\ gpc'["main"] \in 1..6 /\ \A h \in Gophers : gpc'[h] \in 1 .. Rounds * 4 + 1
      /\ ~chan'["mu"].closed /\ \A h \in Goroutines \ {g} : At(h)' = At(h)
  BY <1>1 DEF MutexStep
<1>4. /\ chan["mu"].n \in 0..1
      /\ chan["mu"].n = 0 => \A h \in Goroutines : At(h) = 0
      /\ chan["mu"].n = 1 => \E h \in Goroutines : At(h) # 0
      /\ \A e, h \in Goroutines : At(e) # 0 /\ At(h) # 0 => e = h
      /\ demo = "race_2" => ~raced /\ \A h \in inMap : h \in Goroutines /\ At(h) = 2
  BY DEF MutexOK
<1> DEFINE HasMutex == /\ chan'["mu"].n \in 0..1
                       /\ chan'["mu"].n = 0 => \A h \in Goroutines : At(h)' = 0
                       /\ chan'["mu"].n = 1 => \E h \in Goroutines : At(h)' # 0
                       /\ \A e, h \in Goroutines : At(e)' # 0 /\ At(h)' # 0 => e = h
           Reading == demo = "race_2" => ~raced' /\ \A h \in inMap' : h \in Goroutines /\ At(h)' = 2
<1>5. ASSUME /\ At(g) = 0 /\ At(g)' = 1 /\ chan["mu"].n < 1 /\ chan'["mu"].n = chan["mu"].n + 1
             /\ inMap' = inMap /\ raced' = raced
      PROVE  HasMutex /\ Reading
  <2>1. chan["mu"].n = 0 /\ chan'["mu"].n = 1 /\ \A h \in Goroutines \ {g} : At(h)' = 0
    BY <1>3, <1>4, <1>5
  <2>2. HasMutex
    BY <1>5, <2>1
  <2>3. Reading
    BY <1>4, <1>5, <2>1
  <2> QED
    BY <2>2, <2>3
<1>6. ASSUME /\ At(g) \in {1, 2} /\ At(g)' \in {2, 3} /\ chan' = chan
             /\ \/ At(g) = 1 /\ At(g)' = 2 /\ inMap' = inMap \cup {g} /\ (raced' <=> raced \/ inMap # {})
                \/ At(g) = 2 /\ inMap' = inMap \ {g} /\ raced' = raced
      PROVE  HasMutex /\ Reading
  <2>1. \A h \in Goroutines : (At(h) # 0 => h = g) /\ (At(h)' # 0 => h = g)
    BY <1>3, <1>4, <1>6
  <2>2. HasMutex
    BY <1>3, <1>4, <1>6, <2>1
  <2>3. Reading
    BY <1>4, <1>6, <2>1
  <2> QED
    BY <2>2, <2>3
<1>7. ASSUME /\ At(g) = 3 /\ At(g)' = 0 /\ chan["mu"].n > 0 /\ chan'["mu"].n = chan["mu"].n - 1
             /\ inMap' = inMap /\ raced' = raced
      PROVE  HasMutex /\ Reading
  <2>1. chan'["mu"].n = 0 /\ \A h \in Goroutines : (At(h) # 0 => h = g) /\ At(h)' = 0
    BY <1>3, <1>4, <1>7
  <2>2. HasMutex
    BY <2>1
  <2>3. Reading
    BY <1>4, <1>7, <2>1
  <2> QED
    BY <2>2, <2>3
<1>8. ASSUME /\ At(g) = 0 /\ At(g)' = 0 /\ chan' = chan
             /\ demo = "race_2" => inMap' = inMap /\ raced' = raced
      PROVE  HasMutex /\ Reading
  <2>1. \A h \in Goroutines : At(h)' = At(h)
    BY <1>3, <1>8
  <2>2. HasMutex
    BY <1>4, <1>8, <2>1
  <2>3. Reading
    BY <1>4, <1>8, <2>1
  <2> QED
    BY <2>2, <2>3
<1>9. HasMutex /\ Reading
  BY <1>1, <1>5, <1>6, <1>7, <1>8 DEF MutexStep
<1> QED
  BY <1>2, <1>3, <1>9 DEF MutexOK

LEMMA MutexGoes ==
  ASSUME GoTypes, Mutexed, MutexOK
  PROVE  SomebodyGoes /\ TheOthersGo
<1>1. /\ Goroutines = {"main"} \cup Gophers /\ Cap("mu") = 1 /\ "main" \notin Gophers
      /\ gpc["main"] \in 1..6 /\ \A h \in Gophers : gpc[h] >= 1
      /\ chan["mu"].n \in {0, 1} /\ Rounds \in Nat
  BY GophersAre, GoroutinesAssumption DEF MutexOK
<1>2. ASSUME NEW h \in Gophers, At(h) # 0
      PROVE  CanGo(h)
  <2>1. ~Terminated(h)
    <3>1. gpc[h] \in 1 .. Rounds * 4 + 1 /\ At(h) = (gpc[h] - 1) % 4
      BY <1>1 DEF MutexOK, At
    <3>2. gpc[h] # Rounds * 4 + 1
      BY <1>1, <1>2, <3>1
    <3> QED
      BY <1>1, <3>1, <3>2, LoopIs
  <2>2. At(h) \in {1, 2, 3}
    BY <1>1, <1>2, LoopIs
  <2>3. At(h) = 1 => Alt("enter", "none", 1, 0) \in Alts(h)
    BY <1>1, <2>1, LoopIs
  <2>4. At(h) = 2 => Alt("leave", "none", 1, 0) \in Alts(h)
    BY <1>1, <2>1, LoopIs
  <2>5. At(h) = 3 => Alt("recv", "mu", 1, 1) \in Alts(h)
    BY <1>1, <2>1, LoopIs
  <2>6. chan["mu"].n > 0
    <3>1. h \in Goroutines
      BY <1>1
    <3>2. chan["mu"].n # 0
      BY <1>2, <3>1 DEF MutexOK
    <3> QED
      BY <1>1, <3>2
  <2> QED
    BY <2>2, <2>3, <2>4, <2>5, <2>6, AlwaysGoes, RecvGoes
<1>3. ASSUME NEW h \in Gophers, ~Terminated(h), chan["mu"].n = 0
      PROVE  CanGo(h)
  <2>1. At(h) = 0
    BY <1>1, <1>3 DEF MutexOK
  <2>2. Alt("send", "mu", 1, 0) \in Alts(h)
    BY <1>1, <1>3, <2>1, LoopIs
  <2> QED
    BY <1>1, <1>3, <2>2, SendGoes
<1>4. chan["mu"].n = 1 /\ At("main") = 0 => \E h \in Gophers : CanGo(h)
  BY <1>1, <1>2 DEF MutexOK
<1>5. Terminated("main") \/ CanGo("main") \/ \E h \in Gophers : CanGo(h)
  <2>1. CASE demo = "race_2"
    <3>1. gpc["main"] \in {1, 3, 4} => CanGo("main")
      BY <1>1, <2>1, MutexMainIs, AlwaysGoes
    <3>2. gpc["main"] = 2 /\ chan["mu"].n = 0 => CanGo("main")
      BY <1>1, <2>1, MutexMainIs, SendGoes
    <3>3. gpc["main"] = 2 => At("main") = 0
      BY DEF At
    <3>4. gpc["main"] = 5 => CanGo("main")
      <4>1. gpc["main"] = 5 => At("main") # 0
        BY <2>1 DEF At
      <4>2. gpc["main"] = 5 => chan["mu"].n > 0
        BY <1>1, <4>1 DEF MutexOK
      <4> QED
        BY <1>1, <2>1, <4>2, MutexMainIs, RecvGoes
    <3>5. gpc["main"] = 6 => Terminated("main")
      BY <1>1, <2>1, MutexMainIs
    <3> QED
      BY <1>1, <1>4, <3>1, <3>2, <3>3, <3>4, <3>5
  <2>2. CASE demo = "race_3"
    <3>1. gpc["main"] \in {1, 2, 3} => CanGo("main")
      BY <1>1, <2>2, MutexMainIs, AlwaysGoes
    <3>2. gpc["main"] > 3 => Terminated("main")
      BY <1>1, <2>2, MutexMainIs
    <3> QED
      BY <1>1, <3>1, <3>2
  <2> QED
    BY <2>1, <2>2 DEF Mutexed
<1>6. SomebodyGoes
  BY <1>1, <1>5 DEF SomebodyGoes
<1>7. TheOthersGo
  <2> SUFFICES ASSUME Terminated("main"), NEW g \in Gophers, ~Terminated(g)
               PROVE  \E h \in Gophers : CanGo(h)
    BY <1>1 DEF TheOthersGo
  <2>1. At("main") = 0
    BY <1>1, MutexMainIs DEF At
  <2> QED
    BY <1>1, <1>3, <1>4, <2>1
<1> QED
  BY <1>6, <1>7

(***************************************************************************)
(* All of them.                                                            *)
(***************************************************************************)
DemosOK ==
  /\ demo = "chan_1" => chan_1OK
  /\ demo = "chan_2" => chan_2OK
  /\ demo = "select_1" => select_1OK
  /\ demo = "select_2" => select_2OK
  /\ demo = "select_3" => select_3OK
  /\ demo = "wait_1" => wait_1OK
  /\ demo = "async_work" => async_workOK
  /\ demo = "timeout" => timeoutOK
  /\ demo = "context_cancel" => context_cancelOK
  /\ demo = "context_timeout" => context_timeoutOK
  /\ demo = "workerpool" => workerpoolOK
  /\ Waiting => WaitingOK
  /\ demo = "race_1" => Started
  /\ demo = "atomic_1" => Started /\ ~raced
  /\ demo = "atomic_2" => Started /\ atomic_2OK /\ ~raced
  /\ Mutexed => MutexOK
GoIInv == GoTypes /\ DemosOK

LEMMA DemosAre ==
  DOMAIN Demos = {"chan_1", "chan_2", "select_1", "select_2", "select_3", "wait_1", "wait_2", "waitgroup",
                  "async_work", "timeout", "context_cancel", "context_timeout", "workerpool",
                  "race_1", "race_2", "race_3", "atomic_1", "atomic_2"}
BY DEF Demos

LEMMA GoStarts == GoInit => GoIInv
<1> SUFFICES ASSUME GoInit PROVE GoIInv
  OBVIOUS
<1>1. /\ GoTypes /\ counter = 0 /\ ~raced /\ inMap = {}
      /\ \A g \in Goroutines : gpc[g] = 1
      /\ \A ch \in Channels : chan[ch].n = 0 /\ ~chan[ch].closed
  BY DEF GoInit, GoTypes, Channels
<1>2. Rounds \in Nat \ {0} /\ "main" \notin Gophers
  BY GoroutinesAssumption
<1>3. demo = "chan_1" => chan_1OK
  BY <1>1, chan_1Code DEF chan_1OK
<1>4. demo = "chan_2" => chan_2OK
  BY <1>1, <1>2, chan_2Code DEF chan_2OK
<1>5. demo = "select_1" => select_1OK
  BY <1>1, select_1Code DEF select_1OK
<1>6. demo = "select_2" => select_2OK
  BY <1>1, select_2Code DEF select_2OK
<1>7. demo = "select_3" => select_3OK
  BY <1>1, select_3Code DEF select_3OK
<1>8. demo = "wait_1" => wait_1OK
  BY <1>1, wait_1Code DEF wait_1OK
<1>9. demo = "async_work" => async_workOK
  BY <1>1, async_workCode DEF async_workOK
<1>10. demo = "timeout" => timeoutOK
  BY <1>1, timeoutCode DEF timeoutOK
<1>11. demo = "context_cancel" => context_cancelOK
  BY <1>1, context_cancelCode DEF context_cancelOK
<1>12. demo = "context_timeout" => context_timeoutOK
  BY <1>1, context_timeoutCode DEF context_timeoutOK
<1>13. demo = "workerpool" => workerpoolOK
  BY <1>1, <1>2, workerpoolCode DEF workerpoolOK
<1>14. Waiting => WaitingOK
  <2> SUFFICES ASSUME Waiting PROVE WaitingOK
    OBVIOUS
  <2>1. Goroutines = {"main"} \cup Gophers /\ Channels = {"wg"} /\ Cardinality(Gophers) \in Nat
    BY <1>1, WaitingCode, SomeGophers
  <2>2. gpc["main"] = 1 /\ \A h \in Gophers : gpc[h] = 1
    BY <1>1, <2>1
  <2>3. Done = {}
    BY <1>2, <2>2 DEF Done
  <2> QED
    BY <1>1, <1>2, <2>1, <2>2, <2>3, FS_EmptySet DEF WaitingOK
<1>15. Started
  BY <1>1 DEF Started
<1>16. demo = "atomic_2" => atomic_2OK
  <2> SUFFICES ASSUME demo = "atomic_2" PROVE atomic_2OK
    OBVIOUS
  <2>1. \A h \in Gophers : gpc[h] = 1
    BY <1>1, <1>15, atomic_2Code
  <2>2. {h \in Gophers : gpc[h] = 2} = {}
    BY <2>1
  <2> QED
    BY <1>1, <2>1, <2>2, FS_EmptySet DEF atomic_2OK
<1>17. Mutexed => MutexOK
  <2> SUFFICES ASSUME Mutexed PROVE MutexOK
    OBVIOUS
  <2>1. Goroutines = {"main"} \cup Gophers /\ Channels = {"mu"}
    BY <1>1, GophersAre
  <2>2. gpc["main"] = 1 /\ \A h \in Gophers : gpc[h] = 1
    BY <1>1, <2>1
  <2>3. \A h \in Goroutines : At(h) = 0
    BY <1>2, <2>1, <2>2 DEF At
  <2> QED
    BY <1>1, <1>2, <2>1, <2>2, <2>3 DEF MutexOK
<1> QED
  BY <1>1, <1>3, <1>4, <1>5, <1>6, <1>7, <1>8, <1>9, <1>10, <1>11, <1>12, <1>13, <1>14, <1>15,
     <1>16, <1>17 DEF GoIInv, DemosOK

LEMMA GoKeeps == GoIInv /\ [GoNext]_goVars => GoIInv'
<1> SUFFICES ASSUME GoIInv, [GoNext]_goVars PROVE GoIInv'
  OBVIOUS
<1>1. GoTypes /\ DemosOK
  BY DEF GoIInv
<1>2. CASE GoNext
  <2>1. demo' = demo
    BY <1>2, NextIs
  <2>2. demo = "chan_1" => GoTypes' /\ chan_1OK'
    BY <1>1, <1>2, chan_1Steps DEF DemosOK
  <2>3. demo = "chan_2" => GoTypes' /\ chan_2OK'
    BY <1>1, <1>2, chan_2Steps DEF DemosOK
  <2>4. demo # "select_1"
    BY <1>1, <1>2, select_1Steps DEF DemosOK
  <2>5. demo = "select_2" => GoTypes' /\ select_2OK'
    BY <1>1, <1>2, select_2Steps DEF DemosOK
  <2>6. demo = "select_3" => GoTypes' /\ select_3OK'
    BY <1>1, <1>2, select_3Steps DEF DemosOK
  <2>7. demo = "wait_1" => GoTypes' /\ wait_1OK'
    BY <1>1, <1>2, wait_1Steps DEF DemosOK
  <2>8. demo = "async_work" => GoTypes' /\ async_workOK'
    BY <1>1, <1>2, async_workSteps DEF DemosOK
  <2>9. demo = "timeout" => GoTypes' /\ timeoutOK'
    BY <1>1, <1>2, timeoutSteps DEF DemosOK
  <2>10. demo = "context_cancel" => GoTypes' /\ context_cancelOK'
    BY <1>1, <1>2, context_cancelSteps DEF DemosOK
  <2>11. demo = "context_timeout" => GoTypes' /\ context_timeoutOK'
    BY <1>1, <1>2, context_timeoutSteps DEF DemosOK
  <2>12. demo = "workerpool" => GoTypes' /\ workerpoolOK'
    BY <1>1, <1>2, workerpoolSteps DEF DemosOK
  <2>13. Waiting => GoTypes' /\ WaitingOK'
    BY <1>1, <1>2, WaitingSteps DEF DemosOK
  <2>14. demo = "race_1" => GoTypes' /\ Started'
    BY <1>1, <1>2, race_1Steps DEF DemosOK
  <2>15. demo = "atomic_1" => GoTypes' /\ Started' /\ ~raced'
    BY <1>1, <1>2, atomic_1Steps DEF DemosOK
  <2>16. demo = "atomic_2" => GoTypes' /\ Started' /\ atomic_2OK' /\ ~raced'
    BY <1>1, <1>2, atomic_2Steps DEF DemosOK
  <2>17. Mutexed => GoTypes' /\ MutexOK'
    BY <1>1, <1>2, MutexStays DEF DemosOK
  <2>18. GoTypes'
    BY <1>1, <2>2, <2>3, <2>4, <2>5, <2>6, <2>7, <2>8, <2>9, <2>10, <2>11, <2>12, <2>13, <2>14,
       <2>15, <2>16, <2>17, DemosAre DEF GoTypes, Waiting, Mutexed
  <2>19. (Waiting' <=> Waiting) /\ (Mutexed' <=> Mutexed)
    BY <2>1 DEF Waiting, Mutexed
  <2>20. DemosOK'
    BY <2>1, <2>2, <2>3, <2>4, <2>5, <2>6, <2>7, <2>8, <2>9, <2>10, <2>11, <2>12, <2>13, <2>14,
       <2>15, <2>16, <2>17, <2>19 DEF DemosOK
  <2> QED
    BY <2>18, <2>20 DEF GoIInv
<1>3. CASE UNCHANGED goVars
  <2>1. UNCHANGED <<demo, gpc, chan, counter, inMap, raced>>
    BY <1>3 DEF goVars
  <2>2. Goroutines' = Goroutines /\ Channels' = Channels
    BY <2>1 DEF Goroutines, Channels
  <2>3. GoTypes'
    BY <1>1, <2>1, <2>2 DEF GoTypes
  <2>4. /\ chan_1OK' = chan_1OK /\ chan_2OK' = chan_2OK /\ select_1OK' = select_1OK
        /\ select_2OK' = select_2OK /\ select_3OK' = select_3OK /\ wait_1OK' = wait_1OK
        /\ async_workOK' = async_workOK /\ timeoutOK' = timeoutOK
        /\ context_cancelOK' = context_cancelOK /\ context_timeoutOK' = context_timeoutOK
        /\ workerpoolOK' = workerpoolOK /\ atomic_2OK' = atomic_2OK
    BY <2>1 DEF chan_1OK, chan_2OK, select_1OK, select_2OK, select_3OK, wait_1OK, async_workOK,
                timeoutOK, context_cancelOK, context_timeoutOK, workerpoolOK, atomic_2OK
  <2>5. WaitingOK' = WaitingOK /\ Waiting' = Waiting /\ Mutexed' = Mutexed
    BY <2>1 DEF WaitingOK, Waiting, Done, Mutexed
  <2>6. Started' = Started
    BY <2>1, <2>2 DEF Started
  <2>7. \A h : At(h)' = At(h)
    BY <2>1 DEF At
  <2>8. MutexOK' = MutexOK
    BY <2>1, <2>2, <2>7 DEF MutexOK
  <2>9. DemosOK'
    BY <1>1, <2>1, <2>4, <2>5, <2>6, <2>8 DEF DemosOK
  <2> QED
    BY <2>3, <2>9 DEF GoIInv
<1> QED
  BY <1>2, <1>3

LEMMA GoShows == GoIInv => WrongAsShown
<1> SUFFICES ASSUME GoIInv PROVE WrongAsShown
  OBVIOUS
<1>1. GoTypes /\ DemosOK
  BY DEF GoIInv
<1>2. /\ demo \in {"chan_1", "chan_2", "select_2", "select_3", "wait_1", "async_work", "timeout",
                   "workerpool"} => SomebodyGoes /\ TheOthersGo
      /\ demo \in {"context_cancel", "context_timeout"} => SomebodyGoes
  BY <1>1, chan_1Goes, chan_2Goes, select_2Goes, select_3Goes, wait_1Goes, async_workGoes,
     timeoutGoes, workerpoolGoes, context_cancelGoes, context_timeoutGoes DEF DemosOK
<1>3. Waiting \/ Mutexed => SomebodyGoes /\ TheOthersGo
  BY <1>1, WaitingGoes, MutexGoes DEF DemosOK
<1>4. demo \in {"race_1", "atomic_1", "atomic_2"} => SomebodyGoes /\ TheOthersGo
  BY <1>1, race_1Code, atomic_1Code, atomic_2Code, AloneGoes DEF DemosOK
<1>5. demo = "select_1" => OnlySelect1Deadlocks /\ LateWorkersOnly
  BY <1>1, select_1Code DEF OnlySelect1Deadlocks, LateWorkersOnly
<1>6. demo \in {"context_cancel", "context_timeout"} => LateWorkersOnly
  BY DEF LateWorkersOnly
<1>7. OnlySelect1Deadlocks /\ LateWorkersOnly
  BY <1>1, <1>2, <1>3, <1>4, <1>5, <1>6, GoingOn, DemosAre DEF GoTypes, Waiting, Mutexed
<1>8. raced => demo \in {"race_1", "race_3"}
  BY <1>1, DemosAre DEF GoTypes, DemosOK, Waiting, Mutexed, chan_1OK, chan_2OK, select_1OK, select_2OK,
     select_3OK, wait_1OK, async_workOK, timeoutOK, context_cancelOK, context_timeoutOK, workerpoolOK,
     WaitingOK, MutexOK
<1>9. demo = "atomic_2" => counter = Cardinality({g \in Gophers : Terminated(g)})
  <2> SUFFICES ASSUME demo = "atomic_2" PROVE counter = Cardinality({g \in Gophers : Terminated(g)})
    OBVIOUS
  <2>1. Started /\ atomic_2OK
    BY <1>1 DEF DemosOK
  <2>2. \A g \in Gophers : gpc[g] \in 1..2 /\ (Terminated(g) <=> gpc[g] > 1)
    BY <1>1, <2>1, atomic_2Code DEF atomic_2OK
  <2>3. {g \in Gophers : Terminated(g)} = {h \in Gophers : gpc[h] = 2}
    BY <2>2
  <2> QED
    BY <2>1, <2>3 DEF atomic_2OK
<1> QED
  BY <1>7, <1>8, <1>9 DEF WrongAsShown, RacesWhereShown

(* Of the eighteen programs only select_1 stops with nobody able to go on, *)
(* only the two with a context leave goroutines behind for good, only      *)
(* race_1 and race_3 touch a map from two sides, and atomic_2 loses no     *)
(* increment: for any number of goroutines and any number of rounds.       *)
THEOREM TheDemosGoWrongAsShown == GoSpec => []WrongAsShown
<1>1. GoInit => GoIInv
  BY GoStarts
<1>2. GoIInv /\ [GoNext]_goVars => GoIInv'
  BY GoKeeps
<1>3. GoIInv => WrongAsShown
  BY GoShows
<1> QED
  BY <1>1, <1>2, <1>3, PTL DEF GoSpec

===============================================================================

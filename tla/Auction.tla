------------------------------- MODULE Auction -------------------------------
(***************************************************************************)
(* x/auction: forward, reverse and forward-reverse auctions.  The lot is   *)
(* escrowed in the module account from the start; a bid pays back the      *)
(* previous bidder and passes the improvement on at once, so the module    *)
(* account holds the lots and nothing else.                                *)
(*                                                                         *)
(* Messages are delivered while mode = "deliver".  EndBlocker closes the   *)
(* auctions that are due, one CloseAuction per step, while mode =          *)
(* "endblock"; nothing else happens in between.  An error of CloseAuction  *)
(* panics inside EndBlocker: the node stops (mode = "halted").             *)
(***************************************************************************)
EXTENDS Bank, Functions

CONSTANTS MaxAuctionDuration, \* params.MaxAuctionDuration, in blocks
          MaxBidDuration,     \* DefaultMaxBidDuration, in blocks
          BidAmounts,         \* bound: amounts a MsgPlaceBid may carry as bid
          LotAmounts,         \* bound: amounts a MsgPlaceBid may carry as lot
          Matching,           \* TRUE: bidders repeat the coin their phase does not negotiate
          Endowment,          \* genesis: coins of every user
          MaxAuctions,        \* bound: number of auctions ever started
          MaxHeight           \* bound: no message starts an auction after this height

VARIABLES auctions,           \* store "auctions:<id>", a function on the stored ids
          queue,              \* store "queue:<endTime>:<id>", a set of pairs
          nextAuctionID,
          height,             \* ctx.BlockHeight()
          mode

auctionVars == <<auctions, queue, nextAuctionID, height, mode>>

ASSUME AuctionAssumption ==
  /\ MaxAuctionDuration \in Nat \ {0}
  /\ MaxBidDuration \in Nat
  /\ BidAmounts \subseteq Nat
  /\ LotAmounts \subseteq Nat
  /\ Matching \in BOOLEAN
  /\ Endowment \in Nat
  /\ MaxAuctions \in Nat
  /\ MaxHeight \in Nat

AuctionTypes == {"forward", "reverse", "forwardReverse"}

\* Who takes part in an auction: people, and the liquidator as initiator.
Parties == Users \cup {LiquidatorModule}

\* Every type is stored as one record; maxBid and otherPerson are fields of
\* ForwardReverseAuction only, and are the bid and the initiator in the rest.
Auctions == [type        : AuctionTypes,
             initiator   : Parties,
             lot         : Coins,
             bidder      : Parties,
             bid         : Coins,
             endTime     : Nat,
             maxEndTime  : Nat,
             maxBid      : Coins,
             otherPerson : Parties]

AuctionTypeOK ==
  /\ DOMAIN auctions \subseteq Nat
  /\ auctions \in [DOMAIN auctions -> Auctions]
  /\ queue \subseteq Nat \X Nat
  /\ nextAuctionID \in Nat
  /\ height \in Nat
  /\ mode \in {"deliver", "endblock", "halted"}

AuctionInit ==
  /\ auctions = [id \in {} |-> {}]
  /\ queue = {}
  /\ nextAuctionID = 0
  /\ height = 0
  /\ mode = "deliver"

-----------------------------------------------------------------------------
(***************************************************************************)
(* The store.                                                              *)
(***************************************************************************)

\* Mutants: the old queue entry stays; the new one is not inserted on a move.
SetKeepsOldEntry(id, a) ==
  /\ auctions' = [i \in DOMAIN auctions \cup {id} |-> IF i = id THEN a ELSE auctions[i]]
  /\ queue' = queue \cup {<<a.endTime, id>>}

SetDropsEntry(id, a) ==
  /\ auctions' = [i \in DOMAIN auctions \cup {id} |-> IF i = id THEN a ELSE auctions[i]]
  /\ queue' = IF id \in DOMAIN auctions
                THEN queue \ {<<auctions[id].endTime, id>>}
                ELSE queue \cup {<<a.endTime, id>>}

\* SetAuction: store the auction and move its entry in the queue.
SetAuction(id, a) ==
  /\ auctions' = [i \in DOMAIN auctions \cup {id} |-> IF i = id THEN a ELSE auctions[i]]
  /\ queue' = (IF id \in DOMAIN auctions
                 THEN queue \ {<<auctions[id].endTime, id>>}
                 ELSE queue) \cup {<<a.endTime, id>>}

\* DeleteAuction: remove the auction and its entry in the queue.
DeleteAuction(id) ==
  /\ auctions' = [i \in DOMAIN auctions \ {id} |-> auctions[i]]
  /\ queue' = queue \ {<<auctions[id].endTime, id>>}

-----------------------------------------------------------------------------
(***************************************************************************)
(* Starting an auction.  The ledger b is the one left by the earlier calls *)
(* of the same transaction.                                                *)
(***************************************************************************)

NewAuction(type, initiator, lot, bid, maxBid, otherPerson) ==
  [type |-> type, initiator |-> initiator, lot |-> lot, bidder |-> initiator, bid |-> bid,
   endTime |-> height + MaxAuctionDuration, maxEndTime |-> height + MaxAuctionDuration,
   maxBid |-> maxBid, otherPerson |-> otherPerson]

StartAuction(b, a) ==
  /\ mode = "deliver"
  /\ nextAuctionID < MaxAuctions
  /\ height <= MaxHeight
  /\ CanSend(b, a.initiator, a.lot)
  /\ balance' = Send(b, a.initiator, AuctionModule, a.lot)
  /\ SetAuction(nextAuctionID, a)
  /\ nextAuctionID' = nextAuctionID + 1
  /\ UNCHANGED <<height, mode>>

StartForwardAuction(b, seller, lot, initialBid) ==
  StartAuction(b, NewAuction("forward", seller, lot, initialBid, initialBid, seller))

StartReverseAuction(b, buyer, bid, initialLot) ==
  StartAuction(b, NewAuction("reverse", buyer, initialLot, bid, bid, buyer))

StartForwardReverseAuction(b, seller, lot, maxBid, otherPerson) ==
  StartAuction(b, NewAuction("forwardReverse", seller, lot, Coin(maxBid.denom, 0),
                             maxBid, otherPerson))

-----------------------------------------------------------------------------
(***************************************************************************)
(* Bidding.  Coin.IsLT panics on different denominations, which aborts the *)
(* transaction just as an error does.                                      *)
(***************************************************************************)

IsLT(c1, c2)  == c1.denom = c2.denom /\ c1.amount < c2.amount
Minus(c1, c2) == Coin(c1.denom, c1.amount - c2.amount)

SmallerOf(m, n) == IF m < n THEN m ELSE n

\* keeper.PlaceBid after the auction type has decided: the bidder pays
\* `paid`, then the module account pays the previous bidder back, the
\* improvement to the initiator and the saved part of the lot to the other
\* person; the auction is stored with its new bidder, lot, bid and end time.
AcceptBid(id, bidder, lot, bid, paid, toInitiator, toOther) ==
  LET a  == auctions[id]
      b1 == Send(balance, bidder, AuctionModule, paid)
      b2 == Send(b1, AuctionModule, a.bidder, a.bid)
      b3 == Send(b2, AuctionModule, a.initiator, toInitiator)
      b4 == Send(b3, AuctionModule, a.otherPerson, toOther)
  IN  /\ CanSend(balance, bidder, paid)
      /\ CanSend(b1, AuctionModule, a.bid)
      /\ CanSend(b2, AuctionModule, toInitiator)
      /\ CanSend(b3, AuctionModule, toOther)
      /\ balance' = b4
      /\ SetAuction(id, [a EXCEPT !.bidder = bidder, !.lot = lot, !.bid = bid,
                                  !.endTime = SmallerOf(height + MaxBidDuration, a.maxEndTime)])

\* ForwardAuction.PlaceBid: the lot of the message is ignored.
PlaceForwardBid(id, bidder, lot, bid) ==
  LET a == auctions[id] IN
  /\ a.type = "forward"
  /\ IsLT(a.bid, bid)
  /\ AcceptBid(id, bidder, a.lot, bid, bid, Minus(bid, a.bid), Coin(a.lot.denom, 0))

\* ReverseAuction.PlaceBid: the bid of the message is ignored.
PlaceReverseBid(id, bidder, lot, bid) ==
  LET a == auctions[id] IN
  /\ a.type = "reverse"
  /\ IsLT(lot, a.lot)
  /\ AcceptBid(id, bidder, lot, a.bid, a.bid, Minus(a.lot, lot), Coin(a.lot.denom, 0))

\* ForwardReverseAuction.PlaceBid, one operator per phase.  Both the bid and
\* the lot of the message are stored, whichever the phase compares.
ForwardPhase(id, bidder, lot, bid) ==
  LET a == auctions[id] IN
  /\ a.type = "forwardReverse"
  /\ IsLT(a.bid, a.maxBid) /\ IsLT(bid, a.maxBid)
  /\ IsLT(a.bid, bid)
  /\ AcceptBid(id, bidder, lot, bid, bid, Minus(bid, a.bid), Coin(a.lot.denom, 0))

\* Mutant: the saved part of the lot is not paid out.
SwitchKeepsSavedLot(id, bidder, lot, bid) ==
  LET a == auctions[id] IN
  /\ a.type = "forwardReverse"
  /\ IsLT(a.bid, a.maxBid)
  /\ bid = a.maxBid
  /\ lot.denom = a.lot.denom /\ lot.amount <= a.lot.amount
  /\ AcceptBid(id, bidder, lot, bid, bid, Minus(bid, a.bid), Coin(a.lot.denom, 0))

SwitchPhase(id, bidder, lot, bid) ==
  LET a == auctions[id] IN
  /\ a.type = "forwardReverse"
  /\ IsLT(a.bid, a.maxBid)
  /\ bid = a.maxBid
  /\ lot.denom = a.lot.denom /\ lot.amount <= a.lot.amount   \* Coin.Sub panics otherwise
  /\ AcceptBid(id, bidder, lot, bid, bid, Minus(bid, a.bid), Minus(a.lot, lot))

ReversePhase(id, bidder, lot, bid) ==
  LET a == auctions[id] IN
  /\ a.type = "forwardReverse"
  /\ a.bid = a.maxBid
  /\ IsLT(lot, a.lot)
  /\ AcceptBid(id, bidder, lot, bid, a.bid, Coin(a.bid.denom, 0), Minus(a.lot, lot))

\* A bidder who repeats, in a forward-reverse auction, the coin that the
\* current phase does not compare.  The code does not ask for it.
RepeatsOtherCoin(a, lot, bid) ==
  a.type = "forwardReverse" =>
    /\ IsLT(a.bid, a.maxBid) /\ IsLT(bid, a.maxBid) => lot = a.lot
    /\ a.bid = a.maxBid => bid = a.bid

\* MsgPlaceBid.
PlaceBid(id, bidder, lot, bid) ==
  /\ mode = "deliver"
  /\ id \in DOMAIN auctions
  /\ height <= auctions[id].endTime
  /\ Matching => RepeatsOtherCoin(auctions[id], lot, bid)
  /\ \/ PlaceForwardBid(id, bidder, lot, bid)
     \/ PlaceReverseBid(id, bidder, lot, bid)
     \/ ForwardPhase(id, bidder, lot, bid)
     \/ SwitchPhase(id, bidder, lot, bid)
     \/ ReversePhase(id, bidder, lot, bid)
  /\ UNCHANGED <<supply, nextAuctionID, height, mode>>

HandleMsgPlaceBid ==
  \E id \in DOMAIN auctions, bidder \in Users, ld, bd \in Denoms :
    \E l \in LotAmounts, n \in BidAmounts :
      PlaceBid(id, bidder, Coin(ld, l), Coin(bd, n))

-----------------------------------------------------------------------------
(***************************************************************************)
(* EndBlocker.                                                             *)
(***************************************************************************)

\* Mutant: an auction that ends at this height is not due yet.
DueTooLate == {q \in queue : q[1] < height}

\* GetQueueIterator(height): the entries up to height, in key order.
Due == {q \in queue : q[1] <= height}
FirstDue(q) ==
  /\ q \in Due
  /\ \A r \in Due : q[1] < r[1] \/ (q[1] = r[1] /\ q[2] <= r[2])

BeginEndBlock ==
  /\ mode = "deliver"
  /\ mode' = "endblock"
  /\ UNCHANGED <<auctions, queue, nextAuctionID, height>>

\* The error returns of CloseAuction.
CanClose(id) ==
  /\ id \in DOMAIN auctions
  /\ height >= auctions[id].endTime
  /\ CanSend(balance, AuctionModule, auctions[id].lot)

\* CloseAuction: the lot goes to the last bidder.
CloseAuction(id) ==
  /\ CanClose(id)
  /\ balance' = Send(balance, AuctionModule, auctions[id].bidder, auctions[id].lot)
  /\ DeleteAuction(id)
  /\ UNCHANGED <<supply, nextAuctionID, height, mode>>

\* One iteration of the loop over the queue.
EndBlockerStep ==
  /\ mode = "endblock"
  /\ \E q \in Due :
       /\ FirstDue(q)
       /\ \/ CloseAuction(q[2])
          \/ /\ ~CanClose(q[2])
             /\ mode' = "halted"
             /\ UNCHANGED <<bankVars, auctions, queue, nextAuctionID, height>>

\* Commit, and the next block.  No auction is open past LastHeight, so the
\* clock stops there: the blocks go on, their heights no longer differ.
LastHeight == MaxHeight + MaxAuctionDuration + 1

NextBlock ==
  /\ mode = "endblock"
  /\ Due = {}
  /\ mode' = "deliver"
  /\ height' = SmallerOf(height + 1, LastHeight)
  /\ UNCHANGED <<bankVars, auctions, queue, nextAuctionID>>

-----------------------------------------------------------------------------
(***************************************************************************)
(* The module on its own.  The chain starts auctions through the           *)
(* liquidator only; here users call the three start functions of the       *)
(* keeper, which its tests do.                                             *)
(***************************************************************************)

StartByUser ==
  /\ \E u, o \in Users, l \in LotAmounts \ {0}, n \in BidAmounts :
       \/ StartForwardAuction(balance, u, Coin(StableDenom, l), Coin(GovDenom, n))
       \/ StartReverseAuction(balance, u, Coin(StableDenom, n), Coin(GovDenom, l))
       \/ StartForwardReverseAuction(balance, u, Coin(GovDenom, l), Coin(StableDenom, n), o)
  /\ UNCHANGED supply

EndBlocker ==
  \/ BeginEndBlock /\ UNCHANGED bankVars
  \/ EndBlockerStep
  \/ NextBlock

AuctionNext == StartByUser \/ HandleMsgPlaceBid \/ EndBlocker

\* Users hold coins of every denomination.
AuctionSystemInit ==
  /\ balance = [ad \in Accounts \X Denoms |-> IF ad[1] \in Users THEN Endowment ELSE 0]
  /\ supply = [d \in Denoms |-> SumFunctionOnSet(balance, Accounts \X {d})]
  /\ AuctionInit

AuctionSpec == AuctionSystemInit /\ [][AuctionNext]_<<bankVars, auctionVars>>

\* Blocks keep coming; nobody is obliged to bid.
FairAuctionSpec == AuctionSpec /\ WF_<<bankVars, auctionVars>>(EndBlocker)

-----------------------------------------------------------------------------
(***************************************************************************)
(* Properties.                                                             *)
(***************************************************************************)

\* The queue holds every stored auction at its current end time, and nothing
\* else: no auction is lost to EndBlocker and none is closed twice.
QueueMatchesAuctions == queue = {<<auctions[id].endTime, id>> : id \in DOMAIN auctions}

\* An id is used once, so SetAuction never overwrites a running auction.
IdsAreFresh == \A id \in DOMAIN auctions : id < nextAuctionID

\* A stored auction has not outlived its end time, and its end time never
\* exceeds the maximum set at its start, however often bids move it: an
\* auction is open for at most MaxAuctionDuration blocks, and the "auction
\* has closed" error of PlaceBid is never met.
ClosedInTime ==
  \A id \in DOMAIN auctions :
    /\ height <= auctions[id].endTime
    /\ auctions[id].endTime <= auctions[id].maxEndTime

\* The auction module account holds exactly the lots of the open auctions:
\* every bid is passed on at once, and the part of the lot a bid saves is paid
\* out when the bid is placed.
LotsEscrowed ==
  \A d \in Denoms :
    balance[<<AuctionModule, d>>] =
      SumFunction([id \in DOMAIN auctions |->
                     IF auctions[id].lot.denom = d THEN auctions[id].lot.amount ELSE 0])

\* EndBlocker never meets an auction it cannot close: "auctions close at the
\* end of the block with blockheight EndTime".  An error there stops the chain.
NeverHalts == mode # "halted"

\* The default branch of ForwardReverseAuction.PlaceBid, "should never be
\* reached": the standing bid of a forward-reverse auction never exceeds, nor
\* differs in denomination from, its maximum bid.
PhaseDetermined ==
  \A id \in DOMAIN auctions :
    auctions[id].type = "forwardReverse" =>
      \/ IsLT(auctions[id].bid, auctions[id].maxBid)
      \/ auctions[id].bid = auctions[id].maxBid

\* However bids moved it between its phases, an open auction can take its next
\* bid and be paid out at its end: it is in one phase, its lot is there, and
\* EndBlocker has not stopped at it.
AuctionsStayPayable == PhaseDetermined /\ LotsEscrowed /\ NeverHalts

\* Every auction that is started is eventually closed, though each bid may
\* move its end time.
AuctionsClose ==
  \A id \in 0..MaxAuctions - 1 : (id \in DOMAIN auctions) ~> (id \notin DOMAIN auctions)
=============================================================================

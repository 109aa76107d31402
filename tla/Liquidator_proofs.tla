-------------------------- MODULE Liquidator_proofs --------------------------
(***************************************************************************)
(* Theorems about the stable coin system: first x/auction, then the system *)
(* that composes it with x/csdt and x/liquidator.  The lemmas about        *)
(* auctions are about the actions and not about AuctionSpec, so that they  *)
(* serve for the whole system as well.                                     *)
(***************************************************************************)
EXTENDS Liquidator, Sums

-----------------------------------------------------------------------------
(***************************************************************************)
(* Auctions.                                                               *)
(***************************************************************************)

\* The inductive invariant: the queue must agree with the store for NextBlock
\* to know, from an empty set of due entries, that every auction left is open.
AuctionInv ==
  /\ AuctionTypeOK
  /\ QueueMatchesAuctions
  /\ IdsAreFresh
  /\ ClosedInTime

-----------------------------------------------------------------------------

\* The initial store is empty.
LEMMA AuctionInitInv == AuctionInit => AuctionInv
  BY DEF AuctionInit, AuctionInv, AuctionTypeOK, QueueMatchesAuctions, IdsAreFresh, ClosedInTime

\* SetAuction with an auction that is open at the current height.
LEMMA SetAuctionInv ==
  ASSUME AuctionInv,
         NEW id \in Nat, NEW a \in Auctions,
         height <= a.endTime, a.endTime <= a.maxEndTime,
         nextAuctionID' \in Nat, nextAuctionID <= nextAuctionID', id < nextAuctionID',
         SetAuction(id, a),
         UNCHANGED <<height, mode>>
  PROVE  AuctionInv'
<1> USE DEF AuctionInv, AuctionTypeOK
<1>1. /\ DOMAIN auctions' = DOMAIN auctions \cup {id}
      /\ auctions'[id] = a
      /\ \A i \in DOMAIN auctions \ {id} : auctions'[i] = auctions[i]
  BY DEF SetAuction
<1>2. AuctionTypeOK'
  <2>1. auctions' \in [DOMAIN auctions' -> Auctions]
    BY <1>1 DEF SetAuction
  <2>2. queue' \subseteq Nat \X Nat
    <3>1. a.endTime \in Nat
      BY DEF Auctions
    <3> QED BY <3>1 DEF SetAuction
  <2> QED BY <1>1, <2>1, <2>2
<1>3. QueueMatchesAuctions'
  <2>1. ASSUME NEW q \in queue'
        PROVE  \E i \in DOMAIN auctions' : q = <<auctions'[i].endTime, i>>
    <3>1. CASE q = <<a.endTime, id>>
      BY <1>1, <3>1
    <3>2. CASE q # <<a.endTime, id>>
      <4>1. q \in queue
        BY <2>1, <3>2 DEF SetAuction
      <4>2. PICK i \in DOMAIN auctions : q = <<auctions[i].endTime, i>>
        BY <4>1 DEF QueueMatchesAuctions
      <4>3. i # id
        BY <2>1, <3>2, <4>2 DEF SetAuction
      <4> QED BY <1>1, <4>2, <4>3
    <3> QED BY <3>1, <3>2
  <2>2. ASSUME NEW i \in DOMAIN auctions'
        PROVE  <<auctions'[i].endTime, i>> \in queue'
    <3>1. CASE i = id
      BY <1>1, <3>1 DEF SetAuction
    <3>2. CASE i # id
      <4>1. i \in DOMAIN auctions /\ auctions'[i] = auctions[i]
        BY <1>1, <3>2
      <4>2. <<auctions[i].endTime, i>> \in queue
        BY <4>1 DEF QueueMatchesAuctions
      <4> QED BY <3>2, <4>1, <4>2 DEF SetAuction
    <3> QED BY <3>1, <3>2
  <2> QED BY <2>1, <2>2 DEF QueueMatchesAuctions
<1>4. IdsAreFresh'
  BY <1>1 DEF IdsAreFresh
<1>5. ClosedInTime'
  BY <1>1 DEF ClosedInTime
<1> QED BY <1>2, <1>3, <1>4, <1>5

\* The three start functions store an auction under a fresh id that is open
\* for MaxAuctionDuration blocks.
LEMMA StartAuctionInv ==
  ASSUME AuctionInv,
         NEW b, NEW type \in AuctionTypes, NEW u \in Parties, NEW o \in Parties,
         NEW lot \in Coins, NEW bid \in Coins, NEW maxBid \in Coins,
         StartAuction(b, NewAuction(type, u, lot, bid, maxBid, o))
  PROVE  AuctionInv'
<1> DEFINE a == NewAuction(type, u, lot, bid, maxBid, o)
<1>1. /\ a \in Auctions
      /\ height <= a.endTime
      /\ a.endTime <= a.maxEndTime
  BY AuctionAssumption DEF NewAuction, Auctions, AuctionInv, AuctionTypeOK
<1>2. /\ SetAuction(nextAuctionID, a)
      /\ nextAuctionID' = nextAuctionID + 1
      /\ UNCHANGED <<height, mode>>
  BY DEF StartAuction
<1>3. nextAuctionID \in Nat
  BY DEF AuctionInv, AuctionTypeOK
<1> HIDE DEF a
<1> QED BY <1>1, <1>2, <1>3, SetAuctionInv

\* A bid stores the auction with an end time between the current height and
\* the maximum end time.
LEMMA PlaceBidInv ==
  ASSUME AuctionInv, HandleMsgPlaceBid
  PROVE  AuctionInv'
<1>1. PICK id \in DOMAIN auctions, bidder \in Users, ld \in Denoms, bd \in Denoms,
           l \in LotAmounts, n \in BidAmounts :
             PlaceBid(id, bidder, Coin(ld, l), Coin(bd, n))
  BY DEF HandleMsgPlaceBid
<1> DEFINE lot == Coin(ld, l)
           bid == Coin(bd, n)
           e   == SmallerOf(height + MaxBidDuration, auctions[id].maxEndTime)
           A(x, y) == [auctions[id] EXCEPT !.bidder = bidder, !.lot = x, !.bid = y, !.endTime = e]
<1>2. lot \in Coins /\ bid \in Coins /\ bidder \in Parties
  BY AuctionAssumption DEF Coins, Coin, Parties
<1>3. /\ id \in Nat
      /\ id < nextAuctionID
      /\ auctions[id] \in Auctions
      /\ height \in Nat
      /\ nextAuctionID \in Nat
      /\ height <= auctions[id].maxEndTime
  BY DEF AuctionInv, AuctionTypeOK, IdsAreFresh, ClosedInTime, Auctions
<1>4. e \in Nat /\ height <= e /\ e <= auctions[id].maxEndTime
  BY <1>3, AuctionAssumption DEF SmallerOf, Auctions
<1>5. ASSUME NEW x \in Coins, NEW y \in Coins, SetAuction(id, A(x, y))
      PROVE  AuctionInv'
  <2>1. /\ A(x, y) \in Auctions
        /\ A(x, y).endTime = e
        /\ A(x, y).maxEndTime = auctions[id].maxEndTime
    BY <1>2, <1>3, <1>4 DEF Auctions
  <2>2. UNCHANGED <<nextAuctionID, height, mode>>
    BY <1>1 DEF PlaceBid
  <2> HIDE DEF A, e
  <2> QED BY <1>3, <1>4, <1>5, <2>1, <2>2, SetAuctionInv
<1>6. \E x, y \in Coins : SetAuction(id, A(x, y))
  <2>1. auctions[id].lot \in Coins /\ auctions[id].bid \in Coins
    BY <1>3 DEF Auctions
  <2>2. CASE PlaceForwardBid(id, bidder, lot, bid)
    BY <1>2, <2>1, <2>2 DEF PlaceForwardBid, AcceptBid
  <2>3. CASE PlaceReverseBid(id, bidder, lot, bid)
    BY <1>2, <2>1, <2>3 DEF PlaceReverseBid, AcceptBid
  <2>4. CASE ForwardPhase(id, bidder, lot, bid)
    BY <1>2, <2>4 DEF ForwardPhase, AcceptBid
  <2>5. CASE SwitchPhase(id, bidder, lot, bid)
    BY <1>2, <2>5 DEF SwitchPhase, AcceptBid
  <2>6. CASE ReversePhase(id, bidder, lot, bid)
    BY <1>2, <2>6 DEF ReversePhase, AcceptBid
  <2> QED BY <1>1, <2>2, <2>3, <2>4, <2>5, <2>6 DEF PlaceBid
<1> HIDE DEF A
<1> QED BY <1>5, <1>6

\* A step of EndBlocker removes an auction, or stops the chain.
LEMMA EndBlockerStepInv ==
  ASSUME AuctionInv, EndBlockerStep
  PROVE  AuctionInv'
<1> USE DEF AuctionInv, AuctionTypeOK
<1>1. PICK q \in Due : \/ CloseAuction(q[2])
                       \/ /\ mode' = "halted"
                          /\ UNCHANGED <<auctions, queue, nextAuctionID, height>>
  BY DEF EndBlockerStep
<1> DEFINE id == q[2]
<1>2. CASE CloseAuction(id)
  <2>1. /\ id \in DOMAIN auctions
        /\ DOMAIN auctions' = DOMAIN auctions \ {id}
        /\ \A i \in DOMAIN auctions' : auctions'[i] = auctions[i]
        /\ queue' = queue \ {<<auctions[id].endTime, id>>}
        /\ UNCHANGED <<nextAuctionID, height, mode>>
    BY <1>2 DEF CloseAuction, CanClose, DeleteAuction
  <2>2. AuctionTypeOK'
    BY <1>2, <2>1 DEF CloseAuction, DeleteAuction
  <2>3. QueueMatchesAuctions'
    <3> HIDE DEF id
    <3> QED BY <2>1 DEF QueueMatchesAuctions
  <2>4. IdsAreFresh' /\ ClosedInTime'
    BY <2>1 DEF IdsAreFresh, ClosedInTime
  <2> QED BY <2>2, <2>3, <2>4
<1>3. CASE mode' = "halted" /\ UNCHANGED <<auctions, queue, nextAuctionID, height>>
  BY <1>3 DEF QueueMatchesAuctions, IdsAreFresh, ClosedInTime
<1> QED BY <1>1, <1>2, <1>3

\* The next block starts only when no stored auction has reached its end.
LEMMA NextBlockInv ==
  ASSUME AuctionInv, NextBlock
  PROVE  AuctionInv'
<1> USE DEF AuctionInv, AuctionTypeOK
<1>1. UNCHANGED <<auctions, queue, nextAuctionID>> /\ mode' = "deliver" /\ Due = {}
  BY DEF NextBlock
<1>2. height' \in Nat /\ height' <= height + 1
  BY AuctionAssumption DEF NextBlock, SmallerOf, LastHeight
<1>3. ASSUME NEW id \in DOMAIN auctions
      PROVE  height < auctions[id].endTime
  <2>1. <<auctions[id].endTime, id>> \in queue
    BY DEF QueueMatchesAuctions
  <2>2. ~(auctions[id].endTime <= height)
    BY <1>1, <2>1 DEF Due
  <2> QED BY <2>2 DEF Auctions
<1>4. ClosedInTime'
  BY <1>1, <1>2, <1>3 DEF ClosedInTime, Auctions
<1> QED BY <1>1, <1>2, <1>4 DEF QueueMatchesAuctions, IdsAreFresh

\* The oracle's turn at the end of a block leaves the auctions alone.
LEMMA BeginEndBlockInv ==
  ASSUME AuctionInv, BeginEndBlock
  PROVE  AuctionInv'
  BY DEF BeginEndBlock, AuctionInv, AuctionTypeOK, QueueMatchesAuctions, IdsAreFresh, ClosedInTime

\* A step that leaves the auctions alone.
LEMMA AuctionStutterInv ==
  ASSUME AuctionInv, UNCHANGED auctionVars
  PROVE  AuctionInv'
  BY DEF auctionVars, AuctionInv, AuctionTypeOK, QueueMatchesAuctions, IdsAreFresh, ClosedInTime

-----------------------------------------------------------------------------
(***************************************************************************)
(* The ledger.                                                             *)
(***************************************************************************)

Ledgers == [Accounts \X Denoms -> Nat]

\* A payment the payer can afford leaves every balance a natural number, and
\* changes the balances of the payer and the payee only.
LEMMA SendLemma ==
  ASSUME NEW b \in Ledgers, NEW from \in Accounts, NEW to \in Accounts, NEW c \in Coins,
         CanSend(b, from, c)
  PROVE  /\ Send(b, from, to, c) \in Ledgers
         /\ \A a \in Accounts, d \in Denoms :
              a # from /\ a # to => Send(b, from, to, c)[<<a, d>>] = b[<<a, d>>]
         /\ \A a \in Accounts, d \in Denoms :
              d # c.denom => Send(b, from, to, c)[<<a, d>>] = b[<<a, d>>]
         /\ from # to => /\ Send(b, from, to, c)[<<from, c.denom>>] = b[<<from, c.denom>>] - c.amount
                         /\ Send(b, from, to, c)[<<to, c.denom>>] = b[<<to, c.denom>>] + c.amount
<1>1. c.denom \in Denoms /\ c.amount \in Nat
  BY DEF Coins
<1>2. b[<<from, c.denom>>] >= c.amount
  BY DEF CanSend
<1> QED BY <1>1, <1>2, SMTT(30) DEF Send, Ledgers

\* Minting adds to one balance.
LEMMA MintLemma ==
  ASSUME NEW b \in Ledgers, NEW m \in Accounts, NEW c \in Coins
  PROVE  /\ Mint(b, m, c) \in Ledgers
         /\ Mint(b, m, c)[<<m, c.denom>>] = b[<<m, c.denom>>] + c.amount
         /\ \A a \in Accounts, d \in Denoms :
              <<a, d>> # <<m, c.denom>> => Mint(b, m, c)[<<a, d>>] = b[<<a, d>>]
  BY DEF Mint, Ledgers, Coins

\* Burning what is there takes from one balance.
LEMMA BurnLemma ==
  ASSUME NEW b \in Ledgers, NEW m \in Accounts, NEW c \in Coins, CanSend(b, m, c)
  PROVE  /\ Burn(b, m, c) \in Ledgers
         /\ Burn(b, m, c)[<<m, c.denom>>] = b[<<m, c.denom>>] - c.amount
         /\ \A a \in Accounts, d \in Denoms :
              <<a, d>> # <<m, c.denom>> => Burn(b, m, c)[<<a, d>>] = b[<<a, d>>]
  BY DEF Burn, Ledgers, Coins, CanSend

\* Accounts, denominations and coins of the model.
LEMMA AccountFacts ==
  /\ Users \subseteq Accounts /\ Parties \subseteq Accounts
  /\ CsdtModule \in Accounts /\ LiquidatorModule \in Accounts /\ AuctionModule \in Accounts
  /\ CsdtModule \notin Parties /\ AuctionModule \notin Parties
  /\ CsdtModule # LiquidatorModule /\ CsdtModule # AuctionModule
  /\ LiquidatorModule # AuctionModule
  /\ Users \subseteq Parties /\ LiquidatorModule \in Parties
  /\ StableDenom \in Denoms /\ GovDenom \in Denoms /\ Collaterals \subseteq Denoms
  /\ StableDenom # GovDenom
  BY UsersAssumption DEF Accounts, Parties, ModuleAccounts, CsdtModule, LiquidatorModule,
     AuctionModule, Denoms, StableDenom, GovDenom

\* A coin of a denomination.
LEMMA CoinLemma ==
  ASSUME NEW d \in Denoms, NEW n \in Nat
  PROVE  Coin(d, n) \in Coins /\ Coin(d, n).denom = d /\ Coin(d, n).amount = n
  BY DEF Coin, Coins

\* Ledgers on the way, in which an amount may be negative for a moment, and
\* two of them that differ in one entry at most.
IntLedgers == [Accounts \X Denoms -> Int]
SameBut(b, b2, x) == \A ad \in (Accounts \X Denoms) \ {x} : b2[ad] = b[ad]

\* The coins of denomination d in a ledger.
Total(b, d) == SumFunctionOnSet(b, Accounts \X {d})

\* There are finitely many accounts.
LEMMA AccountsFinite ==
  ASSUME NEW d \in Denoms
  PROVE  IsFiniteSet(Accounts \X {d}) /\ Accounts \X {d} \subseteq Accounts \X Denoms
<1>1. IsFiniteSet(ModuleAccounts)
  <2>1. IsFiniteSet({CsdtModule}) /\ IsFiniteSet({LiquidatorModule}) /\ IsFiniteSet({AuctionModule})
    BY FS_Singleton
  <2>2. IsFiniteSet({CsdtModule} \cup {LiquidatorModule})
    BY <2>1, FS_Union
  <2>3. IsFiniteSet(({CsdtModule} \cup {LiquidatorModule}) \cup {AuctionModule})
    BY <2>1, <2>2, FS_Union
  <2>4. ModuleAccounts = ({CsdtModule} \cup {LiquidatorModule}) \cup {AuctionModule}
    BY DEF ModuleAccounts
  <2> QED BY <2>3, <2>4, Zenon
<1>2. IsFiniteSet(Accounts)
  BY <1>1, UsersAssumption, FS_Union DEF Accounts
<1>3. IsFiniteSet({d})
  BY FS_Singleton
<1> QED BY <1>2, <1>3, FS_Product

\* What one changed balance does to the totals.
LEMMA TotalChange ==
  ASSUME NEW b \in IntLedgers, NEW b2 \in IntLedgers,
         NEW x \in Accounts \X Denoms,
         SameBut(b, b2, x)
  PROVE  \A d \in Denoms : /\ Total(b, d) \in Int
                           /\ Total(b2, d) = Total(b, d) + (IF d = x[2] THEN b2[x] - b[x] ELSE 0)
<1> SUFFICES ASSUME NEW d \in Denoms
             PROVE  /\ Total(b, d) \in Int
                    /\ Total(b2, d) = Total(b, d) + (IF d = x[2] THEN b2[x] - b[x] ELSE 0)
  OBVIOUS
<1> DEFINE S == Accounts \X {d}
           e == x[2]
<1>1. IsFiniteSet(S) /\ (d = e => x \in S)
  BY AccountsFinite
<1>2. \A ad \in S : b[ad] \in Int /\ b2[ad] \in Int
  BY DEF IntLedgers
<1>3. \A ad \in S : ad # x => b2[ad] = b[ad]
  BY DEF SameBut
<1>4. d # e => x \notin S
  OBVIOUS
<1>5. b2[x] - b[x] \in Int
  BY DEF IntLedgers
<1> HIDE DEF S, e
<1>6. SumFunctionOnSet(b, S) \in Int
  BY <1>1, <1>2, SumInt
<1>7. CASE d = e
  <2>1. x \in S /\ \A ad \in S \ {x} : b2[ad] = b[ad]
    BY <1>1, <1>3, <1>7
  <2>2. SumFunctionOnSet(b2, S) = SumFunctionOnSet(b, S) + (b2[x] - b[x])
    BY <1>1, <1>2, <2>1, SumChange
  <2> QED BY <1>5, <1>6, <1>7, <2>2 DEF Total, S, e
<1>8. CASE d # e
  <2>1. \A ad \in S : b2[ad] = b[ad]
    BY <1>3, <1>4, <1>8
  <2>2. SumFunctionOnSet(b2, S) = SumFunctionOnSet(b, S)
    BY <1>1, <2>1, SumSame
  <2> QED BY <1>6, <1>8, <2>2 DEF Total, S, e
<1> QED BY <1>7, <1>8 DEF e

\* Adding to one value of a function of integers.
LEMMA OneChanged ==
  ASSUME NEW AD, NEW f \in [AD -> Int], NEW x \in AD, NEW m \in Int
  PROVE  /\ [f EXCEPT ![x] = @ + m] \in [AD -> Int]
         /\ [f EXCEPT ![x] = @ + m][x] = f[x] + m
         /\ \A y \in AD \ {x} : [f EXCEPT ![x] = @ + m][y] = f[y]
  OBVIOUS

\* A payment changes no total, minting and burning change one.
LEMMA MintTotal ==
  ASSUME NEW b \in IntLedgers, NEW a \in Accounts,
         NEW c, c.denom \in Denoms, c.amount \in Int
  PROVE  /\ Mint(b, a, c) \in IntLedgers
         /\ \A d \in Denoms : /\ Total(b, d) \in Int
                              /\ Total(Mint(b, a, c), d) = Total(b, d) + (IF d = c.denom THEN c.amount ELSE 0)
<1> DEFINE b2 == Mint(b, a, c)
           x  == <<a, c.denom>>
           e  == c.denom
           n  == c.amount
<1>0. x \in Accounts \X Denoms
  OBVIOUS
<1>1. b2 = [b EXCEPT ![x] = @ + n] /\ e \in Denoms /\ n \in Int /\ x[2] = e
  BY DEF Mint
<1>2. /\ b2 \in IntLedgers /\ b2[x] = b[x] + n
      /\ SameBut(b, b2, x)
  <2> HIDE DEF b2, x, n
  <2> QED BY <1>0, <1>1, OneChanged DEF IntLedgers, SameBut
<1> HIDE DEF b2, x, e, n
<1>3. \A d \in Denoms : /\ Total(b, d) \in Int
                        /\ Total(b2, d) = Total(b, d) + (IF d = x[2] THEN b2[x] - b[x] ELSE 0)
  BY <1>0, <1>2, TotalChange, Zenon
<1>4. b2[x] - b[x] = n
  BY <1>0, <1>1, <1>2 DEF IntLedgers
<1>5. \A d \in Denoms : Total(b2, d) = Total(b, d) + (IF d = e THEN n ELSE 0)
  BY <1>0, <1>1, <1>3, <1>4
<1> QED BY <1>2, <1>3, <1>5 DEF b2, e, n

\* Burning lowers the total by what is burned.
LEMMA BurnTotal ==
  ASSUME NEW b \in IntLedgers, NEW a \in Accounts,
         NEW c, c.denom \in Denoms, c.amount \in Int
  PROVE  /\ Burn(b, a, c) \in IntLedgers
         /\ \A d \in Denoms : /\ Total(b, d) \in Int
                              /\ Total(Burn(b, a, c), d) = Total(b, d) - (IF d = c.denom THEN c.amount ELSE 0)
<1> DEFINE b2 == Burn(b, a, c)
           x  == <<a, c.denom>>
           e  == c.denom
           n  == c.amount
           m  == -n
<1>0. x \in Accounts \X Denoms
  OBVIOUS
<1>1. b2 = [b EXCEPT ![x] = @ - n] /\ e \in Denoms /\ n \in Int /\ m \in Int /\ x[2] = e
  BY DEF Burn
<1>2. /\ b2 \in IntLedgers /\ b2[x] = b[x] + m
      /\ SameBut(b, b2, x)
  <2>1. b[x] - n = b[x] + m
    BY <1>0, <1>1 DEF IntLedgers
  <2>2. b2 = [b EXCEPT ![x] = @ + m]
    <3> HIDE DEF b2, x, m, n
    <3> QED BY <1>0, <1>1, <2>1
  <2> HIDE DEF b2, x, m, n
  <2> QED BY <1>0, <1>1, <2>2, OneChanged DEF IntLedgers, SameBut
<1> HIDE DEF b2, x, e, n, m
<1>3. \A d \in Denoms : /\ Total(b, d) \in Int
                        /\ Total(b2, d) = Total(b, d) + (IF d = x[2] THEN b2[x] - b[x] ELSE 0)
  BY <1>0, <1>2, TotalChange, Zenon
<1>4. b2[x] - b[x] = -n
  BY <1>0, <1>1, <1>2 DEF IntLedgers, m
<1>5. ASSUME NEW d \in Denoms
      PROVE  Total(b2, d) = Total(b, d) - (IF d = e THEN n ELSE 0)
  <2>1. Total(b, d) \in Int /\ n \in Int
    BY <1>1, <1>3
  <2>2. CASE d = e
    <3>1. Total(b2, d) = Total(b, d) + (-n)
      BY <1>1, <1>3, <1>4, <2>2
    <3> QED BY <2>1, <2>2, <3>1
  <2>3. CASE d # e
    <3>1. Total(b2, d) = Total(b, d) + 0
      BY <1>1, <1>3, <2>3
    <3> QED BY <2>1, <2>3, <3>1
  <2> QED BY <2>2, <2>3
<1> QED BY <1>2, <1>3, <1>5 DEF b2, e, n

\* A transfer leaves the total as it is.
LEMMA SendTotal ==
  ASSUME NEW b \in IntLedgers, NEW from \in Accounts, NEW to \in Accounts,
         NEW c, c.denom \in Denoms, c.amount \in Int
  PROVE  /\ Send(b, from, to, c) \in IntLedgers
         /\ \A d \in Denoms : /\ Total(b, d) \in Int
                              /\ Total(Send(b, from, to, c), d) = Total(b, d)
<1> DEFINE b1 == Burn(b, from, c)
           b2 == Mint(b1, to, c)
           s  == Send(b, from, to, c)
           AD == Accounts \X Denoms
<1>1. /\ b1 \in IntLedgers
      /\ \A d \in Denoms : /\ Total(b, d) \in Int
                           /\ Total(b1, d) = Total(b, d) - (IF d = c.denom THEN c.amount ELSE 0)
  BY BurnTotal
<1>2. s = b2
  <2>1. s = [ad \in AD |-> s[ad]]
    BY DEF Send, IntLedgers
  <2>2. b2 = [ad \in AD |-> b2[ad]]
    BY DEF Mint, Burn, IntLedgers
  <2>3. ASSUME NEW ad \in AD
        PROVE  s[ad] = b2[ad]
    BY DEF Send, Mint, Burn, IntLedgers
  <2> HIDE DEF s, b2, AD
  <2> QED BY <2>1, <2>2, <2>3
<1> HIDE DEF b1
<1>3. /\ b2 \in IntLedgers
      /\ \A d \in Denoms : /\ Total(b1, d) \in Int
                           /\ Total(b2, d) = Total(b1, d) + (IF d = c.denom THEN c.amount ELSE 0)
  BY <1>1, MintTotal
<1> HIDE DEF b2
<1>4. \A d \in Denoms : Total(b2, d) = Total(b, d)
  BY <1>1, <1>3
<1> QED BY <1>1, <1>2, <1>3, <1>4

\* A payment between others leaves the csdt module account alone; no payment
\* changes a total.
LEMMA SendApart ==
  ASSUME NEW b \in Ledgers, NEW from \in Accounts, NEW to \in Accounts, NEW c \in Coins,
         CanSend(b, from, c), CsdtModule \in Accounts, from # CsdtModule, to # CsdtModule
  PROVE  /\ Send(b, from, to, c) \in Ledgers
         /\ \A d \in Denoms : /\ Send(b, from, to, c)[<<CsdtModule, d>>] = b[<<CsdtModule, d>>]
                              /\ Total(Send(b, from, to, c), d) = Total(b, d)
<1>1. c.denom \in Denoms /\ c.amount \in Int /\ c.amount \in Nat
  BY DEF Coins
<1>2. /\ Send(b, from, to, c) \in Ledgers
      /\ \A d \in Denoms : Send(b, from, to, c)[<<CsdtModule, d>>] = b[<<CsdtModule, d>>]
  <2>1. b[<<from, c.denom>>] >= c.amount
    BY DEF CanSend
  <2> QED BY <1>1, <2>1 DEF Send, Ledgers
<1>3. b \in IntLedgers
  BY DEF Ledgers, IntLedgers
<1>4. \A d \in Denoms : Total(Send(b, from, to, c), d) = Total(b, d)
  BY <1>1, <1>3, SendTotal
<1> QED BY <1>2, <1>4

\* The difference of two coins is a coin when it is not negative.
LEMMA MinusLemma ==
  ASSUME NEW c1 \in Coins, NEW c2 \in Coins, c2.amount <= c1.amount
  PROVE  Minus(c1, c2) \in Coins
  BY DEF Minus, Coin, Coins

\* The four payments of keeper.PlaceBid: nothing is overdrawn, and the csdt
\* module account takes no part.
LEMMA AcceptBidLedger ==
  ASSUME BankTypeOK, AuctionTypeOK,
         NEW id \in DOMAIN auctions, NEW bidder \in Users, NEW lot, NEW bid,
         NEW paid \in Coins, NEW toInitiator \in Coins, NEW toOther \in Coins,
         AcceptBid(id, bidder, lot, bid, paid, toInitiator, toOther)
  PROVE  /\ balance' \in Ledgers
         /\ \A d \in Denoms : /\ balance'[<<CsdtModule, d>>] = balance[<<CsdtModule, d>>]
                              /\ Total(balance', d) = Total(balance, d)
<1> DEFINE a  == auctions[id]
           b1 == Send(balance, bidder, AuctionModule, paid)
           b2 == Send(b1, AuctionModule, a.bidder, a.bid)
           b3 == Send(b2, AuctionModule, a.initiator, toInitiator)
           b4 == Send(b3, AuctionModule, a.otherPerson, toOther)
<1>1. /\ CanSend(balance, bidder, paid)
      /\ CanSend(b1, AuctionModule, a.bid)
      /\ CanSend(b2, AuctionModule, toInitiator)
      /\ CanSend(b3, AuctionModule, toOther)
      /\ balance' = b4
  BY DEF AcceptBid
<1>2. /\ a.bidder \in Accounts /\ a.initiator \in Accounts /\ a.otherPerson \in Accounts
      /\ a.bidder # CsdtModule /\ a.initiator # CsdtModule /\ a.otherPerson # CsdtModule
      /\ bidder \in Accounts /\ bidder # CsdtModule
      /\ AuctionModule \in Accounts /\ AuctionModule # CsdtModule /\ CsdtModule \in Accounts
      /\ a.bid \in Coins
  BY AccountFacts DEF AuctionTypeOK, Auctions
<1> HIDE DEF a
<1>3. b1 \in Ledgers /\ \A d \in Denoms : /\ b1[<<CsdtModule, d>>] = balance[<<CsdtModule, d>>]
                                        /\ Total(b1, d) = Total(balance, d)
  <2>1. balance \in Ledgers
    BY DEF BankTypeOK, Ledgers
  <2> QED BY <1>1, <1>2, <2>1, SendApart
<1> HIDE DEF b1
<1>4. b2 \in Ledgers /\ \A d \in Denoms : /\ b2[<<CsdtModule, d>>] = b1[<<CsdtModule, d>>]
                                        /\ Total(b2, d) = Total(b1, d)
  BY <1>1, <1>2, <1>3, SendApart
<1> HIDE DEF b2
<1>5. b3 \in Ledgers /\ \A d \in Denoms : /\ b3[<<CsdtModule, d>>] = b2[<<CsdtModule, d>>]
                                        /\ Total(b3, d) = Total(b2, d)
  BY <1>1, <1>2, <1>4, SendApart
<1> HIDE DEF b3
<1>6. b4 \in Ledgers /\ \A d \in Denoms : /\ b4[<<CsdtModule, d>>] = b3[<<CsdtModule, d>>]
                                        /\ Total(b4, d) = Total(b3, d)
  BY <1>1, <1>2, <1>5, SendApart
<1> HIDE DEF b4
<1> QED BY <1>1, <1>3, <1>4, <1>5, <1>6

\* Whatever a bid passes on, it passes on coins.
LEMMA BidIsAccepted ==
  ASSUME AuctionTypeOK, HandleMsgPlaceBid
  PROVE  /\ \E id \in DOMAIN auctions, bidder \in Users : \E x, y, paid, z, w :
              /\ paid \in Coins /\ z \in Coins /\ w \in Coins
              /\ AcceptBid(id, bidder, x, y, paid, z, w)
         /\ UNCHANGED supply
<1>1. PICK id \in DOMAIN auctions, bidder \in Users, ld \in Denoms, bd \in Denoms,
           l \in LotAmounts, n \in BidAmounts :
             PlaceBid(id, bidder, Coin(ld, l), Coin(bd, n))
  BY DEF HandleMsgPlaceBid
<1> DEFINE lot == Coin(ld, l)
           bid == Coin(bd, n)
           a   == auctions[id]
<1>2. lot \in Coins /\ bid \in Coins
  BY AuctionAssumption, CoinLemma
<1>3. a.lot \in Coins /\ a.bid \in Coins
  BY DEF AuctionTypeOK, Auctions
<1>4. Coin(a.lot.denom, 0) \in Coins /\ Coin(a.bid.denom, 0) \in Coins
  BY <1>3 DEF Coin, Coins
<1> HIDE DEF lot, bid
<1>5. \E x, y, paid, z, w :
        /\ paid \in Coins /\ z \in Coins /\ w \in Coins
        /\ AcceptBid(id, bidder, x, y, paid, z, w)
  <2>1. CASE PlaceForwardBid(id, bidder, lot, bid)
    <3>1. Minus(bid, a.bid) \in Coins
      BY <1>2, <1>3, <2>1, MinusLemma DEF PlaceForwardBid, IsLT, Coins
    <3> QED BY <1>2, <1>4, <2>1, <3>1 DEF PlaceForwardBid
  <2>2. CASE PlaceReverseBid(id, bidder, lot, bid)
    <3>1. Minus(a.lot, lot) \in Coins
      BY <1>2, <1>3, <2>2, MinusLemma DEF PlaceReverseBid, IsLT, Coins
    <3> QED BY <1>3, <1>4, <2>2, <3>1 DEF PlaceReverseBid
  <2>3. CASE ForwardPhase(id, bidder, lot, bid)
    <3>1. Minus(bid, a.bid) \in Coins
      BY <1>2, <1>3, <2>3, MinusLemma DEF ForwardPhase, IsLT, Coins
    <3> QED BY <1>2, <1>4, <2>3, <3>1 DEF ForwardPhase
  <2>4. CASE SwitchPhase(id, bidder, lot, bid)
    <3>1. Minus(bid, a.bid) \in Coins
      BY <1>2, <1>3, <2>4, MinusLemma DEF SwitchPhase, IsLT, Coins
    <3>2. Minus(a.lot, lot) \in Coins
      BY <1>2, <1>3, <2>4, MinusLemma DEF SwitchPhase
    <3> QED BY <1>2, <2>4, <3>1, <3>2 DEF SwitchPhase
  <2>5. CASE ReversePhase(id, bidder, lot, bid)
    <3>1. Minus(a.lot, lot) \in Coins
      BY <1>2, <1>3, <2>5, MinusLemma DEF ReversePhase, IsLT, Coins
    <3> QED BY <1>3, <1>4, <2>5, <3>1 DEF ReversePhase
  <2> QED BY <1>1, <2>1, <2>2, <2>3, <2>4, <2>5 DEF PlaceBid, lot, bid
<1>6. UNCHANGED supply
  BY <1>1 DEF PlaceBid
<1> QED BY <1>5, <1>6

\* What MsgPlaceBid and a step of EndBlocker do to the ledger.
LEMMA AuctionLedger ==
  ASSUME BankTypeOK, AuctionTypeOK, HandleMsgPlaceBid \/ EndBlockerStep
  PROVE  /\ balance' \in Ledgers
         /\ \A d \in Denoms : /\ balance'[<<CsdtModule, d>>] = balance[<<CsdtModule, d>>]
                              /\ Total(balance', d) = Total(balance, d)
         /\ UNCHANGED supply
<1>1. CASE HandleMsgPlaceBid
  BY <1>1, BidIsAccepted, AcceptBidLedger
<1>2. CASE EndBlockerStep
  <2>1. PICK q \in Due : CloseAuction(q[2]) \/ UNCHANGED bankVars
    BY <1>2 DEF EndBlockerStep
  <2>2. balance \in Ledgers
    BY DEF BankTypeOK, Ledgers
  <2>3. CASE UNCHANGED bankVars
    BY <2>2, <2>3 DEF bankVars
  <2>4. CASE CloseAuction(q[2])
    <3> DEFINE a == auctions[q[2]]
    <3>1. /\ q[2] \in DOMAIN auctions
          /\ CanSend(balance, AuctionModule, a.lot)
          /\ balance' = Send(balance, AuctionModule, a.bidder, a.lot)
          /\ UNCHANGED supply
      BY <2>4 DEF CloseAuction, CanClose
    <3>2. /\ a.bidder \in Accounts /\ a.bidder # CsdtModule /\ a.lot \in Coins
          /\ AuctionModule \in Accounts /\ AuctionModule # CsdtModule /\ CsdtModule \in Accounts
      BY <3>1, AccountFacts DEF AuctionTypeOK, Auctions
    <3> HIDE DEF a
    <3> QED BY <2>2, <3>1, <3>2, SendApart
  <2> QED BY <2>1, <2>3, <2>4
<1> QED BY <1>1, <1>2

-----------------------------------------------------------------------------
(***************************************************************************)
(* The lots.                                                               *)
(***************************************************************************)

\* What a coin adds to the balance of denomination d, and the lots in d.
AmountOf(c, d) == IF c.denom = d THEN c.amount ELSE 0
LotsIn(d)      == [id \in DOMAIN auctions |-> AmountOf(auctions[id].lot, d)]

\* A payment into the auction module account, and one out of it.
LEMMA ModulePaid ==
  ASSUME NEW b \in Ledgers, NEW from \in Accounts, NEW to \in Accounts, NEW c \in Coins,
         CanSend(b, from, c)
  PROVE  /\ Send(b, from, to, c) \in Ledgers
         /\ from # AuctionModule /\ to = AuctionModule => \A d \in Denoms :
              Send(b, from, to, c)[<<AuctionModule, d>>] = b[<<AuctionModule, d>>] + AmountOf(c, d)
         /\ from = AuctionModule /\ to # AuctionModule => \A d \in Denoms :
              Send(b, from, to, c)[<<AuctionModule, d>>] = b[<<AuctionModule, d>>] - AmountOf(c, d)
<1> DEFINE s == Send(b, from, to, c)
<1>1. AuctionModule \in Accounts /\ c.denom \in Denoms /\ c.amount \in Nat
  BY AccountFacts DEF Coins
<1>2. /\ s \in Ledgers
      /\ \A d \in Denoms : d # c.denom => s[<<AuctionModule, d>>] = b[<<AuctionModule, d>>]
      /\ from # to => /\ s[<<from, c.denom>>] = b[<<from, c.denom>>] - c.amount
                      /\ s[<<to, c.denom>>] = b[<<to, c.denom>>] + c.amount
  BY <1>1, SendLemma
<1>3. \A d \in Denoms : b[<<AuctionModule, d>>] \in Nat
  BY <1>1 DEF Ledgers
<1> HIDE DEF s
<1> QED BY <1>1, <1>2, <1>3 DEF AmountOf, s

\* The store is finite, since ids are counted up.
LEMMA StoreIsFinite ==
  ASSUME AuctionInv
  PROVE  /\ IsFiniteSet(DOMAIN auctions)
         /\ \A id \in DOMAIN auctions : \A d : LotsIn(d)[id] \in Nat
<1>1. DOMAIN auctions \subseteq 0..nextAuctionID - 1
  BY DEF AuctionInv, AuctionTypeOK, IdsAreFresh
<1>2. IsFiniteSet(DOMAIN auctions)
  <2>1. nextAuctionID - 1 \in Int
    BY DEF AuctionInv, AuctionTypeOK
  <2>2. IsFiniteSet(0..nextAuctionID - 1)
    BY <2>1, FS_Interval
  <2> QED BY <1>1, <2>2, FS_Subset
<1>3. ASSUME NEW id \in DOMAIN auctions, NEW d
      PROVE  LotsIn(d)[id] \in Nat
  BY DEF LotsIn, AmountOf, AuctionInv, AuctionTypeOK, Auctions, Coins
<1> QED BY <1>2, <1>3

\* LotsEscrowed as a sum over the store, before and after a step.
LEMMA LotsAreSums ==
  /\ LotsEscrowed <=> \A d \in Denoms : balance[<<AuctionModule, d>>] =
                                          SumFunctionOnSet(LotsIn(d), DOMAIN auctions)
  /\ LotsEscrowed' <=> \A d \in Denoms : balance'[<<AuctionModule, d>>] =
                                           SumFunctionOnSet(LotsIn(d)', DOMAIN auctions')
<1>1. \A d : SumFunction(LotsIn(d)) = SumFunctionOnSet(LotsIn(d), DOMAIN auctions)
  BY DEF SumFunction, LotsIn
<1>2. \A d : SumFunction(LotsIn(d)') = SumFunctionOnSet(LotsIn(d)', DOMAIN auctions')
  BY DEF SumFunction, LotsIn
<1> QED BY <1>1, <1>2 DEF LotsEscrowed, LotsIn, AmountOf

\* Storing an auction keeps the lots escrowed, if the module account moves
\* with its lot.
LEMMA SetAuctionEscrow ==
  ASSUME AuctionInv, LotsEscrowed,
         NEW id \in Nat, NEW a \in Auctions, SetAuction(id, a),
         \A d \in Denoms :
           balance'[<<AuctionModule, d>>] =
             balance[<<AuctionModule, d>>] +
               (AmountOf(a.lot, d) - (IF id \in DOMAIN auctions THEN AmountOf(auctions[id].lot, d) ELSE 0)),
         \A d \in Denoms : balance[<<AuctionModule, d>>] \in Nat
  PROVE  LotsEscrowed'
<1> DEFINE S == DOMAIN auctions
           T == DOMAIN auctions'
<1>1. T = S \cup {id} /\ auctions'[id] = a /\ \A i \in S \ {id} : auctions'[i] = auctions[i]
  BY DEF SetAuction
<1>2. IsFiniteSet(S) /\ \A i \in S : \A d : LotsIn(d)[i] \in Nat
  BY StoreIsFinite
<1> SUFFICES ASSUME NEW d \in Denoms
             PROVE  balance'[<<AuctionModule, d>>] = SumFunctionOnSet(LotsIn(d)', T)
  BY LotsAreSums
<1> DEFINE f == LotsIn(d)
           g == LotsIn(d)'
           n == AmountOf(a.lot, d)
           m == balance[<<AuctionModule, d>>]
<1>3. /\ n \in Nat /\ m \in Nat
      /\ m = SumFunctionOnSet(f, S)
  BY LotsAreSums DEF AmountOf, Auctions, Coins
<1>4. g[id] = n /\ \A i \in S \ {id} : g[i] = f[i]
  BY <1>1 DEF LotsIn
<1>5. balance'[<<AuctionModule, d>>] = m + (n - (IF id \in S THEN f[id] ELSE 0))
  BY DEF LotsIn
<1> HIDE DEF f, g, n, S, T, m
<1>6. CASE id \in S
  <2>1. T = S
    BY <1>1, <1>6
  <2>2. \A i \in S : f[i] \in Int /\ g[i] \in Int
    BY <1>2, <1>3, <1>4 DEF f
  <2>3. SumFunctionOnSet(g, S) = SumFunctionOnSet(f, S) + (g[id] - f[id])
    <3>1. IsFiniteSet(S) /\ id \in S
      BY <1>2, <1>6
    <3>2. \A i \in S \ {id} : g[i] = f[i]
      BY <1>4
    <3> QED BY ONLY <2>2, <3>1, <3>2, SumChange, ZenonT(60)
  <2> QED BY <1>3, <1>4, <1>5, <1>6, <2>1, <2>3 DEF g, S, T
<1>7. CASE id \notin S
  <2>1. \A i \in S : g[i] = f[i]
    BY <1>4, <1>7
  <2>2. SumFunctionOnSet(g, S) = SumFunctionOnSet(f, S)
    BY <1>2, <2>1, SumSame
  <2>3. \A i \in S \cup {id} : g[i] \in Int
    BY <1>2, <1>3, <1>4, <2>1 DEF f
  <2>4. SumFunctionOnSet(g, S \cup {id}) = g[id] + SumFunctionOnSet(g, S)
    BY <1>2, <1>7, <2>3, SumAdd
  <2>5. SumFunctionOnSet(g, T) = n + m
    BY <1>1, <1>3, <1>4, <2>2, <2>4
  <2>6. balance'[<<AuctionModule, d>>] = m + n
    BY <1>3, <1>5, <1>7
  <2> QED BY <1>3, <2>5, <2>6 DEF g, T
<1> QED BY <1>6, <1>7

\* An auction starts in one phase, with its lot in the module account.  The
\* ledger b has been changed before in the same transaction, but not there.
LEMMA StartAuctionPayable ==
  ASSUME AuctionInv, AuctionsStayPayable,
         NEW b \in Ledgers, \A d \in Denoms : b[<<AuctionModule, d>>] = balance[<<AuctionModule, d>>],
         NEW type \in AuctionTypes, NEW u \in Parties, NEW o \in Parties,
         NEW lot \in Coins, NEW bid \in Coins, NEW maxBid \in Coins,
         IsLT(bid, maxBid) \/ bid = maxBid,
         StartAuction(b, NewAuction(type, u, lot, bid, maxBid, o))
  PROVE  AuctionsStayPayable'
<1> DEFINE a  == NewAuction(type, u, lot, bid, maxBid, o)
           id == nextAuctionID
<1>1. /\ a \in Auctions /\ a.lot = lot /\ a.initiator = u /\ a.bid = bid /\ a.maxBid = maxBid
  BY AuctionAssumption DEF NewAuction, Auctions, AuctionInv, AuctionTypeOK
<1>2. /\ mode = "deliver" /\ mode' = mode
      /\ CanSend(b, a.initiator, a.lot)
      /\ balance' = Send(b, a.initiator, AuctionModule, a.lot)
      /\ SetAuction(id, a)
  BY DEF StartAuction
<1>3. id \in Nat /\ id \notin DOMAIN auctions
  BY DEF AuctionInv, AuctionTypeOK, IdsAreFresh
<1> HIDE DEF a, id
<1>4. \A d \in Denoms : /\ balance[<<AuctionModule, d>>] \in Nat
                        /\ balance'[<<AuctionModule, d>>] =
                             balance[<<AuctionModule, d>>] + (AmountOf(lot, d) - 0)
  <2>1. \A d \in Denoms : balance'[<<AuctionModule, d>>] = b[<<AuctionModule, d>>] + AmountOf(lot, d)
    BY <1>1, <1>2, AccountFacts, ModulePaid
  <2>2. \A d \in Denoms : b[<<AuctionModule, d>>] \in Nat /\ AmountOf(lot, d) \in Nat
    BY AccountFacts DEF Ledgers, AmountOf, Coins
  <2> QED BY <2>1, <2>2
<1>5. LotsEscrowed'
  <2>1. LotsEscrowed
    BY DEF AuctionsStayPayable
  <2> QED BY <1>1, <1>2, <1>3, <1>4, <2>1, SetAuctionEscrow
<1>6. PhaseDetermined'
  BY <1>1, <1>2 DEF AuctionsStayPayable, PhaseDetermined, SetAuction, IsLT
<1> QED BY <1>2, <1>5, <1>6 DEF AuctionsStayPayable, NeverHalts

\* The four payments of keeper.PlaceBid change the module account by what the
\* lot changes, when the bidder pays the previous bidder and the improvement.
LEMMA AcceptBidEscrow ==
  ASSUME BankTypeOK, AuctionInv, LotsEscrowed,
         NEW id \in DOMAIN auctions, NEW bidder \in Users, NEW lot \in Coins, NEW bid \in Coins,
         NEW paid \in Coins, NEW toInitiator \in Coins, NEW toOther \in Coins,
         AcceptBid(id, bidder, lot, bid, paid, toInitiator, toOther),
         \A d \in Denoms :
           AmountOf(paid, d) - AmountOf(auctions[id].bid, d) - AmountOf(toInitiator, d) - AmountOf(toOther, d)
             = AmountOf(lot, d) - AmountOf(auctions[id].lot, d)
  PROVE  LotsEscrowed'
<1> DEFINE a  == auctions[id]
           b1 == Send(balance, bidder, AuctionModule, paid)
           b2 == Send(b1, AuctionModule, a.bidder, a.bid)
           b3 == Send(b2, AuctionModule, a.initiator, toInitiator)
           b4 == Send(b3, AuctionModule, a.otherPerson, toOther)
           e  == SmallerOf(height + MaxBidDuration, a.maxEndTime)
           A  == [a EXCEPT !.bidder = bidder, !.lot = lot, !.bid = bid, !.endTime = e]
<1>1. /\ CanSend(balance, bidder, paid)
      /\ CanSend(b1, AuctionModule, a.bid)
      /\ CanSend(b2, AuctionModule, toInitiator)
      /\ CanSend(b3, AuctionModule, toOther)
      /\ balance' = b4
      /\ SetAuction(id, A)
  BY DEF AcceptBid
<1>2. /\ a \in Auctions /\ a.bid \in Coins /\ a.lot \in Coins /\ id \in Nat
      /\ a.bidder \in Accounts \ {AuctionModule} /\ a.initiator \in Accounts \ {AuctionModule}
      /\ a.otherPerson \in Accounts \ {AuctionModule} /\ bidder \in Accounts \ {AuctionModule}
      /\ AuctionModule \in Accounts
  BY AccountFacts DEF AuctionInv, AuctionTypeOK, Auctions
<1>3. A \in Auctions /\ A.lot = lot
  <2>1. e \in Nat
    BY <1>2, AuctionAssumption DEF SmallerOf, Auctions, AuctionInv, AuctionTypeOK
  <2>2. bidder \in Parties
    BY AccountFacts
  <2> HIDE DEF a, e
  <2> QED BY <1>2, <2>1, <2>2 DEF Auctions
<1> DEFINE m(b, d) == b[<<AuctionModule, d>>]
<1>4. \A d \in Denoms : AmountOf(paid, d) \in Nat /\ AmountOf(a.bid, d) \in Nat /\ AmountOf(a.lot, d) \in Nat
        /\ AmountOf(toInitiator, d) \in Nat /\ AmountOf(toOther, d) \in Nat /\ AmountOf(lot, d) \in Nat
  BY <1>2 DEF AmountOf, Coins
<1>5. balance \in Ledgers /\ \A d \in Denoms : m(balance, d) \in Nat
  BY <1>2 DEF BankTypeOK, Ledgers
<1> HIDE DEF A, a, e
<1>6. b1 \in Ledgers /\ \A d \in Denoms : m(b1, d) = m(balance, d) + AmountOf(paid, d)
  BY <1>1, <1>2, <1>5, ModulePaid
<1> HIDE DEF b1
<1>7. b2 \in Ledgers /\ \A d \in Denoms : m(b2, d) = m(b1, d) - AmountOf(a.bid, d)
  BY <1>1, <1>2, <1>6, ModulePaid
<1> HIDE DEF b2
<1>8. b3 \in Ledgers /\ \A d \in Denoms : m(b3, d) = m(b2, d) - AmountOf(toInitiator, d)
  BY <1>1, <1>2, <1>7, ModulePaid
<1> HIDE DEF b3
<1>9. b4 \in Ledgers /\ \A d \in Denoms : m(b4, d) = m(b3, d) - AmountOf(toOther, d)
  BY <1>1, <1>2, <1>8, ModulePaid
<1> HIDE DEF b4, m
<1>10. \A d \in Denoms : m(balance', d) = m(balance, d) + (AmountOf(lot, d) - AmountOf(a.lot, d))
  <2> SUFFICES ASSUME NEW d \in Denoms
               PROVE  m(balance', d) = m(balance, d) + (AmountOf(lot, d) - AmountOf(a.lot, d))
    OBVIOUS
  <2>1. AmountOf(paid, d) - AmountOf(a.bid, d) - AmountOf(toInitiator, d) - AmountOf(toOther, d)
          = AmountOf(lot, d) - AmountOf(a.lot, d)
    BY DEF a
  <2> QED BY <1>1, <1>4, <1>5, <1>6, <1>7, <1>8, <1>9, <2>1
<1> QED BY <1>1, <1>2, <1>3, <1>5, <1>10, SetAuctionEscrow DEF a, m

\* What a bid leaves in the module account, phase by phase.  Without Matching a
\* bid of the reverse phase may replace the standing bid by one that was never
\* paid, and one of the forward phase the lot by one that is not there.
LEMMA PlaceBidPayable ==
  ASSUME Matching, BankTypeOK, AuctionInv, AuctionsStayPayable, HandleMsgPlaceBid
  PROVE  AuctionsStayPayable'
<1>1. PICK id \in DOMAIN auctions, bidder \in Users, ld \in Denoms, bd \in Denoms,
           l \in LotAmounts, n \in BidAmounts :
             PlaceBid(id, bidder, Coin(ld, l), Coin(bd, n))
  BY DEF HandleMsgPlaceBid
<1> DEFINE lot == Coin(ld, l)
           bid == Coin(bd, n)
           a   == auctions[id]
<1>2. lot \in Coins /\ bid \in Coins
  BY AuctionAssumption, CoinLemma
<1>3. a \in Auctions /\ a.lot \in Coins /\ a.bid \in Coins /\ a.maxBid \in Coins
  BY DEF AuctionInv, AuctionTypeOK, Auctions
<1>4. \A c \in Coins : Coin(c.denom, 0) \in Coins /\ \A d \in Denoms : AmountOf(Coin(c.denom, 0), d) = 0
  BY DEF Coin, Coins, AmountOf
<1>5. \A c1, c2 \in Coins, d \in Denoms :
        c1.denom = c2.denom => AmountOf(Minus(c1, c2), d) = AmountOf(c1, d) - AmountOf(c2, d)
  BY DEF Minus, Coin, Coins, AmountOf
<1>6. LotsEscrowed /\ PhaseDetermined /\ NeverHalts /\ mode' = mode
  BY <1>1 DEF AuctionsStayPayable, PlaceBid
<1>7. \A c \in Coins, d \in Denoms : AmountOf(c, d) \in Nat
  BY DEF Coins, AmountOf
<1> HIDE DEF lot, bid
<1>8. \E x, y, paid, z, w \in Coins :
        /\ AcceptBid(id, bidder, x, y, paid, z, w)
        /\ \A d \in Denoms : AmountOf(paid, d) - AmountOf(a.bid, d) - AmountOf(z, d) - AmountOf(w, d)
                               = AmountOf(x, d) - AmountOf(a.lot, d)
        /\ a.type = "forwardReverse" => IsLT(y, a.maxBid) \/ y = a.maxBid
  <2> DEFINE none == Coin(a.lot.denom, 0)
             more == Minus(bid, a.bid)
             less == Minus(a.lot, lot)
  <2>0. none \in Coins
    BY <1>3, <1>4
  <2>1. CASE PlaceForwardBid(id, bidder, lot, bid)
    <3>1. AcceptBid(id, bidder, a.lot, bid, bid, more, none) /\ more \in Coins
      BY <1>2, <1>3, <2>1, MinusLemma DEF PlaceForwardBid, IsLT, Coins
    <3>2. \A d \in Denoms : AmountOf(more, d) = AmountOf(bid, d) - AmountOf(a.bid, d) /\ AmountOf(none, d) = 0
      BY <1>2, <1>3, <1>4, <1>5, <2>1 DEF PlaceForwardBid, IsLT
    <3>3. a.type = "forward"
      BY <2>1 DEF PlaceForwardBid
    <3> HIDE DEF none, more, a
    <3>4. \A d \in Denoms : AmountOf(bid, d) - AmountOf(a.bid, d) - AmountOf(more, d) - AmountOf(none, d)
                              = AmountOf(a.lot, d) - AmountOf(a.lot, d)
      BY <1>2, <1>3, <1>7, <3>2
    <3> QED BY <1>2, <1>3, <2>0, <3>1, <3>3, <3>4
  <2>2. CASE PlaceReverseBid(id, bidder, lot, bid)
    <3>1. AcceptBid(id, bidder, lot, a.bid, a.bid, less, none) /\ less \in Coins
      BY <1>2, <1>3, <2>2, MinusLemma DEF PlaceReverseBid, IsLT, Coins
    <3>2. \A d \in Denoms : AmountOf(less, d) = AmountOf(a.lot, d) - AmountOf(lot, d) /\ AmountOf(none, d) = 0
      BY <1>2, <1>3, <1>4, <1>5, <2>2 DEF PlaceReverseBid, IsLT
    <3>3. a.type = "reverse"
      BY <2>2 DEF PlaceReverseBid
    <3> HIDE DEF none, less, a
    <3>4. \A d \in Denoms : AmountOf(a.bid, d) - AmountOf(a.bid, d) - AmountOf(less, d) - AmountOf(none, d)
                              = AmountOf(lot, d) - AmountOf(a.lot, d)
      BY <1>2, <1>3, <1>7, <3>2
    <3> QED BY <1>2, <1>3, <2>0, <3>1, <3>3, <3>4
  <2>3. CASE ForwardPhase(id, bidder, lot, bid)
    <3>0. lot = a.lot
      BY <1>1, <2>3 DEF PlaceBid, RepeatsOtherCoin, ForwardPhase, lot, bid
    <3>1. AcceptBid(id, bidder, lot, bid, bid, more, none) /\ more \in Coins /\ IsLT(bid, a.maxBid)
      BY <1>2, <1>3, <2>3, MinusLemma DEF ForwardPhase, IsLT, Coins
    <3>2. \A d \in Denoms : AmountOf(more, d) = AmountOf(bid, d) - AmountOf(a.bid, d) /\ AmountOf(none, d) = 0
      BY <1>2, <1>3, <1>4, <1>5, <2>3 DEF ForwardPhase, IsLT
    <3> HIDE DEF none, more, a
    <3>4. \A d \in Denoms : AmountOf(bid, d) - AmountOf(a.bid, d) - AmountOf(more, d) - AmountOf(none, d)
                              = AmountOf(lot, d) - AmountOf(a.lot, d)
      BY <1>2, <1>3, <1>7, <3>0, <3>2
    <3> QED BY <1>2, <2>0, <3>1, <3>4
  <2>4. CASE SwitchPhase(id, bidder, lot, bid)
    <3>1. AcceptBid(id, bidder, lot, bid, bid, more, less) /\ more \in Coins /\ less \in Coins
      BY <1>2, <1>3, <2>4, MinusLemma DEF SwitchPhase, IsLT, Coins
    <3>2. \A d \in Denoms : /\ AmountOf(more, d) = AmountOf(bid, d) - AmountOf(a.bid, d)
                            /\ AmountOf(less, d) = AmountOf(a.lot, d) - AmountOf(lot, d)
      BY <1>2, <1>3, <1>5, <2>4 DEF SwitchPhase, IsLT
    <3>3. bid = a.maxBid
      BY <2>4 DEF SwitchPhase
    <3> HIDE DEF less, more, a
    <3>4. \A d \in Denoms : AmountOf(bid, d) - AmountOf(a.bid, d) - AmountOf(more, d) - AmountOf(less, d)
                              = AmountOf(lot, d) - AmountOf(a.lot, d)
      BY <1>2, <1>3, <1>7, <3>2
    <3> QED BY <1>2, <3>1, <3>3, <3>4
  <2>5. CASE ReversePhase(id, bidder, lot, bid)
    <3> DEFINE nil == Coin(a.bid.denom, 0)
    <3>0. bid = a.bid /\ bid = a.maxBid
      BY <1>1, <2>5 DEF PlaceBid, RepeatsOtherCoin, ReversePhase, lot, bid
    <3>1. AcceptBid(id, bidder, lot, bid, a.bid, nil, less) /\ nil \in Coins /\ less \in Coins
      BY <1>2, <1>3, <1>4, <2>5, MinusLemma DEF ReversePhase, IsLT, Coins
    <3>2. \A d \in Denoms : AmountOf(less, d) = AmountOf(a.lot, d) - AmountOf(lot, d) /\ AmountOf(nil, d) = 0
      BY <1>2, <1>3, <1>4, <1>5, <2>5 DEF ReversePhase, IsLT
    <3> HIDE DEF nil, less, a
    <3>4. \A d \in Denoms : AmountOf(a.bid, d) - AmountOf(a.bid, d) - AmountOf(nil, d) - AmountOf(less, d)
                              = AmountOf(lot, d) - AmountOf(a.lot, d)
      BY <1>2, <1>3, <1>7, <3>2
    <3> QED BY <1>2, <1>3, <3>0, <3>1, <3>4
  <2> QED BY <1>1, <2>1, <2>2, <2>3, <2>4, <2>5 DEF PlaceBid, lot, bid
<1>9. PICK x \in Coins, y \in Coins, paid \in Coins, z \in Coins, w \in Coins :
        /\ AcceptBid(id, bidder, x, y, paid, z, w)
        /\ \A d \in Denoms : AmountOf(paid, d) - AmountOf(a.bid, d) - AmountOf(z, d) - AmountOf(w, d)
                               = AmountOf(x, d) - AmountOf(a.lot, d)
        /\ a.type = "forwardReverse" => IsLT(y, a.maxBid) \/ y = a.maxBid
  BY <1>8
<1>10. LotsEscrowed'
  BY <1>6, <1>9, AcceptBidEscrow
<1>11. PhaseDetermined'
  <2> DEFINE e == SmallerOf(height + MaxBidDuration, a.maxEndTime)
             A == [a EXCEPT !.bidder = bidder, !.lot = x, !.bid = y, !.endTime = e]
  <2>1. SetAuction(id, A)
    BY <1>9 DEF AcceptBid
  <2>2. A.type = a.type /\ A.bid = y /\ A.maxBid = a.maxBid
    <3> HIDE DEF a, e
    <3> QED BY <1>3 DEF Auctions
  <2> HIDE DEF A
  <2>3. auctions'[id] = A /\ DOMAIN auctions' = DOMAIN auctions
        /\ \A i \in DOMAIN auctions \ {id} : auctions'[i] = auctions[i]
    BY <2>1 DEF SetAuction
  <2>4. ASSUME NEW i \in DOMAIN auctions', auctions'[i].type = "forwardReverse"
        PROVE  IsLT(auctions'[i].bid, auctions'[i].maxBid) \/ auctions'[i].bid = auctions'[i].maxBid
    <3>1. CASE i = id
      BY <1>9, <2>2, <2>3, <2>4, <3>1
    <3>2. CASE i # id
      BY <1>6, <2>3, <2>4, <3>2 DEF PhaseDetermined
    <3> QED BY <3>1, <3>2
  <2> QED BY <2>4 DEF PhaseDetermined, IsLT
<1> QED BY <1>6, <1>10, <1>11 DEF AuctionsStayPayable, NeverHalts

\* EndBlocker can close whatever is due: the queue entry has its auction, and
\* the auction its lot.
LEMMA EndBlockerStepPayable ==
  ASSUME BankTypeOK, AuctionInv, AuctionsStayPayable, EndBlockerStep
  PROVE  AuctionsStayPayable'
<1> DEFINE S == DOMAIN auctions
<1>1. PICK q \in Due : \/ CloseAuction(q[2])
                       \/ ~CanClose(q[2])
  BY DEF EndBlockerStep
<1>2. PICK id \in S : q = <<auctions[id].endTime, id>>
  BY DEF Due, AuctionInv, QueueMatchesAuctions
<1> DEFINE a == auctions[id]
<1>3. /\ a.bidder \in Accounts \ {AuctionModule} /\ a.lot \in Coins /\ AuctionModule \in Accounts
      /\ balance \in Ledgers
      /\ \A d \in Denoms : balance[<<AuctionModule, d>>] \in Nat
  BY AccountFacts DEF AuctionInv, AuctionTypeOK, Auctions, BankTypeOK, Ledgers
<1>4. IsFiniteSet(S) /\ \A i \in S : \A d : LotsIn(d)[i] \in Nat
  BY StoreIsFinite
<1>5. \A d \in Denoms : /\ balance[<<AuctionModule, d>>] = SumFunctionOnSet(LotsIn(d), S)
                        /\ LotsIn(d)[id] <= SumFunctionOnSet(LotsIn(d), S)
  BY <1>4, LotsAreSums, SumNat DEF AuctionsStayPayable
<1>6. CanClose(id)
  <2>1. CanSend(balance, AuctionModule, a.lot)
    BY <1>3, <1>5 DEF CanSend, LotsIn, AmountOf, Coins
  <2>2. height >= a.endTime
    BY <1>2 DEF Due, AuctionInv, AuctionTypeOK, Auctions
  <2> QED BY <2>1, <2>2 DEF CanClose
<1>7. CloseAuction(id)
  BY <1>1, <1>2, <1>6
<1>8. /\ balance' = Send(balance, AuctionModule, a.bidder, a.lot)
      /\ CanSend(balance, AuctionModule, a.lot)
      /\ DOMAIN auctions' = S \ {id} /\ \A i \in S \ {id} : auctions'[i] = auctions[i]
      /\ mode' = mode
  BY <1>7 DEF CloseAuction, CanClose, DeleteAuction
<1>9. LotsEscrowed'
  <2> SUFFICES ASSUME NEW d \in Denoms
               PROVE  balance'[<<AuctionModule, d>>] = SumFunctionOnSet(LotsIn(d)', DOMAIN auctions')
    BY LotsAreSums
  <2> DEFINE f == LotsIn(d)
             g == LotsIn(d)'
             R == S \ {id}
  <2>1. SumFunctionOnSet(f, S) = f[id] + SumFunctionOnSet(f, R)
    BY <1>4, SumRemove
  <2>2. SumFunctionOnSet(g, R) = SumFunctionOnSet(f, R)
    <3>1. IsFiniteSet(R) /\ \A i \in R : g[i] = f[i]
      BY <1>4, <1>8, FS_Subset DEF LotsIn
    <3> HIDE DEF f, g, R
    <3> QED BY <3>1, SumSame
  <2>3. SumFunctionOnSet(f, R) \in Nat /\ f[id] \in Nat
    BY <1>4, FS_Subset, SumNat
  <2>4. balance'[<<AuctionModule, d>>] = balance[<<AuctionModule, d>>] - f[id]
    BY <1>3, <1>8, ModulePaid DEF LotsIn
  <2> HIDE DEF f, g
  <2> QED BY <1>5, <1>8, <2>1, <2>2, <2>3, <2>4 DEF f, g
<1>10. PhaseDetermined'
  BY <1>8 DEF AuctionsStayPayable, PhaseDetermined, IsLT
<1> QED BY <1>8, <1>9, <1>10 DEF AuctionsStayPayable, NeverHalts

\* Steps that leave the store and the module account alone.
LEMMA StutterPayable ==
  ASSUME AuctionsStayPayable, UNCHANGED auctions, mode' # "halted",
         \A d \in Denoms : balance'[<<AuctionModule, d>>] = balance[<<AuctionModule, d>>]
  PROVE  AuctionsStayPayable'
  BY DEF AuctionsStayPayable, LotsEscrowed, PhaseDetermined, NeverHalts, IsLT

-----------------------------------------------------------------------------
(***************************************************************************)
(* The module on its own.                                                  *)
(***************************************************************************)

\* Every step of the module keeps its invariant.
LEMMA AuctionStep ==
  ASSUME AuctionInv, [AuctionNext]_<<bankVars, auctionVars>>
  PROVE  AuctionInv'
<1>1. CASE StartByUser
  <2>1. PICK u \in Users, o \in Users, l \in LotAmounts \ {0}, n \in BidAmounts :
          \/ StartForwardAuction(balance, u, Coin(StableDenom, l), Coin(GovDenom, n))
          \/ StartReverseAuction(balance, u, Coin(StableDenom, n), Coin(GovDenom, l))
          \/ StartForwardReverseAuction(balance, u, Coin(GovDenom, l), Coin(StableDenom, n), o)
    BY <1>1 DEF StartByUser
  <2>2. /\ u \in Parties /\ o \in Parties
        /\ \A d \in {StableDenom, GovDenom}, x \in {0, l, n} : Coin(d, x) \in Coins
    BY AuctionAssumption DEF Parties, Coins, Coin, Denoms
  <2>4. CASE StartForwardAuction(balance, u, Coin(StableDenom, l), Coin(GovDenom, n))
    BY <2>2, <2>4, StartAuctionInv DEF StartForwardAuction, AuctionTypes
  <2>5. CASE StartReverseAuction(balance, u, Coin(StableDenom, n), Coin(GovDenom, l))
    BY <2>2, <2>5, StartAuctionInv DEF StartReverseAuction, AuctionTypes
  <2>6. CASE StartForwardReverseAuction(balance, u, Coin(GovDenom, l), Coin(StableDenom, n), o)
    <3>1. Coin(StableDenom, n).denom = StableDenom
      BY DEF Coin
    <3> QED BY <2>2, <2>6, <3>1, StartAuctionInv DEF StartForwardReverseAuction, AuctionTypes
  <2> QED BY <2>1, <2>4, <2>5, <2>6
<1>2. CASE HandleMsgPlaceBid
  BY <1>2, PlaceBidInv
<1>3. CASE EndBlocker
  BY <1>3, BeginEndBlockInv, EndBlockerStepInv, NextBlockInv DEF EndBlocker
<1>4. CASE UNCHANGED <<bankVars, auctionVars>>
  BY <1>4, AuctionStutterInv
<1> QED BY <1>1, <1>2, <1>3, <1>4 DEF AuctionNext

\* x/auction on its own: at every moment the store is well typed, the queue
\* is the image of the store, ids are fresh and no auction outlives its end
\* time, for any number of users, auctions, durations and bids.
THEOREM AuctionSafety == AuctionSpec => []AuctionInv
<1>1. AuctionSystemInit => AuctionInv
  BY AuctionInitInv DEF AuctionSystemInit
<1>2. AuctionInv /\ [AuctionNext]_<<bankVars, auctionVars>> => AuctionInv'
  BY AuctionStep
<1> QED BY <1>1, <1>2, PTL DEF AuctionSpec

\* In particular no auction outlives its end time, and the end time no bid can
\* move past its maximum.
THEOREM AuctionsCloseInTime == AuctionSpec => []ClosedInTime
<1>1. AuctionInv => ClosedInTime
  BY DEF AuctionInv
<1> QED BY <1>1, AuctionSafety, PTL

\* And the queue never loses an auction and never keeps a stale entry.
THEOREM QueueAlwaysMatches == AuctionSpec => []QueueMatchesAuctions
<1>1. AuctionInv => QueueMatchesAuctions
  BY DEF AuctionInv
<1> QED BY <1>1, AuctionSafety, PTL

\* The invariant under which auctions stay payable.
PayableInv == BankTypeOK /\ AuctionInv /\ AuctionsStayPayable

\* Genesis, for any endowment.
LEMMA PayableInit ==
  ASSUME AuctionSystemInit
  PROVE  PayableInv
<1>1. balance \in Ledgers
  BY AuctionAssumption DEF AuctionSystemInit, Ledgers
<1>2. supply \in [Denoms -> Nat]
  <2>1. ASSUME NEW d \in Denoms
        PROVE  SumFunctionOnSet(balance, Accounts \X {d}) \in Nat
    <3>1. IsFiniteSet(Accounts \X {d}) /\ \A ad \in Accounts \X {d} : balance[ad] \in Nat
      BY <1>1, AccountsFinite DEF Ledgers
    <3> QED BY <3>1, SumNat
  <2> QED BY <2>1 DEF AuctionSystemInit
<1>3. AuctionInv
  BY AuctionInitInv DEF AuctionSystemInit
<1>4. LotsEscrowed
  <2> SUFFICES ASSUME NEW d \in Denoms
               PROVE  balance[<<AuctionModule, d>>] = SumFunctionOnSet(LotsIn(d), DOMAIN auctions)
    BY LotsAreSums
  <2>1. balance[<<AuctionModule, d>>] = 0
    BY AccountFacts, UsersAssumption DEF AuctionSystemInit, ModuleAccounts
  <2>2. DOMAIN auctions = {}
    BY DEF AuctionSystemInit, AuctionInit
  <2> QED BY <2>1, <2>2, SumEmpty
<1> QED BY <1>1, <1>2, <1>3, <1>4
    DEF PayableInv, BankTypeOK, Ledgers, AuctionsStayPayable, PhaseDetermined, NeverHalts,
        AuctionSystemInit, AuctionInit

\* The module on its own: with bidders who repeat the coin their phase does
\* not negotiate, the module account holds the lots of the open auctions and
\* nothing else, every forward-reverse auction is in one of its phases, and
\* EndBlocker never panics - for any number of users, auctions and blocks.
THEOREM AuctionsAlwaysPayable ==
  ASSUME Matching
  PROVE  AuctionSpec => []AuctionsStayPayable
<1>1. AuctionSystemInit => PayableInv
  BY PayableInit
<1>2. PayableInv /\ [AuctionNext]_<<bankVars, auctionVars>> => PayableInv'
  <2> SUFFICES ASSUME PayableInv, [AuctionNext]_<<bankVars, auctionVars>>
               PROVE  PayableInv'
    OBVIOUS
  <2> USE DEF PayableInv
  <2>1. AuctionInv'
    BY AuctionStep
  <2>2. CASE StartByUser
    <3>1. PICK u \in Users, o \in Users, l \in LotAmounts \ {0}, n \in BidAmounts :
            \/ StartForwardAuction(balance, u, Coin(StableDenom, l), Coin(GovDenom, n))
            \/ StartReverseAuction(balance, u, Coin(StableDenom, n), Coin(GovDenom, l))
            \/ StartForwardReverseAuction(balance, u, Coin(GovDenom, l), Coin(StableDenom, n), o)
      BY <2>2 DEF StartByUser
    <3>2. /\ u \in Parties /\ o \in Parties /\ u \in Accounts
          /\ \A d \in {StableDenom, GovDenom}, x \in {0, l, n} :
               Coin(d, x) \in Coins /\ Coin(d, x).denom = d /\ Coin(d, x).amount = x
      BY AuctionAssumption, AccountFacts, CoinLemma
    <3>3. n \in Nat
      BY AuctionAssumption
    <3>4. \E type \in AuctionTypes, lot, bid, maxBid \in Coins, p \in Parties :
            /\ StartAuction(balance, NewAuction(type, u, lot, bid, maxBid, p))
            /\ IsLT(bid, maxBid) \/ bid = maxBid
      <4>1. CASE StartForwardAuction(balance, u, Coin(StableDenom, l), Coin(GovDenom, n))
        BY <3>2, <4>1 DEF StartForwardAuction, AuctionTypes
      <4>2. CASE StartReverseAuction(balance, u, Coin(StableDenom, n), Coin(GovDenom, l))
        BY <3>2, <4>2 DEF StartReverseAuction, AuctionTypes
      <4>3. CASE StartForwardReverseAuction(balance, u, Coin(GovDenom, l), Coin(StableDenom, n), o)
        <5>1. StartAuction(balance, NewAuction("forwardReverse", u, Coin(GovDenom, l), Coin(StableDenom, 0),
                                               Coin(StableDenom, n), o))
          BY <3>2, <4>3 DEF StartForwardReverseAuction
        <5>2. IsLT(Coin(StableDenom, 0), Coin(StableDenom, n)) \/ Coin(StableDenom, 0) = Coin(StableDenom, n)
          BY <3>3 DEF IsLT, Coin
        <5> QED BY <3>2, <5>1, <5>2 DEF AuctionTypes
      <4> QED BY <3>1, <4>1, <4>2, <4>3
    <3>5. PICK type \in AuctionTypes, lot \in Coins, bid \in Coins, maxBid \in Coins, p \in Parties :
            /\ StartAuction(balance, NewAuction(type, u, lot, bid, maxBid, p))
            /\ IsLT(bid, maxBid) \/ bid = maxBid
      BY <3>4
    <3>6. balance \in Ledgers
      BY DEF BankTypeOK, Ledgers
    <3>7. AuctionsStayPayable'
      BY <3>2, <3>5, <3>6, StartAuctionPayable
    <3>8. balance' \in Ledgers
      <4>1. CanSend(balance, u, lot) /\ balance' = Send(balance, u, AuctionModule, lot)
        BY <3>5 DEF StartAuction, NewAuction
      <4> QED BY <3>2, <3>6, <4>1, AccountFacts, SendLemma
    <3> QED BY <2>1, <2>2, <3>7, <3>8 DEF StartByUser, BankTypeOK, Ledgers
  <2>3. CASE HandleMsgPlaceBid
    BY <2>1, <2>3, PlaceBidPayable, AuctionLedger DEF AuctionInv, BankTypeOK, Ledgers
  <2>4. CASE EndBlockerStep
    BY <2>1, <2>4, EndBlockerStepPayable, AuctionLedger DEF AuctionInv, BankTypeOK, Ledgers
  <2>5. CASE \/ BeginEndBlock /\ UNCHANGED bankVars
             \/ NextBlock
             \/ UNCHANGED <<bankVars, auctionVars>>
    <3>1. UNCHANGED <<bankVars, auctions>> /\ mode' # "halted"
      BY <2>5 DEF BeginEndBlock, NextBlock, auctionVars, AuctionsStayPayable, NeverHalts
    <3> QED BY <2>1, <3>1, StutterPayable DEF bankVars, BankTypeOK
  <2> QED BY <2>2, <2>3, <2>4, <2>5 DEF AuctionNext, EndBlocker
<1>3. PayableInv => AuctionsStayPayable
  BY DEF PayableInv
<1> QED BY <1>1, <1>2, <1>3, PTL DEF AuctionSpec

-----------------------------------------------------------------------------
(***************************************************************************)
(* The stable coin system.                                                 *)
(***************************************************************************)

\* The inductive invariant.  The supply of stable coin is a natural number
\* because it equals the global debt, and SeizeAndStartCollateralAuction
\* leaves no debt behind because a whole seizure takes the whole debt.
SysInv ==
  /\ BankTypeOK
  /\ CsdtTypeOK
  /\ AuctionInv
  /\ LiquidatorTypeOK
  /\ StableCoinIsDebt
  /\ SentWithinTotal
  /\ NoDebtWithoutCollateral

-----------------------------------------------------------------------------
(***************************************************************************)
(* Rounding.                                                               *)
(***************************************************************************)

\* Rounding a natural number of 1/Precision gives a natural number.
LEMMA ChopRoundType ==
  ASSUME NEW n \in Nat
  PROVE  ChopRound(n) \in Nat
<1>1. n \div Precision \in Nat /\ n % Precision \in Nat
  BY PrecisionAssumption
<1> QED BY <1>1, PrecisionAssumption DEF ChopRound

\* A whole number of units is its own rounding.
LEMMA ChopRoundExact ==
  ASSUME NEW n \in Nat
  PROVE  ChopRound(Precision * n) = n
<1>1. (Precision * n) \div Precision = n /\ (Precision * n) % Precision = 0
  BY PrecisionAssumption
<1> QED BY <1>1, PrecisionAssumption DEF ChopRound

\* Selling the whole collateral raises the whole debt.
LEMMA WholeSaleRaisesWholeDebt ==
  ASSUME NEW c \in Nat \ {0}, NEW n \in Nat
  PROVE  RoundInt(QuoInts(c, c) * n) = n
<1> DEFINE PP == Precision * Precision
<1>1. PP \in Nat
  BY PrecisionAssumption
<1>2. c * Precision * Precision = c * PP
  BY PrecisionAssumption
<1>3. (c * PP) \div c = PP
  <2> HIDE DEF PP
  <2> QED BY <1>1
<1>4. QuoInts(c, c) = Precision
  BY <1>2, <1>3, PrecisionAssumption, ChopRoundExact DEF QuoInts
<1> QED BY <1>4, ChopRoundExact DEF RoundInt

-----------------------------------------------------------------------------
(***************************************************************************)
(* x/csdt.                                                                 *)
(***************************************************************************)

\* Against the ledger of this state, b holds n more of the stable coin, and as
\* much of everything else.
StableAdded(b, n) ==
  \A e \in Denoms : Total(b, e) = Total(balance, e) + (IF e = StableDenom THEN n ELSE 0)

\* What ModifyCSDT does to the ledger: the owner pays the change in collateral
\* to the module account and receives the change in debt; the stable coin
\* passes through the module account and leaves no trace there.  Under the
\* guards of ModifyCSDT nothing is overdrawn.
LEMMA ModifiedBalanceLemma ==
  ASSUME BankTypeOK,
         NEW o \in Users, NEW d \in Collaterals, NEW dc \in Int, NEW dd \in Int,
         dc > 0 => CanSend(balance, o, Coin(d, dc)),
         dc < 0 => CanSend(balance, CsdtModule, Coin(d, -dc)),
         dd < 0 => CanSend(balance, o, Coin(StableDenom, -dd))
  PROVE  /\ ModifiedBalance(o, d, dc, dd) \in Ledgers
         /\ ModifiedBalance(o, d, dc, dd)[<<CsdtModule, d>>] = balance[<<CsdtModule, d>>] + dc
         /\ \A e \in Denoms \ {d} :
              ModifiedBalance(o, d, dc, dd)[<<CsdtModule, e>>] = balance[<<CsdtModule, e>>]
         /\ \A e \in Denoms :
              ModifiedBalance(o, d, dc, dd)[<<AuctionModule, e>>] = balance[<<AuctionModule, e>>]
         /\ ModifiedBalance(o, d, dc, dd)[<<o, d>>] = balance[<<o, d>>] - dc
         /\ StableAdded(ModifiedBalance(o, d, dc, dd), dd)
<1> DEFINE b  == ModifiedBalance(o, d, dc, dd)
           od == <<o, d>>
           md == <<CsdtModule, d>>
           os == <<o, StableDenom>>
           ms == <<CsdtModule, StableDenom>>
           AD == Accounts \X Denoms
<1>1. /\ balance \in [AD -> Nat]
      /\ od \in AD /\ md \in AD /\ os \in AD /\ ms \in AD
      /\ od # md /\ od # os /\ od # ms /\ md # os /\ md # ms /\ os # ms
  BY AccountFacts, CollateralsAssumption, UsersAssumption DEF BankTypeOK, ModuleAccounts
<1> DEFINE b1 == IF dc < 0 THEN Send(balance, CsdtModule, o, Coin(d, -dc))
                           ELSE Send(balance, o, CsdtModule, Coin(d, dc))
           b2 == [ad \in AD |-> balance[ad] - (IF ad = od THEN dc ELSE 0)
                                            + (IF ad = md THEN dc ELSE 0)]
<1>2. b1 = b2
  <2>1. ASSUME NEW ad \in AD
        PROVE  b1[ad] = b2[ad]
    BY <1>1 DEF Send, Coin
  <2>2. DOMAIN b1 = AD /\ b1 = [ad \in DOMAIN b1 |-> b1[ad]]
    BY <1>1 DEF Send
  <2> HIDE DEF b1, AD
  <2> QED BY <2>1, <2>2
<1>3. b2 \in [AD -> Int]
  <2> HIDE DEF od, md, AD
  <2> QED BY <1>1
<1>4. b = IF dd < 0
          THEN Burn(Send(b2, o, CsdtModule, Coin(StableDenom, -dd)), CsdtModule, Coin(StableDenom, -dd))
          ELSE Send(Mint(b2, CsdtModule, Coin(StableDenom, dd)), CsdtModule, o, Coin(StableDenom, dd))
  <2>1. b = IF dd < 0
            THEN Burn(Send(b1, o, CsdtModule, Coin(StableDenom, -dd)), CsdtModule, Coin(StableDenom, -dd))
            ELSE Send(Mint(b1, CsdtModule, Coin(StableDenom, dd)), CsdtModule, o, Coin(StableDenom, dd))
    BY DEF ModifiedBalance
  <2> HIDE DEF b1, b2, b
  <2> QED BY <1>2, <2>1
<1> HIDE DEF b, b2
<1>5. b = [ad \in AD |-> b2[ad] + (IF ad = os THEN dd ELSE 0)]
  <2>1. CASE dd < 0
    <3>1. b = Burn(Send(b2, o, CsdtModule, Coin(StableDenom, -dd)), CsdtModule, Coin(StableDenom, -dd))
      BY <1>4, <2>1
    <3>2. DOMAIN b = AD /\ b = [ad \in DOMAIN b |-> b[ad]]
      BY <1>3, <3>1 DEF Burn, Send
    <3>3. ASSUME NEW ad \in AD
          PROVE  b[ad] = b2[ad] + (IF ad = os THEN dd ELSE 0)
      BY <1>1, <1>3, <3>1, SMTT(30) DEF Burn, Send, Coin
    <3> HIDE DEF AD
    <3> QED BY <3>2, <3>3
  <2>2. CASE dd >= 0
    <3>1. b = Send(Mint(b2, CsdtModule, Coin(StableDenom, dd)), CsdtModule, o, Coin(StableDenom, dd))
      BY <1>4, <2>2
    <3>2. DOMAIN b = AD /\ b = [ad \in DOMAIN b |-> b[ad]]
      BY <1>3, <3>1 DEF Mint, Send
    <3>3. ASSUME NEW ad \in AD
          PROVE  b[ad] = b2[ad] + (IF ad = os THEN dd ELSE 0)
      BY <1>1, <1>3, <3>1 DEF Mint, Send, Coin
    <3> HIDE DEF AD
    <3> QED BY <3>2, <3>3
  <2> QED BY <2>1, <2>2
<1>6. /\ balance[od] - dc \in Nat
      /\ balance[md] + dc \in Nat
      /\ balance[os] + dd \in Nat
  BY <1>1 DEF CanSend, Coin
<1>7. ASSUME NEW ad \in AD
      PROVE  /\ b[ad] \in Nat
             /\ ad = md => b[ad] = balance[ad] + dc
             /\ ad = od => b[ad] = balance[ad] - dc
             /\ ad \notin {od, md, os} => b[ad] = balance[ad]
  <2> HIDE DEF od, md, os, AD
  <2> QED BY <1>1, <1>5, <1>6 DEF b2
<1>8. b \in Ledgers
  BY <1>5, <1>7 DEF Ledgers
<1>9. /\ \A e \in Denoms \ {d} : b[<<CsdtModule, e>>] = balance[<<CsdtModule, e>>]
      /\ \A e \in Denoms : b[<<AuctionModule, e>>] = balance[<<AuctionModule, e>>]
  BY <1>1, <1>7, AccountFacts
<1>10. StableAdded(b, dd)
  <2>0. /\ balance \in IntLedgers /\ o \in Accounts /\ CsdtModule \in Accounts
        /\ d \in Denoms /\ StableDenom \in Denoms
    BY AccountFacts DEF BankTypeOK, IntLedgers
  <2>1. \A e \in Denoms, m \in Int : Coin(e, m).denom = e /\ Coin(e, m).amount = m
    BY DEF Coin
  <2>2. b1 \in IntLedgers /\ \A e \in Denoms : Total(balance, e) \in Int /\ Total(b1, e) = Total(balance, e)
    <3>1. -dc \in Int
      OBVIOUS
    <3> QED BY <2>0, <2>1, <3>1, SendTotal
  <2>3. b2 \in IntLedgers /\ \A e \in Denoms : Total(balance, e) \in Int /\ Total(b2, e) = Total(balance, e)
    <3> HIDE DEF b1
    <3> QED BY <1>2, <2>2
  <2> DEFINE c  == Coin(StableDenom, -dd)
             c2 == Coin(StableDenom, dd)
  <2>4. CASE dd < 0
    <3>1. c.denom = StableDenom /\ c.amount = -dd /\ c.amount \in Int
      BY <2>0, <2>1
    <3> HIDE DEF c
    <3> DEFINE b3 == Send(b2, o, CsdtModule, c)
    <3>2. b3 \in IntLedgers /\ \A e \in Denoms : Total(b3, e) = Total(b2, e)
      BY <2>0, <2>3, <3>1, SendTotal
    <3>3. b = Burn(b3, CsdtModule, c)
      BY <1>4, <2>4 DEF c
    <3> HIDE DEF b3
    <3>4. \A e \in Denoms : Total(b, e) = Total(b3, e) - (IF e = StableDenom THEN c.amount ELSE 0)
      BY <2>0, <3>1, <3>2, <3>3, BurnTotal
    <3>5. ASSUME NEW e \in Denoms
          PROVE  Total(b, e) = Total(balance, e) + (IF e = StableDenom THEN dd ELSE 0)
      <4>1. Total(b, e) = Total(balance, e) - (IF e = StableDenom THEN -dd ELSE 0) /\ Total(balance, e) \in Int
        BY <2>3, <3>1, <3>2, <3>4
      <4> QED BY <4>1
    <3> QED BY <3>5 DEF StableAdded
  <2>5. CASE dd >= 0
    <3>1. c2.denom = StableDenom /\ c2.amount = dd /\ c2.amount \in Int
      BY <2>0, <2>1
    <3> HIDE DEF c2
    <3> DEFINE b3 == Mint(b2, CsdtModule, c2)
    <3>2. /\ b3 \in IntLedgers
          /\ \A e \in Denoms : Total(b3, e) = Total(b2, e) + (IF e = StableDenom THEN c2.amount ELSE 0)
      BY <2>0, <2>3, <3>1, MintTotal
    <3>3. b = Send(b3, CsdtModule, o, c2)
      BY <1>4, <2>5 DEF c2
    <3> HIDE DEF b3
    <3>4. \A e \in Denoms : Total(b, e) = Total(b3, e)
      BY <2>0, <3>1, <3>2, <3>3, SendTotal
    <3> QED BY <2>3, <3>1, <3>2, <3>4 DEF StableAdded
  <2> QED BY <2>4, <2>5
<1> QED BY <1>1, <1>7, <1>8, <1>9, <1>10 DEF b

\* The coins of every denomination move with their supply.
CoinsMoveWithSupply ==
  \A d \in Denoms : Total(balance', d) = Total(balance, d) + (supply'[d] - supply[d])

\* A step of Next that keeps the invariant, the books and the coins, and is a
\* step of the debt book or leaves it alone.
GoodStep == /\ SysInv'
            /\ CoinsMoveWithSupply
            /\ BooksStay \/ \E o \in Users, d \in Collaterals : BooksMoveWith(o, d)
            /\ Book!BookNext \/ UNCHANGED Book!bookVars

\* Coins that stay, with their supply.
LEMMA CoinsStay ==
  ASSUME BankTypeOK, \A d \in Denoms : Total(balance', d) = Total(balance, d), UNCHANGED supply
  PROVE  CoinsMoveWithSupply
<1> SUFFICES ASSUME NEW d \in Denoms
             PROVE  Total(balance', d) = Total(balance, d) + (supply'[d] - supply[d])
  BY DEF CoinsMoveWithSupply
<1>1. Total(balance, d) \in Int
  <2>1. IsFiniteSet(Accounts \X {d}) /\ \A ad \in Accounts \X {d} : balance[ad] \in Int
    BY AccountsFinite DEF BankTypeOK
  <2> QED BY <2>1, SumInt DEF Total
<1>2. supply'[d] - supply[d] = 0
  BY DEF BankTypeOK
<1> QED BY <1>1, <1>2

\* No debt is negative when the invariant holds.
LEMMA NoNegativeDebt == SysInv' => Book!NonNegative
  BY DEF SysInv, CsdtTypeOK, LiquidatorTypeOK, Book!NonNegative

\* Facts about the debt book in a state of the system.
LEMMA BookTypes ==
  ASSUME SysInv
  PROVE  /\ debt \in [Keys -> Nat]
         /\ seizedDebt.Total \in Nat
         /\ supply[StableDenom] \in Nat
         /\ supply[StableDenom] = globalDebt
  BY DEF SysInv, CsdtTypeOK, LiquidatorTypeOK, StableCoinIsDebt

\* ModifyCSDT mints what it adds to the debt and burns what it takes from it.
LEMMA ModifyCSDTGood ==
  ASSUME SysInv,
         NEW o \in Users, NEW d \in Collaterals, NEW dc \in Int, NEW dd \in Int,
         ModifyCSDT(o, d, dc, dd), UNCHANGED <<auctionVars, seizedDebt>>
  PROVE  GoodStep
<1> DEFINE coll  == collateral[<<o, d>>] + dc
           owed  == debt[<<o, d>>] + dd
           total == TotalDebt(d) + dd
<1>1. /\ coll \in Nat /\ owed \in Nat /\ total \in Nat
      /\ globalDebt + dd \in Nat
      /\ ~IsUnderCollateralized(coll, owed, price[d], collateralParams[d].ratio)
      /\ collateral' = [collateral EXCEPT ![<<o, d>>] = coll]
      /\ debt' = [debt EXCEPT ![<<o, d>>] = owed]
      /\ globalDebt' = globalDebt + dd
      /\ collateralState' = [collateralState EXCEPT ![d] = total]
      /\ UNCHANGED <<collateralParams, price>>
      /\ d \in DOMAIN collateralParams
  BY DEF ModifyCSDT, ChangeAllowed, SysInv, CsdtTypeOK, Keys, TotalDebt, NotFound, IsCollateralPresent
<1>2. /\ balance' \in Ledgers
      /\ balance'[<<CsdtModule, d>>] = balance[<<CsdtModule, d>>] + dc
      /\ \A e \in Denoms \ {d} : balance'[<<CsdtModule, e>>] = balance[<<CsdtModule, e>>]
  BY ModifiedBalanceLemma DEF ModifyCSDT, ChangeAllowed, SysInv
<1>3. /\ supply' \in [Denoms -> Nat]
      /\ supply'[StableDenom] = globalDebt'
  <2>0. Coin(StableDenom, dd).denom = StableDenom /\ 1 * Coin(StableDenom, dd).amount = dd
    BY DEF Coin
  <2>1. supply' = [supply EXCEPT ![StableDenom] = @ + dd]
    BY <2>0 DEF ModifyCSDT, ChangeAllowed, SupplyPlus
  <2> QED BY <1>1, <2>1, AccountFacts DEF SysInv, BankTypeOK, StableCoinIsDebt, CsdtTypeOK
<1>4. CsdtTypeOK'
  BY <1>1 DEF SysInv, CsdtTypeOK, Keys
<1>5. NoDebtWithoutCollateral'
  <2>1. coll = 0 => owed = 0
    <3>1. price[d] \in Nat /\ collateralParams[d].ratio \in Nat \ {0}
      BY <1>1, CsdtAssumption DEF SysInv, CsdtTypeOK
    <3> QED BY <1>1, <3>1 DEF IsUnderCollateralized
  <2> QED BY <1>1, <2>1 DEF SysInv, NoDebtWithoutCollateral, CsdtTypeOK, Keys
<1>6. AuctionInv' /\ LiquidatorTypeOK' /\ SentWithinTotal'
  BY AuctionStutterInv DEF SysInv, LiquidatorTypeOK, SentWithinTotal
<1>7. SysInv'
  BY <1>2, <1>3, <1>4, <1>5, <1>6 DEF SysInv, BankTypeOK, Ledgers, StableCoinIsDebt
<1>8. BooksMoveWith(o, d)
  <2>1. \A k \in Keys \ {<<o, d>>} : debt'[k] = debt[k] /\ collateral'[k] = collateral[k]
    BY <1>1 DEF SysInv, CsdtTypeOK
  <2>2. debt'[<<o, d>>] = owed /\ collateral'[<<o, d>>] = coll
    BY <1>1 DEF SysInv, CsdtTypeOK, Keys
  <2>3. TotalDebt(d)' = total /\ \A e \in Collaterals \ {d} : TotalDebt(e)' = TotalDebt(e)
    BY <1>1 DEF SysInv, CsdtTypeOK, TotalDebt, NotFound
  <2>4. /\ debt[<<o, d>>] \in Nat /\ collateral[<<o, d>>] \in Nat /\ globalDebt \in Nat
        /\ TotalDebt(d) \in Nat /\ balance[<<CsdtModule, d>>] \in Nat
        /\ seizedDebt.Total \in Nat /\ seizedDebt' = seizedDebt
    BY AccountFacts DEF SysInv, CsdtTypeOK, Keys, TotalDebt, NotFound, BankTypeOK, LiquidatorTypeOK
  <2>5. \A e \in Collaterals \ {d} : balance'[<<CsdtModule, e>>] = balance[<<CsdtModule, e>>]
    BY <1>2, AccountFacts
  <2> HIDE DEF coll, owed, total
  <2>6. /\ globalDebt' - seizedDebt'.Total - debt'[<<o, d>>]
             = globalDebt - seizedDebt.Total - debt[<<o, d>>]
        /\ TotalDebt(d)' - debt'[<<o, d>>] = TotalDebt(d) - debt[<<o, d>>]
        /\ balance'[<<CsdtModule, d>>] - collateral'[<<o, d>>]
             = balance[<<CsdtModule, d>>] - collateral[<<o, d>>]
    BY <1>1, <1>2, <2>2, <2>3, <2>4 DEF coll, owed, total
  <2> QED BY <2>1, <2>3, <2>5, <2>6 DEF BooksMoveWith
<1>9. Book!BookNext \/ UNCHANGED Book!bookVars
  <2> DEFINE k == <<o, d>>
  <2>1. k \in Keys
    BY DEF Keys
  <2>2. /\ debt \in [Keys -> Nat] /\ supply[StableDenom] \in Nat
        /\ supply'[StableDenom] = supply[StableDenom] + dd
        /\ seizedDebt' = seizedDebt
    BY <1>1, <1>3, BookTypes
  <2>3. debt' = [debt EXCEPT ![k] = @ + dd]
    BY <1>1, <2>1, <2>2
  <2> HIDE DEF k
  <2>4. CASE dd = 0
    <3>1. debt' = debt
      BY <2>1, <2>2, <2>3, <2>4
    <3> QED BY <2>2, <2>4, <3>1 DEF Book!bookVars
  <2>5. CASE dd # 0
    <3>1. supply'[StableDenom] - supply[StableDenom] = dd
      BY <2>2
    <3>2. debt' = [debt EXCEPT ![k] = @ + (supply'[StableDenom] - supply[StableDenom])]
      BY <2>3, <3>1
    <3>3. supply'[StableDenom] # supply[StableDenom]
      BY <2>2, <2>5
    <3>4. Book!Change(k)
      BY <2>2, <3>2, <3>3 DEF Book!Change
    <3> QED BY <1>7, <2>1, <3>4, NoNegativeDebt DEF Book!BookNext
  <2> QED BY <2>4, <2>5
<1>10. CoinsMoveWithSupply
  <2>1. \A e \in Denoms : Total(balance', e) = Total(balance, e) + (IF e = StableDenom THEN dd ELSE 0)
    <3>1. /\ BankTypeOK
          /\ dc > 0 => CanSend(balance, o, Coin(d, dc))
          /\ dc < 0 => CanSend(balance, CsdtModule, Coin(d, -dc))
          /\ dd < 0 => CanSend(balance, o, Coin(StableDenom, -dd))
          /\ balance' = ModifiedBalance(o, d, dc, dd)
      BY DEF ModifyCSDT, ChangeAllowed, SysInv
    <3>2. StableAdded(ModifiedBalance(o, d, dc, dd), dd)
      BY <3>1, ModifiedBalanceLemma
    <3>3. StableAdded(balance', dd)
      BY <3>1, <3>2, Zenon
    <3> QED BY <3>3 DEF StableAdded
  <2>2. \A e \in Denoms : supply'[e] - supply[e] = (IF e = StableDenom THEN dd ELSE 0)
    <3>1. Coin(StableDenom, dd).denom = StableDenom /\ 1 * Coin(StableDenom, dd).amount = dd
      BY DEF Coin
    <3>2. supply' = [supply EXCEPT ![StableDenom] = @ + dd] /\ supply \in [Denoms -> Nat]
      BY <3>1 DEF ModifyCSDT, ChangeAllowed, SupplyPlus, SysInv, BankTypeOK
    <3> QED BY <3>2
  <2> QED BY <2>1, <2>2 DEF CoinsMoveWithSupply
<1> QED BY <1>7, <1>8, <1>9, <1>10 DEF GoodStep

\* Nominees change the terms, not the books.
LEMMA ParamsGood ==
  ASSUME SysInv,
         NEW nominee \in Users, NEW d \in Collaterals, NEW p \in CollateralParams,
         AddCollateralParam(nominee, d, p) \/ SetCollateralParam(nominee, d, p),
         UNCHANGED <<auctionVars, seizedDebt>>
  PROVE  GoodStep
<1>1. UNCHANGED <<balance, supply, collateral, debt, globalDebt, collateralState, price>>
  BY DEF AddCollateralParam, SetCollateralParam, bankVars
<1>2. /\ DOMAIN collateralParams' \subseteq Collaterals
      /\ collateralParams' \in [DOMAIN collateralParams' -> CollateralParams]
  BY DEF AddCollateralParam, SetCollateralParam, SysInv, CsdtTypeOK, IsCollateralPresent
<1>3. AuctionInv'
  BY AuctionStutterInv DEF SysInv
<1>4. CoinsMoveWithSupply
  BY <1>1, CoinsStay DEF SysInv
<1> QED BY <1>1, <1>2, <1>3, <1>4
    DEF GoodStep, SysInv, BankTypeOK, CsdtTypeOK, LiquidatorTypeOK, StableCoinIsDebt,
        SentWithinTotal, NoDebtWithoutCollateral, BooksStay, TotalDebt, Book!bookVars

-----------------------------------------------------------------------------
(***************************************************************************)
(* x/auction in the composed system: the steps that leave the books of the *)
(* csdt module and the liquidator alone.                                   *)
(***************************************************************************)

\* Steps that only move coins, and none of them to or from the csdt module.
LEMMA CoinsMoveGood ==
  ASSUME SysInv, AuctionInv', balance' \in Ledgers,
         \A d \in Denoms : /\ balance'[<<CsdtModule, d>>] = balance[<<CsdtModule, d>>]
                           /\ Total(balance', d) = Total(balance, d),
         price' \in [Collaterals -> Prices],
         UNCHANGED <<supply, csdtVars, seizedDebt>>
  PROVE  GoodStep
<1>1. UNCHANGED <<collateral, debt, globalDebt, collateralState, collateralParams>>
  BY DEF csdtVars
<1>2. SysInv'
  BY <1>1 DEF SysInv, BankTypeOK, Ledgers, CsdtTypeOK, LiquidatorTypeOK, StableCoinIsDebt,
              SentWithinTotal, NoDebtWithoutCollateral
<1>3. BooksStay
  BY <1>1, AccountFacts DEF BooksStay, TotalDebt
<1>4. UNCHANGED Book!bookVars
  BY <1>1 DEF Book!bookVars
<1>5. CoinsMoveWithSupply
  BY CoinsStay DEF SysInv
<1> QED BY <1>2, <1>3, <1>4, <1>5 DEF GoodStep

\* MsgPlaceBid, and a step of the auction module's EndBlocker.
LEMMA AuctionStepGood ==
  ASSUME SysInv, BidStep \/ CloseDueAuction
  PROVE  GoodStep
<1>1. BankTypeOK /\ AuctionInv /\ AuctionTypeOK
  BY DEF SysInv, AuctionInv
<1>2. HandleMsgPlaceBid \/ EndBlockerStep
  BY DEF BidStep, CloseDueAuction
<1>3. AuctionInv'
  BY <1>1, <1>2, PlaceBidInv, EndBlockerStepInv
<1>4. UNCHANGED <<csdtVars, seizedDebt>> /\ price' \in [Collaterals -> Prices]
  BY DEF BidStep, CloseDueAuction, SysInv, CsdtTypeOK
<1> QED BY <1>1, <1>2, <1>3, <1>4, AuctionLedger, CoinsMoveGood

\* The oracle's turn, and the commit of the block, move no coins.
LEMMA OracleAndCommitGood ==
  ASSUME SysInv, OracleEndBlock \/ Commit
  PROVE  GoodStep
<1>1. balance \in Ledgers /\ price \in [Collaterals -> Prices]
  BY DEF SysInv, BankTypeOK, Ledgers, CsdtTypeOK
<1>2. UNCHANGED <<balance, supply, csdtVars, seizedDebt>>
  BY DEF OracleEndBlock, Commit, NextBlock, bankVars
<1>3. price' \in [Collaterals -> Prices]
  BY <1>1 DEF OracleEndBlock, Commit
<1>4. AuctionInv'
  BY BeginEndBlockInv, NextBlockInv DEF OracleEndBlock, Commit, SysInv
<1> QED BY <1>1, <1>2, <1>3, <1>4, CoinsMoveGood

-----------------------------------------------------------------------------
(***************************************************************************)
(* x/liquidator.                                                           *)
(***************************************************************************)

\* What is left of a CSDT after a seizure has collateral, or no debt.
LEMMA SeizedAmounts ==
  ASSUME SysInv, NEW o \in Users, NEW d \in Collaterals,
         d \in DOMAIN AuctionSize, collateral[<<o, d>>] # 0
  PROVE  /\ CollateralToSell(o, d) \in Nat
         /\ StableToRaise(o, d) \in Nat
         /\ CollateralToSell(o, d) = collateral[<<o, d>>] => StableToRaise(o, d) = debt[<<o, d>>]
<1> DEFINE c == CollateralToSell(o, d)
           k == collateral[<<o, d>>]
           n == debt[<<o, d>>]
<1>1. k \in Nat \ {0} /\ n \in Nat
  BY DEF SysInv, CsdtTypeOK, Keys
<1>2. c \in Nat
  BY <1>1, LiquidatorAssumption DEF CollateralToSell, SmallerOf
<1> HIDE DEF c, k, n
<1>3. QuoInts(c, k) \in Nat
  <2>1. c * Precision * Precision \in Nat
    BY <1>2, PrecisionAssumption
  <2>2. (c * Precision * Precision) \div k \in Nat
    BY <1>1, <2>1
  <2> QED BY <2>2, ChopRoundType DEF QuoInts
<1>4. StableToRaise(o, d) = RoundInt(QuoInts(c, k) * n)
  BY DEF StableToRaise, c, k, n
<1>5. StableToRaise(o, d) \in Nat
  <2>1. QuoInts(c, k) * n \in Nat
    BY <1>1, <1>3
  <2> QED BY <1>4, <2>1, ChopRoundType DEF RoundInt
<1>6. c = k => StableToRaise(o, d) = n
  BY <1>1, <1>4, WholeSaleRaisesWholeDebt
<1> QED BY <1>2, <1>5, <1>6 DEF c, k, n

\* A seizure moves debt from a CSDT to the liquidator's books, and collateral
\* from the csdt module account to the lot.
LEMMA SeizeGood ==
  ASSUME SysInv, NEW o \in Users, NEW d \in Collaterals,
         SeizeAndStartCollateralAuction(o, d)
  PROVE  GoodStep
<1> DEFINE c   == CollateralToSell(o, d)
           n   == StableToRaise(o, d)
           lot == Coin(d, c)
           max == Coin(StableDenom, n)
           b   == Send(balance, CsdtModule, LiquidatorModule, lot)
<1>1. /\ c \in Nat /\ n \in Nat
      /\ c = collateral[<<o, d>>] => n = debt[<<o, d>>]
  BY SeizedAmounts DEF SeizeAndStartCollateralAuction
<1>2. /\ PartialSeizeCSDT(o, d, lot.amount, n)
      /\ seizedDebt' = [seizedDebt EXCEPT !.Total = @ + n]
      /\ CanSend(balance, CsdtModule, lot)
      /\ StartForwardReverseAuction(b, LiquidatorModule, lot, max, o)
      /\ UNCHANGED <<supply, globalDebt, collateralParams, price>>
  BY DEF SeizeAndStartCollateralAuction
<1> HIDE DEF c, n
<1>3. /\ lot \in Coins /\ lot.denom = d /\ lot.amount = c
      /\ max \in Coins /\ max.denom = StableDenom
      /\ Coin(StableDenom, 0) \in Coins
  BY <1>1, AccountFacts, CoinLemma
<1> HIDE DEF lot, max
<1>4. /\ c <= collateral[<<o, d>>] /\ n <= debt[<<o, d>>]
      /\ collateralState[d] \in Nat /\ n <= collateralState[d]
      /\ collateral' = [collateral EXCEPT ![<<o, d>>] = @ - c]
      /\ debt' = [debt EXCEPT ![<<o, d>>] = @ - n]
      /\ collateralState' = [collateralState EXCEPT ![d] = @ - n]
  BY <1>1, <1>2, <1>3 DEF PartialSeizeCSDT, SysInv, CsdtTypeOK
<1>5. /\ balance' \in Ledgers
      /\ balance'[<<CsdtModule, d>>] = balance[<<CsdtModule, d>>] - c
      /\ \A e \in Denoms \ {d} : balance'[<<CsdtModule, e>>] = balance[<<CsdtModule, e>>]
      /\ \A e \in Denoms : Total(balance', e) = Total(balance, e)
  <2>1. /\ CanSend(b, LiquidatorModule, lot)
        /\ balance' = Send(b, LiquidatorModule, AuctionModule, lot)
    BY <1>2 DEF StartForwardReverseAuction, StartAuction, NewAuction
  <2>2. balance \in Ledgers
    BY DEF SysInv, BankTypeOK, Ledgers
  <2>3. b \in Ledgers
    BY <1>2, <1>3, <2>2, AccountFacts, SendLemma
  <2>4. \A e \in Denoms \ {d} : b[<<CsdtModule, e>>] = balance[<<CsdtModule, e>>]
    BY <1>2, <1>3, <2>2, AccountFacts DEF Send, Ledgers
  <2>5. b[<<CsdtModule, d>>] = balance[<<CsdtModule, d>>] - c
    BY <1>1, <1>2, <1>3, <2>2, AccountFacts DEF Send, Ledgers
  <2>6. \A e \in Denoms : Total(b, e) = Total(balance, e)
    <3>1. balance \in IntLedgers /\ lot.denom \in Denoms /\ lot.amount \in Int
      BY <1>1, <1>3, <2>2, AccountFacts DEF Ledgers, IntLedgers
    <3> QED BY <3>1, AccountFacts, SendTotal
  <2> HIDE DEF b
  <2>7. /\ balance' \in Ledgers
        /\ \A e \in Denoms : /\ balance'[<<CsdtModule, e>>] = b[<<CsdtModule, e>>]
                             /\ Total(balance', e) = Total(b, e)
    BY <1>3, <2>1, <2>3, AccountFacts, SendApart
  <2> QED BY <2>4, <2>5, <2>6, <2>7, AccountFacts
<1>6. AuctionInv'
  <2>1. StartAuction(b, NewAuction("forwardReverse", LiquidatorModule, lot,
                                   Coin(StableDenom, 0), max, o))
    BY <1>2, <1>3 DEF StartForwardReverseAuction
  <2>2. AuctionInv /\ LiquidatorModule \in Parties /\ o \in Parties
        /\ "forwardReverse" \in AuctionTypes
    BY AccountFacts DEF SysInv, AuctionTypes
  <2> HIDE DEF b
  <2> QED BY <1>3, <2>1, <2>2, StartAuctionInv
<1>7. CsdtTypeOK'
  BY <1>1, <1>2, <1>4 DEF SysInv, CsdtTypeOK, Keys
<1>8. LiquidatorTypeOK' /\ SentWithinTotal' /\ seizedDebt'.Total = seizedDebt.Total + n
  BY <1>1, <1>2 DEF SysInv, LiquidatorTypeOK, SentWithinTotal
<1>9. NoDebtWithoutCollateral'
  <2>1. collateral[<<o, d>>] \in Nat /\ debt[<<o, d>>] \in Nat
    BY DEF SysInv, CsdtTypeOK, Keys
  <2>2. /\ debt'[<<o, d>>] = debt[<<o, d>>] - n
        /\ collateral'[<<o, d>>] = collateral[<<o, d>>] - c
    BY <1>4 DEF SysInv, CsdtTypeOK, Keys
  <2>3. collateral'[<<o, d>>] = 0 => debt'[<<o, d>>] = 0
    BY <1>1, <2>1, <2>2
  <2>4. \A k \in Keys \ {<<o, d>>} : collateral'[k] = collateral[k] /\ debt'[k] = debt[k]
    BY <1>4 DEF SysInv, CsdtTypeOK
  <2> QED BY <2>3, <2>4 DEF SysInv, NoDebtWithoutCollateral, Keys
<1>10. SysInv'
  BY <1>2, <1>5, <1>6, <1>7, <1>8, <1>9 DEF SysInv, BankTypeOK, Ledgers, StableCoinIsDebt
<1>11. BooksMoveWith(o, d)
  <2>1. /\ \A k \in Keys \ {<<o, d>>} : debt'[k] = debt[k] /\ collateral'[k] = collateral[k]
        /\ debt'[<<o, d>>] = debt[<<o, d>>] - n
        /\ collateral'[<<o, d>>] = collateral[<<o, d>>] - c
    BY <1>4 DEF SysInv, CsdtTypeOK, Keys
  <2>2. TotalDebt(d)' = TotalDebt(d) - n /\ \A e \in Collaterals \ {d} : TotalDebt(e)' = TotalDebt(e)
    BY <1>1, <1>4 DEF SysInv, CsdtTypeOK, TotalDebt, NotFound
  <2>3. /\ debt[<<o, d>>] \in Nat /\ collateral[<<o, d>>] \in Nat /\ globalDebt \in Nat
        /\ TotalDebt(d) \in Nat /\ balance[<<CsdtModule, d>>] \in Nat /\ seizedDebt.Total \in Nat
    BY AccountFacts DEF SysInv, CsdtTypeOK, Keys, TotalDebt, NotFound, BankTypeOK, LiquidatorTypeOK
  <2>4. \A e \in Collaterals \ {d} : balance'[<<CsdtModule, e>>] = balance[<<CsdtModule, e>>]
    BY <1>5, AccountFacts
  <2>5. /\ globalDebt' - seizedDebt'.Total - debt'[<<o, d>>]
             = globalDebt - seizedDebt.Total - debt[<<o, d>>]
        /\ TotalDebt(d)' - debt'[<<o, d>>] = TotalDebt(d) - debt[<<o, d>>]
        /\ balance'[<<CsdtModule, d>>] - collateral'[<<o, d>>]
             = balance[<<CsdtModule, d>>] - collateral[<<o, d>>]
    BY <1>1, <1>2, <1>5, <1>8, <2>1, <2>2, <2>3
  <2> QED BY <2>1, <2>2, <2>4, <2>5 DEF BooksMoveWith
<1>12. Book!BookNext \/ UNCHANGED Book!bookVars
  <2> DEFINE k == <<o, d>>
  <2>1. k \in Keys
    BY DEF Keys
  <2>2. /\ debt \in [Keys -> Nat] /\ seizedDebt.Total \in Nat
        /\ supply' = supply
        /\ seizedDebt'.Total = seizedDebt.Total + n
    BY <1>2, <1>8, BookTypes
  <2>3. debt' = [debt EXCEPT ![k] = @ - n]
    BY <1>4
  <2> HIDE DEF k
  <2>4. CASE n = 0
    <3>1. debt' = debt
      BY <2>1, <2>2, <2>3, <2>4
    <3> QED BY <2>2, <2>4, <3>1 DEF Book!bookVars
  <2>5. CASE n # 0
    <3>1. seizedDebt'.Total - seizedDebt.Total = n /\ seizedDebt'.Total > seizedDebt.Total
      BY <1>1, <2>2, <2>5
    <3>2. Book!Seize(k)
      BY <2>2, <2>3, <3>1 DEF Book!Seize
    <3> QED BY <1>10, <2>1, <3>2, NoNegativeDebt DEF Book!BookNext
  <2> QED BY <2>4, <2>5
<1>13. CoinsMoveWithSupply
  BY <1>2, <1>5, CoinsStay DEF SysInv
<1> QED BY <1>10, <1>11, <1>12, <1>13 DEF GoodStep

\* Settling takes the same amount from the seized debt, the global debt and the
\* supply of stable coin; the rest of MsgStartDebtAuction mints governance coin
\* and escrows it.
LEMMA StartDebtAuctionGood ==
  ASSUME SysInv, StartDebtAuction
  PROVE  GoodStep
<1> DEFINE L      == <<LiquidatorModule, StableDenom>>
           amount == IF SettleAmount <= globalDebt THEN SettleAmount ELSE 0
           sd     == IF SettleAmount <= globalDebt THEN Settle(seizedDebt, SettleAmount) ELSE seizedDebt
           burned == Coin(StableDenom, amount)
           minted == Coin(GovDenom, MintedGov)
           b1     == Burn(balance, LiquidatorModule, burned)
           b      == Mint(b1, LiquidatorModule, minted)
           price0 == Coin(StableDenom, DebtAuctionSize)
<1>1. /\ balance[L] = burned.amount
      /\ Available(sd) >= DebtAuctionSize
      /\ IF SettleAmount <= globalDebt THEN ReduceGlobalDebt(SettleAmount) ELSE UNCHANGED globalDebt
      /\ supply' = [supply EXCEPT ![StableDenom] = @ - burned.amount, ![GovDenom] = @ + MintedGov]
      /\ StartReverseAuction(b, LiquidatorModule, price0, minted)
      /\ seizedDebt' = [sd EXCEPT !.SentToAuction = @ + DebtAuctionSize]
      /\ UNCHANGED <<collateral, debt, collateralState, collateralParams, price>>
  BY DEF StartDebtAuction
<1>2. /\ balance \in Ledgers /\ balance[L] \in Nat /\ globalDebt \in Nat
      /\ seizedDebt \in [Total : Nat, SentToAuction : Nat]
      /\ seizedDebt.SentToAuction <= seizedDebt.Total
      /\ SettleAmount \in Nat /\ SettleAmount <= seizedDebt.Total
  BY AccountFacts DEF SysInv, BankTypeOK, Ledgers, CsdtTypeOK, LiquidatorTypeOK, SentWithinTotal,
     SettleAmount, SmallerOf
<1>3. /\ amount \in Nat
      /\ sd \in [Total : Nat, SentToAuction : Nat]
      /\ sd.Total = seizedDebt.Total - amount
      /\ sd.SentToAuction <= sd.Total
      /\ globalDebt' = globalDebt - amount
      /\ globalDebt' \in Nat
  BY <1>1, <1>2 DEF Settle, ReduceGlobalDebt
<1> HIDE DEF amount, sd
<1>4. /\ burned \in Coins /\ burned.denom = StableDenom /\ burned.amount = amount
      /\ minted \in Coins /\ price0 \in Coins /\ minted.denom = GovDenom /\ minted.amount = MintedGov
      /\ MintedGov \in Nat
  BY <1>3, AccountFacts, CoinLemma, LiquidatorAssumption DEF MintedGov
<1> HIDE DEF burned, minted, price0
<1>5. /\ balance' \in Ledgers
      /\ \A e \in Denoms : balance'[<<CsdtModule, e>>] = balance[<<CsdtModule, e>>]
      /\ \A e \in Denoms : /\ Total(balance, e) \in Int
                           /\ Total(balance', e) = Total(balance, e)
                                - (IF e = StableDenom THEN amount ELSE 0) + (IF e = GovDenom THEN MintedGov ELSE 0)
  <2>1. b1 \in Ledgers
    <3>1. CanSend(balance, LiquidatorModule, burned)
      BY <1>1, <1>2, <1>4 DEF CanSend
    <3> QED BY <1>2, <1>4, <3>1, AccountFacts, BurnLemma
  <2>2. \A e \in Denoms : b1[<<CsdtModule, e>>] = balance[<<CsdtModule, e>>]
    BY <1>2, AccountFacts DEF Burn, Ledgers
  <2>7. \A e \in Denoms : /\ Total(balance, e) \in Int
                          /\ Total(b1, e) = Total(balance, e) - (IF e = StableDenom THEN amount ELSE 0)
    <3>1. balance \in IntLedgers /\ burned.denom \in Denoms /\ burned.amount \in Int
      BY <1>2, <1>3, <1>4, AccountFacts DEF Ledgers, IntLedgers
    <3> QED BY <1>4, <3>1, AccountFacts, BurnTotal
  <2> HIDE DEF b1
  <2>3. b \in Ledgers
    BY <1>4, <2>1, AccountFacts, MintLemma
  <2>4. \A e \in Denoms : b[<<CsdtModule, e>>] = b1[<<CsdtModule, e>>]
    BY <2>1, AccountFacts DEF Mint, Ledgers
  <2>8. \A e \in Denoms : /\ Total(b1, e) \in Int
                          /\ Total(b, e) = Total(b1, e) + (IF e = GovDenom THEN MintedGov ELSE 0)
    <3>1. b1 \in IntLedgers /\ minted.denom \in Denoms /\ minted.amount \in Int
      BY <1>4, <2>1, AccountFacts DEF Ledgers, IntLedgers
    <3> QED BY <1>4, <3>1, AccountFacts, MintTotal
  <2> HIDE DEF b
  <2>5. /\ CanSend(b, LiquidatorModule, minted)
        /\ balance' = Send(b, LiquidatorModule, AuctionModule, minted)
    BY <1>1 DEF StartReverseAuction, StartAuction, NewAuction
  <2>6. /\ balance' \in Ledgers
        /\ \A e \in Denoms : /\ balance'[<<CsdtModule, e>>] = b[<<CsdtModule, e>>]
                             /\ Total(balance', e) = Total(b, e)
    BY <1>4, <2>3, <2>5, AccountFacts, SendApart
  <2> QED BY <2>2, <2>4, <2>6, <2>7, <2>8
<1>6. AuctionInv'
  <2>1. StartAuction(b, NewAuction("reverse", LiquidatorModule, minted, price0, price0, LiquidatorModule))
    BY <1>1 DEF StartReverseAuction
  <2>2. AuctionInv /\ LiquidatorModule \in Parties /\ "reverse" \in AuctionTypes
    BY AccountFacts DEF SysInv, AuctionTypes
  <2> HIDE DEF b
  <2> QED BY <1>4, <2>1, <2>2, StartAuctionInv
<1>7. supply' \in [Denoms -> Nat] /\ supply'[StableDenom] = globalDebt'
  <2>1. supply \in [Denoms -> Nat] /\ supply[StableDenom] = globalDebt
    BY DEF SysInv, BankTypeOK, StableCoinIsDebt
  <2> QED BY <1>1, <1>2, <1>3, <1>4, <2>1, AccountFacts DEF MintedGov
<1>8. LiquidatorTypeOK' /\ SentWithinTotal' /\ seizedDebt'.Total = seizedDebt.Total - amount
  BY <1>1, <1>3, LiquidatorAssumption DEF LiquidatorTypeOK, SentWithinTotal, Available
<1>9. CsdtTypeOK' /\ NoDebtWithoutCollateral'
  BY <1>1, <1>3 DEF SysInv, CsdtTypeOK, NoDebtWithoutCollateral
<1>10. SysInv'
  BY <1>5, <1>6, <1>7, <1>8, <1>9 DEF SysInv, BankTypeOK, Ledgers, StableCoinIsDebt
<1>11. BooksStay
  <2>1. globalDebt' - seizedDebt'.Total = globalDebt - seizedDebt.Total
    BY <1>2, <1>3, <1>8
  <2> QED BY <1>1, <1>5, <2>1, AccountFacts DEF BooksStay, TotalDebt
<1>12. Book!BookNext \/ UNCHANGED Book!bookVars
  <2>1. /\ debt' = debt /\ seizedDebt.Total \in Nat /\ supply[StableDenom] \in Nat
        /\ seizedDebt'.Total = seizedDebt.Total - amount
        /\ supply'[StableDenom] = supply[StableDenom] - amount
    BY <1>1, <1>3, <1>7, <1>8, BookTypes
  <2>2. CASE amount = 0
    BY <2>1, <2>2 DEF Book!bookVars
  <2>3. CASE amount # 0
    <3>1. Book!Annihilate
      BY <1>3, <2>1, <2>3 DEF Book!Annihilate
    <3> QED BY <1>10, <3>1, NoNegativeDebt DEF Book!BookNext
  <2> QED BY <2>2, <2>3
<1>13. CoinsMoveWithSupply
  <2> SUFFICES ASSUME NEW e \in Denoms
               PROVE  Total(balance', e) = Total(balance, e) + (supply'[e] - supply[e])
    BY DEF CoinsMoveWithSupply
  <2>1. supply \in [Denoms -> Nat]
    BY DEF SysInv, BankTypeOK
  <2>2. supply'[e] - supply[e] = (IF e = GovDenom THEN MintedGov ELSE 0) - (IF e = StableDenom THEN amount ELSE 0)
    BY <1>1, <1>3, <1>4, <2>1, AccountFacts
  <2> QED BY <1>3, <1>4, <1>5, <2>2, AccountFacts
<1> QED BY <1>10, <1>11, <1>12, <1>13 DEF GoodStep

-----------------------------------------------------------------------------
(***************************************************************************)
(* The system.                                                             *)
(***************************************************************************)

\* The genesis state.
LEMMA InitInv == Init => SysInv
<1> SUFFICES ASSUME Init PROVE SysInv
  OBVIOUS
<1>1. BankTypeOK
  <2>1. Cardinality(Users) \in Nat
    BY UsersAssumption, FS_CardinalityType
  <2>2. Endowment \in Nat /\ Endowment * Cardinality(Users) \in Nat
    BY <2>1, AuctionAssumption
  <2> QED BY <2>2 DEF Init, BankTypeOK, GenesisBalance
<1>2. supply[StableDenom] = 0
  BY AccountFacts, CollateralsAssumption DEF Init
<1>3. CsdtTypeOK
  BY DEF Init, CsdtInit, CsdtTypeOK, NotFound
<1>4. AuctionInv
  BY AuctionInitInv DEF Init
<1> QED BY <1>1, <1>2, <1>3, <1>4
    DEF Init, CsdtInit, SysInv, LiquidatorTypeOK, StableCoinIsDebt, SentWithinTotal,
        NoDebtWithoutCollateral, Keys

\* A message of x/csdt changes one CSDT, or the terms of one collateral.
LEMMA CsdtStepIs ==
  ASSUME CsdtStep
  PROVE  /\ UNCHANGED <<auctionVars, seizedDebt>>
         /\ mode = "deliver"
         /\ \/ \E o \in Users, d \in Collaterals, dc, dd \in Int : ModifyCSDT(o, d, dc, dd)
            \/ \E nominee \in Users, d \in Collaterals, p \in CollateralParams :
                 AddCollateralParam(nominee, d, p) \/ SetCollateralParam(nominee, d, p)
<1>1. MaxChange \in Nat
  BY CsdtAssumption
<1> QED BY <1>1
        DEF CsdtStep, CsdtMsg, HandleMsgCreateOrModifyCSDT, HandleMsgDepositCollateral,
            HandleMsgWithdrawCollateral, HandleMsgSettleDebt, HandleMsgWithdrawDebt

\* Every step keeps the invariant and the books.
LEMMA NextGood ==
  ASSUME SysInv, Next
  PROVE  GoodStep
<1>1. CASE CsdtStep
  BY <1>1, CsdtStepIs, ModifyCSDTGood, ParamsGood
<1>2. CASE BidStep
  BY <1>2, AuctionStepGood
<1>3. CASE SeizeStep
  BY <1>3, SeizeGood DEF SeizeStep
<1>4. CASE StartDebtAuction
  BY <1>4, StartDebtAuctionGood
<1>5. CASE EndOfBlock
  BY <1>5, AuctionStepGood, OracleAndCommitGood DEF EndOfBlock
<1> QED BY <1>1, <1>2, <1>3, <1>4, <1>5 DEF Next

\* Stuttering.
LEMMA StutterInv ==
  ASSUME SysInv, UNCHANGED vars
  PROVE  SysInv'
<1>1. AuctionInv'
  BY AuctionStutterInv DEF SysInv, vars
<1> QED BY <1>1 DEF vars, bankVars, csdtVars, SysInv, BankTypeOK, CsdtTypeOK, LiquidatorTypeOK,
                    StableCoinIsDebt, SentWithinTotal, NoDebtWithoutCollateral

\* The invariant of the stable coin system.
THEOREM SystemInvariant == Spec => []SysInv
<1>1. SysInv /\ [Next]_vars => SysInv'
  BY NextGood, StutterInv DEF GoodStep
<1> QED BY <1>1, InitInv, PTL DEF Spec

\* Types, for every number of users, collaterals, auctions and blocks.
THEOREM TypeCorrect == Spec => []TypeOK
<1>1. SysInv => TypeOK
  BY DEF SysInv, AuctionInv, TypeOK
<1> QED BY <1>1, SystemInvariant, PTL

\* The supply of stable coin equals the global debt: what ModifyCSDT mints and
\* burns and what SettleDebt burns is what they add to and take from the debt.
THEOREM StableCoinIsAlwaysDebt == Spec => []StableCoinIsDebt
<1>1. SysInv => StableCoinIsDebt
  BY DEF SysInv
<1> QED BY <1>1, SystemInvariant, PTL

\* SettleDebt and StartDebtAuction keep the debt sent to auction within the
\* seized debt.
THEOREM SentAlwaysWithinTotal == Spec => []SentWithinTotal
<1>1. SysInv => SentWithinTotal
  BY DEF SysInv
<1> QED BY <1>1, SystemInvariant, PTL

\* No sequence of changes and seizures leaves a CSDT with debt and without
\* collateral; the rounding of stableToRaise is exact when all is sold.
THEOREM NeverDebtWithoutCollateral == Spec => []NoDebtWithoutCollateral
<1>1. SysInv => NoDebtWithoutCollateral
  BY DEF SysInv
<1> QED BY <1>1, SystemInvariant, PTL

\* In the composed system too, the auction queue is the image of the store and
\* no auction outlives its end time, whatever bids are placed.
THEOREM AuctionsInTime == Spec => [](QueueMatchesAuctions /\ ClosedInTime)
<1>1. SysInv => QueueMatchesAuctions /\ ClosedInTime
  BY DEF SysInv, AuctionInv
<1> QED BY <1>1, SystemInvariant, PTL

\* Every step keeps the books: the counters and the csdt module account move
\* with the one CSDT the step touches.  GlobalDebtAccounted,
\* CollateralDebtAccounted and CollateralBacked follow, as they hold initially.
THEOREM BooksAlwaysBalance == Spec => BooksBalance
<1> DEFINE Books == BooksStay \/ \E o \in Users, d \in Collaterals : BooksMoveWith(o, d)
<1>1. SysInv /\ [Next]_vars => [Books]_vars
  BY NextGood DEF GoodStep
<1>2. []SysInv /\ [][Next]_vars => [][Books]_vars
  BY <1>1, PTL
<1> QED BY <1>2, SystemInvariant, PTL DEF Spec, BooksBalance

-----------------------------------------------------------------------------
(***************************************************************************)
(* The books as sums.                                                      *)
(***************************************************************************)

\* There are finitely many CSDTs.
LEMMA KeysFinite ==
  /\ IsFiniteSet(Keys)
  /\ \A d \in Collaterals : /\ IsFiniteSet(Users \X {d}) /\ Users \X {d} \subseteq Keys
                            /\ Cardinality(Users \X {d}) = Cardinality(Users)
<1>1. IsFiniteSet(Keys)
  BY UsersAssumption, CollateralsAssumption, FS_Product DEF Keys
<1>2. ASSUME NEW d \in Collaterals
      PROVE  /\ IsFiniteSet(Users \X {d}) /\ Users \X {d} \subseteq Keys
             /\ Cardinality(Users \X {d}) = Cardinality(Users)
  <2>1. IsFiniteSet({d}) /\ Cardinality({d}) = 1
    BY FS_Singleton
  <2>2. /\ IsFiniteSet(Users \X {d})
        /\ Cardinality(Users \X {d}) = Cardinality(Users) * Cardinality({d})
    BY <2>1, UsersAssumption, FS_Product
  <2>3. Cardinality(Users) \in Nat
    BY UsersAssumption, FS_CardinalityType
  <2> QED BY <2>1, <2>2, <2>3 DEF Keys
<1> QED BY <1>1, <1>2

\* What one changed CSDT does to the sums over all of them and over those of
\* one collateral.
LEMMA KeySums ==
  ASSUME NEW f \in [Keys -> Nat], NEW g \in [Keys -> Nat], NEW o \in Users, NEW d \in Collaterals,
         \A k \in Keys \ {<<o, d>>} : g[k] = f[k]
  PROVE  /\ SumFunctionOnSet(f, Keys) \in Int
         /\ SumFunctionOnSet(g, Keys) = SumFunctionOnSet(f, Keys) + (g[<<o, d>>] - f[<<o, d>>])
         /\ SumFunctionOnSet(f, Users \X {d}) \in Int
         /\ SumFunctionOnSet(g, Users \X {d})
              = SumFunctionOnSet(f, Users \X {d}) + (g[<<o, d>>] - f[<<o, d>>])
         /\ \A e \in Collaterals \ {d} :
              SumFunctionOnSet(g, Users \X {e}) = SumFunctionOnSet(f, Users \X {e})
<1> DEFINE x == <<o, d>>
           D == Users \X {d}
<1>1. /\ IsFiniteSet(Keys) /\ x \in Keys
      /\ IsFiniteSet(D) /\ x \in D /\ D \subseteq Keys
  BY KeysFinite DEF Keys
<1>2. \A k \in Keys : f[k] \in Int /\ g[k] \in Int
  OBVIOUS
<1>3. \A k \in Keys \ {x} : g[k] = f[k]
  OBVIOUS
<1>4. ASSUME NEW e \in Collaterals \ {d}
      PROVE  SumFunctionOnSet(g, Users \X {e}) = SumFunctionOnSet(f, Users \X {e})
  <2> DEFINE E == Users \X {e}
  <2>1. IsFiniteSet(E) /\ E \subseteq Keys /\ x \notin E
    BY KeysFinite
  <2> HIDE DEF E, x
  <2>2. \A k \in E : g[k] = f[k]
    BY <1>3, <2>1
  <2>3. SumFunctionOnSet(g, E) = SumFunctionOnSet(f, E)
    BY <2>1, <2>2, SumSame
  <2> QED BY <2>3 DEF E
<1> HIDE DEF x, D
<1>5. /\ SumFunctionOnSet(f, Keys) \in Int
      /\ SumFunctionOnSet(g, Keys) = SumFunctionOnSet(f, Keys) + (g[x] - f[x])
  BY <1>1, <1>2, <1>3, SumChange
<1>6. /\ SumFunctionOnSet(f, D) \in Int
      /\ SumFunctionOnSet(g, D) = SumFunctionOnSet(f, D) + (g[x] - f[x])
  <2>1. \A k \in D \ {x} : g[k] = f[k]
    BY <1>1, <1>3
  <2>2. \A k \in D : f[k] \in Int /\ g[k] \in Int
    BY <1>1, <1>2
  <2> QED BY <1>1, <2>1, <2>2, SumChange
<1> QED BY <1>4, <1>5, <1>6 DEF x, D

\* The books that hold whatever is bid.
BooksOfCsdts == GlobalDebtAccounted /\ CollateralDebtAccounted /\ CollateralBacked /\ CoinsConserved

\* The debts are added up over the CSDTs.
LEMMA DebtIsSum ==
  ASSUME SysInv
  PROVE  GlobalDebtAccounted <=> globalDebt = SumFunctionOnSet(debt, Keys) + seizedDebt.Total
  BY DEF GlobalDebtAccounted, SumFunction, SysInv, CsdtTypeOK

\* The same after a step.
LEMMA DebtIsSumNext ==
  ASSUME SysInv'
  PROVE  GlobalDebtAccounted' <=> globalDebt' = SumFunctionOnSet(debt', Keys) + seizedDebt'.Total
  BY DEF GlobalDebtAccounted, SumFunction, SysInv, CsdtTypeOK

\* Genesis: no CSDTs, and collateral in the hands of the users.
LEMMA BooksInit == Init => BooksOfCsdts
<1> SUFFICES ASSUME Init PROVE BooksOfCsdts
  OBVIOUS
<1>1. SysInv
  BY InitInv
<1>2. /\ \A k \in Keys : debt[k] = 0 /\ collateral[k] = 0
      /\ globalDebt = 0 /\ seizedDebt.Total = 0
      /\ \A d \in Collaterals : TotalDebt(d) = 0
  BY DEF Init, CsdtInit, TotalDebt
<1>3. GlobalDebtAccounted
  <2>1. SumFunctionOnSet(debt, Keys) = 0
    BY <1>2, KeysFinite, SumZero
  <2> QED BY <1>1, <1>2, <2>1, DebtIsSum
<1>4. ASSUME NEW d \in Collaterals
      PROVE  /\ TotalDebt(d) = SumFunctionOnSet(debt, Users \X {d})
             /\ balance[<<CsdtModule, d>>] = SumFunctionOnSet(collateral, Users \X {d})
  <2>1. \A k \in Users \X {d} : debt[k] = 0 /\ collateral[k] = 0
    BY <1>2, KeysFinite
  <2>2. SumFunctionOnSet(debt, Users \X {d}) = 0 /\ SumFunctionOnSet(collateral, Users \X {d}) = 0
    <3> DEFINE D == Users \X {d}
    <3>1. IsFiniteSet(D)
      BY KeysFinite
    <3> HIDE DEF D
    <3>2. SumFunctionOnSet(debt, D) = 0 /\ SumFunctionOnSet(collateral, D) = 0
      BY <2>1, <3>1, SumZero DEF D
    <3> QED BY <3>2 DEF D
  <2>3. balance[<<CsdtModule, d>>] = 0
    BY AccountFacts, UsersAssumption DEF Init, GenesisBalance, ModuleAccounts
  <2> QED BY <1>2, <2>2, <2>3
<1>5. ASSUME NEW d \in Denoms
      PROVE  SumFunctionOnSet(balance, Accounts \X {d}) = supply[d]
  <2> DEFINE S == Accounts \X {d}
  <2>1. IsFiniteSet(S)
    BY AccountsFinite
  <2>2. CASE d \in Collaterals
    <3> DEFINE T == Users \X {d}
    <3>1. T \in SUBSET S /\ Cardinality(T) = Cardinality(Users)
      BY <2>2, KeysFinite DEF Accounts
    <3>2. \A ad \in S : balance[ad] = IF ad \in T THEN Endowment ELSE 0
      BY <2>2 DEF Init, GenesisBalance
    <3>3. supply[d] = Endowment * Cardinality(Users)
      BY <2>2 DEF Init
    <3>4. Endowment \in Nat
      BY AuctionAssumption
    <3> HIDE DEF S, T
    <3>5. SumFunctionOnSet(balance, S) = Endowment * Cardinality(T)
      BY <2>1, <3>1, <3>2, <3>4, SumConstant
    <3> QED BY <3>1, <3>3, <3>5 DEF S
  <2>3. CASE d \notin Collaterals
    <3>1. \A ad \in S : balance[ad] = 0
      BY <2>3 DEF Init, GenesisBalance
    <3>2. supply[d] = 0
      BY <2>3 DEF Init
    <3> HIDE DEF S
    <3>3. SumFunctionOnSet(balance, S) = 0
      BY <2>1, <3>1, SumZero
    <3> QED BY <3>2, <3>3 DEF S
  <2> QED BY <2>2, <2>3
<1> QED BY <1>3, <1>4, <1>5 DEF BooksOfCsdts, CollateralDebtAccounted, CollateralBacked, CoinsConserved

\* A good step keeps the books: what it changes in a sum it changes in the counter.
LEMMA BooksKept ==
  ASSUME SysInv, BooksOfCsdts, GoodStep
  PROVE  BooksOfCsdts'
<1>1. SysInv /\ SysInv' /\ CoinsMoveWithSupply
  BY DEF GoodStep
<1>2. /\ debt \in [Keys -> Nat] /\ debt' \in [Keys -> Nat]
      /\ collateral \in [Keys -> Nat] /\ collateral' \in [Keys -> Nat]
      /\ globalDebt \in Nat /\ globalDebt' \in Nat
      /\ seizedDebt.Total \in Nat /\ seizedDebt'.Total \in Nat
  BY <1>1 DEF SysInv, CsdtTypeOK, LiquidatorTypeOK
<1>3. \A d \in Collaterals : /\ TotalDebt(d) \in Nat /\ TotalDebt(d)' \in Nat
                             /\ balance[<<CsdtModule, d>>] \in Nat
                             /\ balance'[<<CsdtModule, d>>] \in Nat
  BY <1>1, AccountFacts DEF SysInv, CsdtTypeOK, TotalDebt, NotFound, BankTypeOK
<1>4. CoinsConserved'
  <2> SUFFICES ASSUME NEW d \in Denoms
               PROVE  Total(balance', d) = supply'[d]
    BY DEF CoinsConserved, Total
  <2>1. Total(balance, d) = supply[d]
    BY DEF BooksOfCsdts, CoinsConserved, Total
  <2>2. supply[d] \in Nat /\ supply'[d] \in Nat
    BY <1>1 DEF SysInv, BankTypeOK
  <2> QED BY <1>1, <2>1, <2>2 DEF CoinsMoveWithSupply
<1>5. globalDebt = SumFunctionOnSet(debt, Keys) + seizedDebt.Total
  BY DebtIsSum DEF BooksOfCsdts
<1>6. \A d \in Collaterals : /\ TotalDebt(d) = SumFunctionOnSet(debt, Users \X {d})
                             /\ balance[<<CsdtModule, d>>] = SumFunctionOnSet(collateral, Users \X {d})
  BY DEF BooksOfCsdts, CollateralDebtAccounted, CollateralBacked
<1>7. CASE BooksStay
  <2>1. debt' = debt /\ collateral' = collateral
    BY <1>7 DEF BooksStay
  <2>2. SumFunctionOnSet(debt, Keys) \in Int
    <3>1. \A k \in Keys : debt[k] \in Int
      BY <1>2
    <3> QED BY <3>1, KeysFinite, SumInt
  <2>3. GlobalDebtAccounted'
    <3>1. globalDebt' - seizedDebt'.Total = globalDebt - seizedDebt.Total
      BY <1>7 DEF BooksStay
    <3>2. globalDebt' = SumFunctionOnSet(debt, Keys) + seizedDebt'.Total
      BY <1>2, <1>5, <2>2, <3>1
    <3> QED BY <1>1, <2>1, <3>2, DebtIsSumNext
  <2>4. CollateralDebtAccounted' /\ CollateralBacked'
    BY <1>6, <1>7, <2>1 DEF BooksStay, CollateralDebtAccounted, CollateralBacked
  <2> QED BY <1>4, <2>3, <2>4 DEF BooksOfCsdts
<1>8. CASE \E o \in Users, d \in Collaterals : BooksMoveWith(o, d)
  <2>1. PICK o \in Users, d \in Collaterals : BooksMoveWith(o, d)
    BY <1>8
  <2> DEFINE x == <<o, d>>
             dd == debt'[x] - debt[x]
             dc == collateral'[x] - collateral[x]
             D(e) == Users \X {e}
  <2>2. x \in Keys /\ dd \in Int /\ dc \in Int /\ debt[x] \in Nat /\ debt'[x] \in Nat
        /\ collateral[x] \in Nat /\ collateral'[x] \in Nat
    BY <1>2 DEF Keys
  <2>3. /\ SumFunctionOnSet(debt, Keys) \in Int
        /\ SumFunctionOnSet(debt', Keys) = SumFunctionOnSet(debt, Keys) + dd
        /\ SumFunctionOnSet(debt, D(d)) \in Int
        /\ SumFunctionOnSet(debt', D(d)) = SumFunctionOnSet(debt, D(d)) + dd
        /\ \A e \in Collaterals \ {d} : SumFunctionOnSet(debt', D(e)) = SumFunctionOnSet(debt, D(e))
    <3>1. \A k \in Keys \ {<<o, d>>} : debt'[k] = debt[k]
      BY <2>1 DEF BooksMoveWith
    <3> QED BY <1>2, <3>1, KeySums, SMTT(30)
  <2>4. /\ SumFunctionOnSet(collateral, D(d)) \in Int
        /\ SumFunctionOnSet(collateral', D(d)) = SumFunctionOnSet(collateral, D(d)) + dc
        /\ \A e \in Collaterals \ {d} : SumFunctionOnSet(collateral', D(e)) = SumFunctionOnSet(collateral, D(e))
    <3>1. \A k \in Keys \ {<<o, d>>} : collateral'[k] = collateral[k]
      BY <2>1 DEF BooksMoveWith
    <3> QED BY <1>2, <3>1, KeySums
  <2>5. /\ globalDebt' - seizedDebt'.Total - debt'[x] = globalDebt - seizedDebt.Total - debt[x]
        /\ TotalDebt(d)' - debt'[x] = TotalDebt(d) - debt[x]
        /\ balance'[<<CsdtModule, d>>] - collateral'[x] = balance[<<CsdtModule, d>>] - collateral[x]
        /\ \A e \in Collaterals \ {d} : /\ TotalDebt(e)' = TotalDebt(e)
                                        /\ balance'[<<CsdtModule, e>>] = balance[<<CsdtModule, e>>]
    BY <2>1 DEF BooksMoveWith
  <2> HIDE DEF x, D
  <2>6. GlobalDebtAccounted'
    <3>1. globalDebt' = SumFunctionOnSet(debt', Keys) + seizedDebt'.Total
      BY <1>2, <1>5, <2>2, <2>3, <2>5
    <3> QED BY <1>1, <3>1, DebtIsSumNext
  <2>7. /\ TotalDebt(d)' = SumFunctionOnSet(debt', D(d))
        /\ balance'[<<CsdtModule, d>>] = SumFunctionOnSet(collateral', D(d))
    <3>1. /\ TotalDebt(d) = SumFunctionOnSet(debt, D(d))
          /\ balance[<<CsdtModule, d>>] = SumFunctionOnSet(collateral, D(d))
      BY <1>6 DEF D
    <3>2. TotalDebt(d)' = TotalDebt(d) + dd
      BY <1>3, <2>2, <2>5
    <3>3. balance'[<<CsdtModule, d>>] = balance[<<CsdtModule, d>>] + dc
      <4>1. balance[<<CsdtModule, d>>] \in Nat /\ balance'[<<CsdtModule, d>>] \in Nat
        BY <1>3
      <4> QED BY <2>2, <2>5, <4>1
    <3> QED BY <2>3, <2>4, <3>1, <3>2, <3>3
  <2>8. CollateralDebtAccounted' /\ CollateralBacked'
    BY <1>6, <2>3, <2>4, <2>5, <2>7 DEF CollateralDebtAccounted, CollateralBacked, D
  <2> QED BY <1>4, <2>6, <2>8 DEF BooksOfCsdts
<1> QED BY <1>7, <1>8 DEF GoodStep

\* Every step keeps the invariant and the books.
LEMMA BooksStep ==
  ASSUME SysInv, BooksOfCsdts, [Next]_vars
  PROVE  SysInv' /\ BooksOfCsdts'
<1>1. CASE Next
  <2>1. GoodStep
    BY <1>1, NextGood
  <2> QED BY <2>1, BooksKept DEF GoodStep
<1>2. CASE UNCHANGED vars
  <2>1. SysInv'
    BY <1>2, StutterInv
  <2>2. BooksOfCsdts'
    BY <1>2 DEF vars, bankVars, csdtVars, BooksOfCsdts, GlobalDebtAccounted, CollateralDebtAccounted,
                CollateralBacked, CoinsConserved, TotalDebt
  <2> QED BY <2>1, <2>2
<1> QED BY <1>1, <1>2

\* Whatever is drawn, repaid, seized, bid, settled and closed, in whatever
\* order and whatever coins a bid names: the debt counters are the sums over
\* the CSDTs and what was seized from them, the module account holds their
\* collateral, and the balances add up to the recorded supply.
THEOREM CsdtBooksAgree ==
  Spec => [](GlobalDebtAccounted /\ CollateralDebtAccounted /\ CollateralBacked /\ CoinsConserved)
<1>1. Init => SysInv /\ BooksOfCsdts
  BY InitInv, BooksInit
<1>2. SysInv /\ BooksOfCsdts /\ [Next]_vars => SysInv' /\ BooksOfCsdts'
  BY BooksStep
<1>3. BooksOfCsdts => GlobalDebtAccounted /\ CollateralDebtAccounted /\ CollateralBacked /\ CoinsConserved
  BY DEF BooksOfCsdts
<1> QED BY <1>1, <1>2, <1>3, PTL DEF Spec

-----------------------------------------------------------------------------
(***************************************************************************)
(* The lots in the composed system.                                        *)
(***************************************************************************)

\* Genesis: no auctions, and nothing in the auction module account.
LEMMA SystemPayableInit == Init => AuctionsStayPayable
<1> SUFFICES ASSUME Init PROVE AuctionsStayPayable
  OBVIOUS
<1>1. LotsEscrowed
  <2> SUFFICES ASSUME NEW d \in Denoms
               PROVE  balance[<<AuctionModule, d>>] = SumFunctionOnSet(LotsIn(d), DOMAIN auctions)
    BY LotsAreSums
  <2>1. balance[<<AuctionModule, d>>] = 0
    BY AccountFacts, UsersAssumption DEF Init, GenesisBalance, ModuleAccounts
  <2>2. DOMAIN auctions = {}
    BY DEF Init, AuctionInit
  <2> QED BY <2>1, <2>2, SumEmpty
<1> QED BY <1>1 DEF AuctionsStayPayable, PhaseDetermined, NeverHalts, Init, AuctionInit

\* The messages of x/csdt do not touch the auction module account.
LEMMA CsdtStepPayable ==
  ASSUME SysInv, AuctionsStayPayable, CsdtStep
  PROVE  AuctionsStayPayable'
<1>1. UNCHANGED <<auctions, mode>> /\ mode' # "halted"
  BY CsdtStepIs DEF auctionVars
<1>2. \A e \in Denoms : balance'[<<AuctionModule, e>>] = balance[<<AuctionModule, e>>]
  <2>1. CASE \E nominee \in Users, d \in Collaterals, p \in CollateralParams :
               AddCollateralParam(nominee, d, p) \/ SetCollateralParam(nominee, d, p)
    BY <2>1 DEF AddCollateralParam, SetCollateralParam, bankVars
  <2>2. CASE \E o \in Users, d \in Collaterals, dc, dd \in Int : ModifyCSDT(o, d, dc, dd)
    <3>1. PICK o \in Users, d \in Collaterals, dc \in Int, dd \in Int : ModifyCSDT(o, d, dc, dd)
      BY <2>2
    <3>2. /\ BankTypeOK
          /\ dc > 0 => CanSend(balance, o, Coin(d, dc))
          /\ dc < 0 => CanSend(balance, CsdtModule, Coin(d, -dc))
          /\ dd < 0 => CanSend(balance, o, Coin(StableDenom, -dd))
          /\ balance' = ModifiedBalance(o, d, dc, dd)
      BY <3>1 DEF ModifyCSDT, ChangeAllowed, SysInv
    <3>3. \A e \in Denoms : ModifiedBalance(o, d, dc, dd)[<<AuctionModule, e>>] = balance[<<AuctionModule, e>>]
      <4>1. /\ BankTypeOK /\ o \in Users /\ d \in Collaterals /\ dc \in Int /\ dd \in Int
            /\ dc > 0 => CanSend(balance, o, Coin(d, dc))
            /\ dc < 0 => CanSend(balance, CsdtModule, Coin(d, -dc))
            /\ dd < 0 => CanSend(balance, o, Coin(StableDenom, -dd))
        BY <3>2
      <4> QED BY ONLY <4>1, ModifiedBalanceLemma, ZenonT(60)
    <3> QED BY <3>2, <3>3, Zenon
  <2> QED BY <2>1, <2>2, CsdtStepIs
<1> QED BY <1>1, <1>2, StutterPayable

\* A seizure starts an auction whose lot has just reached the liquidator.
LEMMA SeizePayable ==
  ASSUME SysInv, AuctionsStayPayable, NEW o \in Users, NEW d \in Collaterals,
         SeizeAndStartCollateralAuction(o, d)
  PROVE  AuctionsStayPayable'
<1> DEFINE c   == CollateralToSell(o, d)
           n   == StableToRaise(o, d)
           lot == Coin(d, c)
           max == Coin(StableDenom, n)
           bid == Coin(StableDenom, 0)
           b   == Send(balance, CsdtModule, LiquidatorModule, lot)
<1>1. c \in Nat /\ n \in Nat
  BY SeizedAmounts DEF SeizeAndStartCollateralAuction
<1>2. /\ CanSend(balance, CsdtModule, lot)
      /\ StartForwardReverseAuction(b, LiquidatorModule, lot, max, o)
  BY DEF SeizeAndStartCollateralAuction
<1> HIDE DEF c, n
<1>3. /\ lot \in Coins /\ max \in Coins /\ max.denom = StableDenom
      /\ bid \in Coins /\ (IsLT(bid, max) \/ bid = max)
  <2>1. lot \in Coins /\ max \in Coins /\ max.denom = StableDenom /\ bid \in Coins
    BY <1>1, AccountFacts, CoinLemma
  <2>2. n = 0 \/ 0 < n
    BY <1>1
  <2> QED BY <2>1, <2>2 DEF IsLT, Coin
<1>4. StartAuction(b, NewAuction("forwardReverse", LiquidatorModule, lot, bid, max, o))
  BY <1>2, <1>3 DEF StartForwardReverseAuction
<1> HIDE DEF lot, max, bid
<1>5. b \in Ledgers /\ \A e \in Denoms : b[<<AuctionModule, e>>] = balance[<<AuctionModule, e>>]
  <2>1. balance \in Ledgers
    BY DEF SysInv, BankTypeOK, Ledgers
  <2>2. b \in Ledgers
    BY <1>2, <1>3, <2>1, AccountFacts, SendLemma
  <2>3. \A e \in Denoms : b[<<AuctionModule, e>>] = balance[<<AuctionModule, e>>]
    BY <2>1, AccountFacts DEF Send, Ledgers
  <2> QED BY <2>2, <2>3
<1>6. /\ LiquidatorModule \in Parties /\ o \in Parties /\ "forwardReverse" \in AuctionTypes
      /\ AuctionInv
  BY AccountFacts DEF AuctionTypes, SysInv
<1> HIDE DEF b
<1> QED BY <1>3, <1>4, <1>5, <1>6, StartAuctionPayable

\* So does a debt auction, with governance coin that has just been minted.
LEMMA DebtAuctionPayable ==
  ASSUME SysInv, AuctionsStayPayable, StartDebtAuction
  PROVE  AuctionsStayPayable'
<1> DEFINE amount == IF SettleAmount <= globalDebt THEN SettleAmount ELSE 0
           burned == Coin(StableDenom, amount)
           minted == Coin(GovDenom, MintedGov)
           b1     == Burn(balance, LiquidatorModule, burned)
           b      == Mint(b1, LiquidatorModule, minted)
           price0 == Coin(StableDenom, DebtAuctionSize)
<1>1. /\ balance[<<LiquidatorModule, StableDenom>>] = burned.amount
      /\ StartReverseAuction(b, LiquidatorModule, price0, minted)
  BY DEF StartDebtAuction
<1>2. amount \in Nat
  <2>1. balance[<<LiquidatorModule, StableDenom>>] \in Nat /\ seizedDebt.Total \in Nat
    BY AccountFacts DEF SysInv, BankTypeOK, LiquidatorTypeOK
  <2> QED BY <2>1 DEF SettleAmount, SmallerOf
<1> HIDE DEF amount
<1>3. /\ burned \in Coins /\ burned.denom = StableDenom /\ minted \in Coins /\ price0 \in Coins
  BY <1>2, AccountFacts, CoinLemma, LiquidatorAssumption DEF MintedGov
<1> HIDE DEF burned, minted, price0
<1>4. StartAuction(b, NewAuction("reverse", LiquidatorModule, minted, price0, price0, LiquidatorModule))
  BY <1>1 DEF StartReverseAuction
<1>5. b \in Ledgers /\ \A e \in Denoms : b[<<AuctionModule, e>>] = balance[<<AuctionModule, e>>]
  <2>1. balance \in Ledgers /\ balance[<<LiquidatorModule, StableDenom>>] \in Nat
    BY AccountFacts DEF SysInv, BankTypeOK, Ledgers
  <2>2. CanSend(balance, LiquidatorModule, burned)
    BY <1>1, <1>3, <2>1 DEF CanSend
  <2>3. b1 \in Ledgers
    BY <1>3, <2>1, <2>2, AccountFacts, BurnLemma
  <2>4. \A e \in Denoms : b1[<<AuctionModule, e>>] = balance[<<AuctionModule, e>>]
    BY <2>1, AccountFacts DEF Burn, Ledgers
  <2> HIDE DEF b1
  <2>5. b \in Ledgers
    BY <1>3, <2>3, AccountFacts, MintLemma
  <2>6. \A e \in Denoms : b[<<AuctionModule, e>>] = b1[<<AuctionModule, e>>]
    BY <2>3, AccountFacts DEF Mint, Ledgers
  <2> QED BY <2>4, <2>5, <2>6
<1>6. LiquidatorModule \in Parties /\ "reverse" \in AuctionTypes /\ AuctionInv
  BY AccountFacts DEF AuctionTypes, SysInv
<1> HIDE DEF b
<1> QED BY <1>3, <1>4, <1>5, <1>6, StartAuctionPayable

\* Every step of the system keeps the auctions payable.
LEMMA PayableStep ==
  ASSUME Matching, SysInv, AuctionsStayPayable, [Next]_vars
  PROVE  AuctionsStayPayable'
<1>0. BankTypeOK /\ AuctionInv
  BY DEF SysInv
<1>1. CASE CsdtStep
  BY <1>1, CsdtStepPayable
<1>2. CASE BidStep
  BY <1>0, <1>2, PlaceBidPayable DEF BidStep
<1>3. CASE SeizeStep
  BY <1>3, SeizePayable DEF SeizeStep
<1>4. CASE StartDebtAuction
  BY <1>4, DebtAuctionPayable
<1>5. CASE CloseDueAuction
  BY <1>0, <1>5, EndBlockerStepPayable DEF CloseDueAuction
<1>6. CASE OracleEndBlock \/ Commit \/ UNCHANGED vars
  <2>1. UNCHANGED <<balance, auctions>> /\ mode' # "halted"
    BY <1>6 DEF OracleEndBlock, BeginEndBlock, Commit, NextBlock, vars, bankVars, auctionVars,
                AuctionsStayPayable, NeverHalts
  <2> QED BY <2>1, StutterPayable
<1> QED BY <1>1, <1>2, <1>3, <1>4, <1>5, <1>6 DEF Next, EndOfBlock

\* The composed system, with bidders who repeat the coin their phase does not
\* negotiate: every open auction can take its next bid and be paid out, so
\* EndBlocker never panics and the chain never stops.
THEOREM ChainNeverHalts ==
  ASSUME Matching
  PROVE  Spec => []AuctionsStayPayable
<1>1. Init => SysInv /\ AuctionsStayPayable
  BY InitInv, SystemPayableInit
<1>2. SysInv /\ AuctionsStayPayable /\ [Next]_vars => SysInv' /\ AuctionsStayPayable'
  BY PayableStep, NextGood, StutterInv DEF GoodStep
<1> QED BY <1>1, <1>2, PTL DEF Spec

\* With such bidders the books of all three modules agree in every state.
THEOREM BooksAlwaysAgree ==
  ASSUME Matching
  PROVE  Spec => []BooksAgree
<1>1. /\ GlobalDebtAccounted /\ CollateralDebtAccounted /\ CollateralBacked /\ CoinsConserved
      /\ AuctionsStayPayable /\ SentWithinTotal
      => BooksAgree
  BY DEF BooksAgree, AuctionsStayPayable
<1> QED BY <1>1, CsdtBooksAgree, ChainNeverHalts, SentAlwaysWithinTotal, PTL

-----------------------------------------------------------------------------
(***************************************************************************)
(* Owners.                                                                 *)
(***************************************************************************)

\* Who may take collateral out of a CSDT, in one step.
TakenByOwnerOrLawfully ==
  \A o \in Users, d \in Collaterals :
    collateral'[<<o, d>>] < collateral[<<o, d>>] =>
      \/ balance'[<<o, d>>] - balance[<<o, d>>] = collateral[<<o, d>>] - collateral'[<<o, d>>]
      \/ IsUnderCollateralized(collateral[<<o, d>>], debt[<<o, d>>], price[d], collateralParams[d].ratio)

\* A change of a CSDT moves collateral between the CSDT and its owner.
LEMMA OwnerTakes ==
  ASSUME SysInv, NEW o \in Users, NEW d \in Collaterals, NEW dc \in Int, NEW dd \in Int,
         ModifyCSDT(o, d, dc, dd)
  PROVE  TakenByOwnerOrLawfully
<1>1. /\ BankTypeOK
      /\ dc > 0 => CanSend(balance, o, Coin(d, dc))
      /\ dc < 0 => CanSend(balance, CsdtModule, Coin(d, -dc))
      /\ dd < 0 => CanSend(balance, o, Coin(StableDenom, -dd))
      /\ balance' = ModifiedBalance(o, d, dc, dd)
      /\ collateral' = [collateral EXCEPT ![<<o, d>>] = @ + dc]
  BY DEF ModifyCSDT, ChangeAllowed, SysInv
<1>2. balance'[<<o, d>>] = balance[<<o, d>>] - dc
  BY <1>1, ModifiedBalanceLemma
<1>3. /\ collateral \in [Keys -> Nat] /\ <<o, d>> \in Keys
      /\ balance[<<o, d>>] \in Nat
  BY AccountFacts DEF SysInv, CsdtTypeOK, Keys, BankTypeOK
<1>4. /\ collateral'[<<o, d>>] = collateral[<<o, d>>] + dc
      /\ \A k \in Keys \ {<<o, d>>} : collateral'[k] = collateral[k]
      /\ \A k \in Keys : collateral[k] \in Nat
  BY <1>1, <1>3
<1>5. ASSUME NEW u \in Users, NEW e \in Collaterals, collateral'[<<u, e>>] < collateral[<<u, e>>]
      PROVE  balance'[<<u, e>>] - balance[<<u, e>>] = collateral[<<u, e>>] - collateral'[<<u, e>>]
  <2>1. <<u, e>> = <<o, d>>
    BY <1>4, <1>5 DEF Keys
  <2>2. u = o /\ e = d
    BY <2>1
  <2> QED BY <1>2, <1>3, <1>4, <2>2
<1> QED BY <1>5 DEF TakenByOwnerOrLawfully

\* A seizure takes collateral out of an undercollateralised CSDT only.
LEMMA SeizureIsLawful ==
  ASSUME SysInv, NEW o \in Users, NEW d \in Collaterals, SeizeAndStartCollateralAuction(o, d)
  PROVE  TakenByOwnerOrLawfully
<1> DEFINE c == Coin(d, CollateralToSell(o, d)).amount
<1>1. /\ IsUnderCollateralized(collateral[<<o, d>>], debt[<<o, d>>], price[d], collateralParams[d].ratio)
      /\ collateral' = [collateral EXCEPT ![<<o, d>>] = @ - c]
  BY DEF SeizeAndStartCollateralAuction, PartialSeizeCSDT
<1> HIDE DEF c
<1>2. collateral \in [Keys -> Nat]
  BY DEF SysInv, CsdtTypeOK
<1>3. ASSUME NEW u \in Users, NEW e \in Collaterals, <<u, e>> # <<o, d>>
      PROVE  ~ (collateral'[<<u, e>>] < collateral[<<u, e>>])
  <2>1. collateral'[<<u, e>>] = collateral[<<u, e>>] /\ collateral[<<u, e>>] \in Nat
    BY <1>1, <1>2, <1>3 DEF Keys
  <2> QED BY <2>1
<1> QED BY <1>1, <1>3 DEF TakenByOwnerOrLawfully

\* Steps that leave the collateral alone.
LEMMA NothingTaken ==
  ASSUME SysInv, UNCHANGED collateral
  PROVE  TakenByOwnerOrLawfully
<1>1. ASSUME NEW o \in Users, NEW d \in Collaterals
      PROVE  ~ (collateral'[<<o, d>>] < collateral[<<o, d>>])
  <2>1. collateral[<<o, d>>] \in Nat
    BY DEF SysInv, CsdtTypeOK, Keys
  <2> QED BY <2>1
<1> QED BY <1>1 DEF TakenByOwnerOrLawfully

\* Only its owner takes collateral out of a CSDT above its liquidation ratio,
\* by any step of any module and for every number of users and collaterals.
THEOREM HealthyCsdtsAreSafe == Spec => HealthyCsdtIsSafe
<1>1. ASSUME SysInv, Next PROVE TakenByOwnerOrLawfully
  <2>1. CASE CsdtStep
    <3>1. \/ \E o \in Users, d \in Collaterals, dc, dd \in Int : ModifyCSDT(o, d, dc, dd)
          \/ UNCHANGED collateral
      BY <2>1, CsdtStepIs DEF AddCollateralParam, SetCollateralParam
    <3> QED BY <1>1, <3>1, OwnerTakes, NothingTaken
  <2>2. CASE SeizeStep
    BY <1>1, <2>2, SeizureIsLawful DEF SeizeStep
  <2>3. CASE BidStep \/ StartDebtAuction \/ EndOfBlock
    <3>1. UNCHANGED collateral
      BY <2>3 DEF BidStep, StartDebtAuction, EndOfBlock, OracleEndBlock, CloseDueAuction, Commit, csdtVars
    <3> QED BY <1>1, <3>1, NothingTaken
  <2> QED BY <1>1, <2>1, <2>2, <2>3 DEF Next
<1>2. SysInv /\ [Next]_vars => [TakenByOwnerOrLawfully]_vars
  BY <1>1
<1>3. []SysInv /\ [][Next]_vars => [][TakenByOwnerOrLawfully]_vars
  BY <1>2, PTL
<1>4. [][TakenByOwnerOrLawfully]_vars => HealthyCsdtIsSafe
  BY DEF TakenByOwnerOrLawfully, HealthyCsdtIsSafe
<1> QED BY <1>3, <1>4, SystemInvariant, PTL DEF Spec

\* What the checks of ModifyCSDT refer to when an owner leaves: he owes part of
\* every counter, and his collateral is part of what the module account holds.
\* The global debt only grows through ModifyCSDT, which keeps it within its limit.
WithinGlobalLimit == globalDebt <= GlobalDebtLimit

\* Every step keeps the global debt within its limit.
LEMMA LimitStep ==
  ASSUME SysInv, WithinGlobalLimit, [Next]_vars
  PROVE  WithinGlobalLimit'
<1>0. globalDebt \in Nat /\ GlobalDebtLimit \in Nat
  BY CsdtAssumption DEF SysInv, CsdtTypeOK
<1>1. CASE CsdtStep
  <2>1. CASE \E o \in Users, d \in Collaterals, dc, dd \in Int : ModifyCSDT(o, d, dc, dd)
    BY <1>0, <2>1 DEF ModifyCSDT, ChangeAllowed, WithinGlobalLimit
  <2>2. CASE \E nominee \in Users, d \in Collaterals, p \in CollateralParams :
               AddCollateralParam(nominee, d, p) \/ SetCollateralParam(nominee, d, p)
    BY <2>2 DEF AddCollateralParam, SetCollateralParam, WithinGlobalLimit
  <2> QED BY <1>1, <2>1, <2>2, CsdtStepIs
<1>2. CASE StartDebtAuction
  <2>1. IF SettleAmount <= globalDebt THEN ReduceGlobalDebt(SettleAmount) ELSE UNCHANGED globalDebt
    BY <1>2 DEF StartDebtAuction
  <2>2. CASE UNCHANGED globalDebt
    BY <2>2 DEF WithinGlobalLimit
  <2>3. CASE ReduceGlobalDebt(SettleAmount)
    <3>1. SettleAmount \in Nat /\ globalDebt' = globalDebt - SettleAmount
      BY <1>0, <2>3 DEF ReduceGlobalDebt
    <3> HIDE DEF SettleAmount
    <3> QED BY <1>0, <3>1 DEF WithinGlobalLimit
  <2> QED BY <2>1, <2>2, <2>3
<1>3. CASE SeizeStep \/ BidStep \/ EndOfBlock \/ UNCHANGED vars
  BY <1>3 DEF SeizeStep, SeizeAndStartCollateralAuction, BidStep, EndOfBlock, OracleEndBlock,
              CloseDueAuction, Commit, csdtVars, vars, WithinGlobalLimit
<1> QED BY <1>1, <1>2, <1>3 DEF Next

\* The checks of ModifyCSDT let an owner leave.
LEMMA ExitFromBooks ==
  ASSUME SysInv, BooksOfCsdts, WithinGlobalLimit
  PROVE  ExitPossible
<1> SUFFICES ASSUME NEW o \in Users, NEW d \in DOMAIN collateralParams,
                    balance[<<o, StableDenom>>] >= debt[<<o, d>>],
                    TotalDebt(d) - debt[<<o, d>>] <= collateralParams[d].limit
             PROVE  ChangeAllowed(o, d, -collateral[<<o, d>>], -debt[<<o, d>>])
  BY DEF ExitPossible
<1> DEFINE c == collateral[<<o, d>>]
           n == debt[<<o, d>>]
           D == Users \X {d}
<1>1. d \in Collaterals /\ <<o, d>> \in Keys /\ <<o, d>> \in D
  BY DEF SysInv, CsdtTypeOK, Keys
<1>2. /\ c \in Nat /\ n \in Nat /\ globalDebt \in Nat /\ GlobalDebtLimit \in Nat
      /\ TotalDebt(d) \in Nat /\ seizedDebt.Total \in Nat
      /\ price[d] \in Nat /\ collateralParams[d].ratio \in Nat /\ collateralParams[d].limit \in Nat
      /\ balance[<<o, StableDenom>>] \in Nat /\ balance[<<CsdtModule, d>>] \in Nat
  BY <1>1, CsdtAssumption, AccountFacts
     DEF SysInv, BankTypeOK, CsdtTypeOK, LiquidatorTypeOK, TotalDebt, NotFound
<1>3. n <= globalDebt
  <2>1. \A k \in Keys : debt[k] \in Nat
    BY DEF SysInv, CsdtTypeOK
  <2>2. SumFunctionOnSet(debt, Keys) \in Nat /\ n <= SumFunctionOnSet(debt, Keys)
    BY <1>1, <2>1, KeysFinite, SumNat
  <2>3. globalDebt = SumFunctionOnSet(debt, Keys) + seizedDebt.Total
    BY DebtIsSum DEF BooksOfCsdts
  <2> HIDE DEF n
  <2> QED BY <1>2, <2>2, <2>3
<1>4. n <= TotalDebt(d) /\ c <= balance[<<CsdtModule, d>>]
  <2>1. IsFiniteSet(D) /\ \A k \in D : debt[k] \in Nat /\ collateral[k] \in Nat
    BY <1>1, KeysFinite DEF SysInv, CsdtTypeOK
  <2>2. TotalDebt(d) = SumFunctionOnSet(debt, D) /\ balance[<<CsdtModule, d>>] = SumFunctionOnSet(collateral, D)
    BY <1>1 DEF BooksOfCsdts, CollateralDebtAccounted, CollateralBacked
  <2> HIDE DEF D
  <2> QED BY <1>1, <2>1, <2>2, SumNat
<1> HIDE DEF c, n
<1>5. /\ c + (-c) = 0 /\ n + (-n) = 0
      /\ ~ (-c > 0) /\ -(-c) = c /\ -(-n) = n
  BY <1>2
<1>6. ~IsUnderCollateralized(0, 0, price[d], collateralParams[d].ratio)
  BY <1>2 DEF IsUnderCollateralized
<1>7. globalDebt + (-n) \in 0..GlobalDebtLimit /\ TotalDebt(d) + (-n) \in 0..collateralParams[d].limit
  <2>1. TotalDebt(d) - n <= collateralParams[d].limit
    BY DEF n
  <2> QED BY <1>2, <1>3, <1>4, <2>1 DEF WithinGlobalLimit
<1>8. CanSend(balance, o, Coin(StableDenom, n)) /\ CanSend(balance, CsdtModule, Coin(d, c))
  BY <1>4 DEF CanSend, Coin, n
<1>9. IsCollateralPresent(d)
  BY DEF IsCollateralPresent
<1>10. ChangeAllowed(o, d, -c, -n)
  <2>1. c = collateral[<<o, d>>] /\ n = debt[<<o, d>>]
    BY DEF c, n
  <2> QED BY <1>5, <1>6, <1>7, <1>8, <1>9, <2>1 DEF ChangeAllowed
<1> QED BY <1>10 DEF c, n

\* After any history, whatever was seized from him or from others, an owner who
\* holds what he owes passes every check of ModifyCSDT with all he has.
THEOREM OwnersMayExit == Spec => []ExitPossible
<1> DEFINE Inv == SysInv /\ BooksOfCsdts /\ WithinGlobalLimit
<1>1. Init => Inv
  BY InitInv, BooksInit, CsdtAssumption DEF Init, CsdtInit, WithinGlobalLimit
<1>2. Inv /\ [Next]_vars => Inv'
  BY BooksStep, LimitStep
<1>3. Inv => ExitPossible
  BY ExitFromBooks
<1> QED BY <1>1, <1>2, <1>3, PTL DEF Spec

\* The system implements the debt book.
THEOREM RefinesDebtBook == Spec => ImplementsDebtBook
<1>1. Init => Book!BookInit
  <2>1. Init => supply[StableDenom] = 0
    BY AccountFacts, CollateralsAssumption DEF Init
  <2> QED BY <2>1 DEF Init, CsdtInit, Book!BookInit
<1>2. SysInv /\ [Next]_vars => [Book!BookNext]_(Book!bookVars)
  <2>1. ASSUME UNCHANGED vars PROVE UNCHANGED Book!bookVars
    BY <2>1 DEF vars, bankVars, csdtVars, Book!bookVars
  <2> QED BY <2>1, NextGood DEF GoodStep
<1> QED BY <1>1, <1>2, SystemInvariant, PTL DEF Spec, ImplementsDebtBook, Book!BookSpec
=============================================================================

------------------------------ MODULE Exchange ------------------------------
(***************************************************************************)
(* The exchange: markets (x/market), limit orders and their escrow         *)
(* (x/order), and the batch executed at the end of every block             *)
(* (execution/keeper.go, called first by EndBlocker in app/app.go).        *)
(*                                                                         *)
(* An error of the batch is a panic of EndBlocker: the block is never      *)
(* committed and the node stops.  The state then keeps the values from     *)
(* before the batch and `halted` tells the cause.                          *)
(*                                                                         *)
(* CreatedBlock is modelled by the order's age, ctx.BlockHeight() -        *)
(* CreatedBlock, the only use the code makes of it, and stops growing at   *)
(* AgeCap, a bound no order reaches.  The supply recorded by x/supply      *)
(* never changes here and is the constant total of Init.                   *)
(***************************************************************************)
EXTENDS Matcher, Ledger, FiniteSets

CONSTANTS Users,           \* owners of orders
          Nominees,        \* accounts that may create markets
          Denoms,          \* coin denominations
          Divisor,         \* 10^AssetDecimals
          MaxTimeInForce,  \* of an order, in blocks
          Endowment,       \* coins of each denomination a user starts with
          AssetPairs,      \* <<base, quote>> denominations proposed as markets
          Prices, Quantities,  \* of the orders posted
          MaxMarkets, MaxOrders    \* bounds: markets created, orders posted

ASSUME ExchangeAssumption ==
  /\ Nominees \subseteq Users
  /\ IsFiniteSet(Users)
  /\ AssetPairs \subseteq Denoms \X Denoms
  /\ Divisor \in Nat \ {0}
  /\ MaxTimeInForce \in Nat \ {0}
  /\ Endowment \in Nat
  /\ Prices \subseteq Nat \ {0}
  /\ Quantities \subseteq Nat \ {0}

OrderModule == "order"
ASSUME OrderModuleAssumption == OrderModule \notin Users

Accounts == Users \cup {OrderModule}

VARIABLES markets,   \* sequence of [base, quote]; the id is the index
          orders,    \* id -> order, for the orders in the store
          seq,       \* the last order id given
          balance,   \* balance[<<account, denomination>>]
          halted     \* "no", or why the batch failed

exchangeVars == <<markets, orders, seq, balance, halted>>

NoOrders == [i \in {} |-> {}]
AgeCap   == MaxTimeInForce + 2

Directions == {"bid", "ask"}
Causes     == {"dust", "insolvent", "missing", "price", "ratio"}

TypeOK ==
  /\ markets \in Seq([base : Denoms, quote : Denoms])
  /\ seq \in Nat
  /\ DOMAIN orders \subseteq 1 .. seq
  /\ \A i \in DOMAIN orders :
       orders[i] \in [owner : Users, market : DOMAIN markets, direction : Directions,
                      price : Nat \ {0}, qty : Nat \ {0},
                      tif : 1 .. MaxTimeInForce, age : 0 .. AgeCap]
  /\ balance \in [Accounts \X Denoms -> Nat]
  /\ halted \in {"no"} \cup Causes

Init ==
  /\ markets = <<>>
  /\ orders = NoOrders
  /\ seq = 0
  /\ balance = [ad \in Accounts \X Denoms |-> IF ad[1] = OrderModule THEN 0 ELSE Endowment]
  /\ halted = "no"

-----------------------------------------------------------------------------
(* Markets.                                                                *)
CreateMarket(nominee, pair) ==
  /\ halted = "no"
  /\ Len(markets) < MaxMarkets
  /\ nominee \in Nominees
  /\ markets' = Append(markets, [base |-> pair[1], quote |-> pair[2]])
  /\ UNCHANGED <<orders, seq, balance, halted>>

-----------------------------------------------------------------------------
(* Orders.                                                                 *)

\* NormalizeQuoteQuantity; 0 is its error "quantity too small to represent".
NormalizeQuote(price, qty) == (price * qty) \div Divisor

\* What an order has in escrow, as Post takes it and Cancel returns it.
PostedCoin(o) ==
  IF o.direction = "bid"
  THEN Coin(markets[o.market].quote, NormalizeQuote(o.price, o.qty))
  ELSE Coin(markets[o.market].base, o.qty)

NewOrder(owner, market, direction, price, qty, tif) ==
  [owner |-> owner, market |-> market, direction |-> direction,
   price |-> price, qty |-> qty, tif |-> tif, age |-> 0]

With(os, id, o) == [i \in DOMAIN os \cup {id} |-> IF i = id THEN o ELSE os[i]]

Post(owner, market, direction, price, qty, tif) ==
  LET o == NewOrder(owner, market, direction, price, qty, tif)
  IN  /\ halted = "no"
      /\ seq < MaxOrders
      /\ market \in DOMAIN markets
      /\ PostedCoin(o).amount > 0
      /\ CanSend(balance, owner, PostedCoin(o))
      /\ balance' = Send(balance, owner, OrderModule, PostedCoin(o))
      /\ seq' = seq + 1
      /\ orders' = With(orders, seq + 1, o)
      /\ UNCHANGED <<markets, halted>>

\* Mutant: Del of the store deletes nothing.
DelNothing(os, id) == os

Without(os, id) == [i \in DOMAIN os \ {id} |-> os[i]]

\* handleMsgCancel deletes the order; only Keeper.Cancel returns its escrow.
MsgCancel(owner, id) ==
  /\ halted = "no"
  /\ id \in DOMAIN orders
  /\ orders[id].owner = owner
  /\ orders' = Without(orders, id)
  /\ UNCHANGED <<markets, seq, balance, halted>>

-----------------------------------------------------------------------------
(* The batch, on a state s = [orders, balance, halted, events].            *)

\* Keeper.Cancel, of an expired order.
CancelOrder(s, id) ==
  LET o == s.orders[id]
      c == PostedCoin(o)
  IN  IF s.halted # "no" THEN s
      ELSE IF c.amount = 0 THEN [s EXCEPT !.halted = "dust"]
      ELSE IF ~CanSend(s.balance, OrderModule, c) THEN [s EXCEPT !.halted = "insolvent"]
      ELSE [s EXCEPT !.balance = Send(@, OrderModule, o.owner, c),
                     !.orders  = Without(@, id),
                     !.events  = Append(@, [type |-> "cancelled", id |-> id])]

\* The coins a fill adds to its owner's account.  A refund too small to
\* represent is dropped; proceeds too small to represent are a panic.
\* Mutant: what the bid offered above the clearing price is kept.
NoRefund(o, price, f) == 0
Refund(o, price, f) ==
  IF price < o.price THEN NormalizeQuote(o.price - price, f.filled) ELSE 0

\* The store after a fill: the order is deleted, or its quantity updated.
\* Mutant: a partly filled order keeps its quantity.
QuantityStays(os, f) == IF f.unfilled = 0 THEN Without(os, f.id) ELSE os
AfterFill(os, f) ==
  IF f.unfilled = 0 THEN Without(os, f.id) ELSE [os EXCEPT ![f.id].qty = f.unfilled]

ExecuteFill(s, price, f) ==
  LET o == s.orders[f.id]
      m == markets[o.market]
      proceeds == NormalizeQuote(price, f.filled)
      paid == IF o.direction = "bid"
              THEN Mint(Mint(s.balance, o.owner, Coin(m.base, f.filled)),
                        o.owner, Coin(m.quote, Refund(o, price, f)))
              ELSE Mint(s.balance, o.owner, Coin(m.quote, proceeds))
  IN  IF s.halted # "no" THEN s
      ELSE IF f.id \notin DOMAIN s.orders THEN [s EXCEPT !.halted = "missing"]
      ELSE IF o.direction = "ask" /\ proceeds = 0 THEN [s EXCEPT !.halted = "price"]
      ELSE [s EXCEPT !.balance = paid,
                     !.orders  = AfterFill(@, f),
                     !.events  = Append(@, [type |-> "fill", id |-> f.id,
                                            filled |-> f.filled])]

Ascending(S) ==
  CHOOSE q \in SetToSeqs(S) : \A k, l \in DOMAIN q : k < l => q[k] < q[l]

\* Mutants: a block too late; the difference taken the wrong way round.
ExpiredLate(o)    == o.age > o.tif + 1
ExpiredSwapped(o) == - o.age > o.tif
Expired(o)        == o.age > o.tif

CancelExpired ==
  FoldLeft(CancelOrder,
           [orders |-> orders, balance |-> balance, halted |-> halted, events |-> <<>>],
           Ascending({i \in DOMAIN orders : Expired(orders[i])}))

\* Mutant: one matcher for all markets.
AnyMarket(os, market, direction) == {i \in DOMAIN os : os[i].direction = direction}
OneSide(os, market, direction) ==
  {i \in DOMAIN os : os[i].market = market /\ os[i].direction = direction}

\* The book of one market and direction: ReverseIterator enqueues the latest
\* order first.
AddOrder(os, book, id) ==
  Enqueue(book, [id |-> id, price |-> os[id].price, qty |-> os[id].qty])

BookOf(os, market, direction) ==
  FoldLeft(LAMBDA book, id : AddOrder(os, book, id), <<>>,
           Reverse(Ascending(OneSide(os, market, direction))))

Matching(os) ==
  {m \in DOMAIN markets : Overlap(BookOf(os, m, "bid"), BookOf(os, m, "ask"))}

\* The batch when the markets are visited in the order ms: a Go map is
\* ranged over, so any order is possible.  All markets are matched before
\* the first fill is executed.
FillMarket(s, r) ==
  IF r.ratio = 0 THEN [s EXCEPT !.halted = "ratio"]
  ELSE FoldLeft(LAMBDA t, f : ExecuteFill(t, r.price, f), s, r.fills)

FillMarkets(s, ms) ==
  IF s.halted # "no" THEN s
  ELSE FoldLeft(LAMBDA t, m : FillMarket(t, Match(BookOf(s.orders, m, "bid"),
                                                  BookOf(s.orders, m, "ask"))),
                [s EXCEPT !.events = @ \o [k \in DOMAIN ms |->
                                             [type |-> "batch", id |-> ms[k]]]],
                ms)

Batch(ms) == FillMarkets(CancelExpired, ms)

\* The block ends with what the batch has changed, or halts the node.
EndWith(s) ==
  /\ halted = "no"
  /\ halted' = s.halted
  /\ \/ /\ s.halted = "no"
        /\ balance' = s.balance
        /\ orders' = [i \in DOMAIN s.orders |->
                        [s.orders[i] EXCEPT !.age = Min({@ + 1, AgeCap})]]
     \/ /\ s.halted # "no"
        /\ UNCHANGED <<balance, orders>>
  /\ UNCHANGED <<markets, seq>>

MarketOrders == SetToSeqs(Matching(CancelExpired.orders))

EndBlock == \E s \in {Batch(ms) : ms \in MarketOrders} : EndWith(s)

-----------------------------------------------------------------------------
Next ==
  \/ \E u \in Users, pair \in AssetPairs : CreateMarket(u, pair)
  \/ \E u \in Users, m \in DOMAIN markets, d \in Directions, p \in Prices,
        q \in Quantities, t \in 1 .. MaxTimeInForce : Post(u, m, d, p, q, t)
  \/ \E u \in Users, i \in DOMAIN orders : MsgCancel(u, i)
  \/ EndBlock

ExchangeSpec == Init /\ [][Next]_exchangeVars

\* Tendermint keeps producing blocks: WF_exchangeVars(EndBlock), with its
\* ENABLED written out: a block changes the age of the open orders.
BlocksKeepComing ==
  \/ []<>(halted # "no" \/ \A i \in DOMAIN orders : orders[i].age = AgeCap)
  \/ []<><<EndBlock>>_exchangeVars
FairSpec == ExchangeSpec /\ BlocksKeepComing

-----------------------------------------------------------------------------
(* Accounting used by the properties.                                      *)
\* What open orders would get back of denomination d.
Owed(os, d) ==
  [i \in DOMAIN os |-> IF PostedCoin(os[i]).denom = d THEN PostedCoin(os[i]).amount ELSE 0]
Refundable(d) == SumFunctionOnSet(Owed(orders, d), DOMAIN orders)

\* What the open orders of a user would get back of d.
Stakes(u, d) ==
  [i \in DOMAIN orders |-> IF orders[i].owner = u /\ PostedCoin(orders[i]).denom = d
                           THEN PostedCoin(orders[i]).amount ELSE 0]
\* What a user has of d, in the account and in open orders.
Wealth(u, d) == balance[<<u, d>>] + SumFunctionOnSet(Stakes(u, d), DOMAIN orders)

Circulating(d) == SumFunctionOnSet([u \in Users |-> Wealth(u, d)], Users)

QuoteDenoms == {markets[m].quote : m \in DOMAIN markets}
OpenBids    == {i \in DOMAIN orders : orders[i].direction = "bid"}

BlockCommitted == EndBlock /\ halted' = "no"

\* The quantity an order trades in a step that commits a block.
Traded(i) ==
  IF Expired(orders[i]) THEN 0
  ELSE orders[i].qty - (IF i \in DOMAIN orders' THEN orders'[i].qty ELSE 0)

-----------------------------------------------------------------------------
(* The order module can always return what open orders are owed.           *)
EscrowCoversOrders ==
  \A d \in Denoms : balance[<<OrderModule, d>>] >= Refundable(d)

(* The failures the code calls impossible are: the panic of Keeper.Cancel  *)
(* after SendCoinsFromModuleToAccount ("should never happen, implies       *)
(* consensus or storage bug"), and a fill of an order that is no longer in *)
(* the store, in whatever order the markets are executed.  Nor does a      *)
(* filled order stay behind, open with nothing left of it.                 *)
BooksStayConsistent == TypeOK /\ halted \notin {"insolvent", "missing"}

(* No order takes part in a batch after its time in force.                 *)
(* ExecuteAndCancelExpired cancels before it matches.                      *)
OrdersExpireOnTime ==
  \A i \in DOMAIN orders : orders[i].age <= orders[i].tif + 1

(* A batch only moves coins between people: a denomination that is no      *)
(* quote is exactly conserved in the hands and open orders of the users;   *)
(* a quote denomination grows by less than one unit per open bid, the      *)
(* rounding of NormalizeQuoteQuantity.  ExecuteFill against Match.         *)
CoinsChangeHands ==
  [][BlockCommitted =>
       \A d \in Denoms :
         IF d \in QuoteDenoms
         THEN \/ Circulating(d)' <= Circulating(d)
              \/ Circulating(d)' < Circulating(d) + Cardinality(OpenBids)
         ELSE Circulating(d)' = Circulating(d)]_exchangeVars

(* One price for all: in a batch an owner's wealth changes by no less than *)
(* the quantities traded, at the market's clearing price.  A bid never     *)
(* costs more than at its own limit (rounded up), nor a unit more than at  *)
(* the clearing price; an ask brings the clearing price, rounded down.     *)
(* The escrow of Post, Match, the refund and the proceeds of ExecuteFill.  *)
ClearingPrices ==
  LET os == CancelExpired.orders
  IN  [m \in Matching(os) |-> Match(BookOf(os, m, "bid"), BookOf(os, m, "ask")).price]

RoundUp(x) == (x + Divisor - 1) \div Divisor

InBase(i) == IF orders[i].direction = "bid" THEN Traded(i) ELSE - Traded(i)
InQuote(i, prices) ==
  LET o == orders[i]
  IN  IF Traded(i) = 0 THEN 0
      ELSE IF o.direction = "bid"
           THEN - Min({RoundUp(Traded(i) * o.price),
                       RoundUp(Traded(i) * prices[o.market]) + 1})
           ELSE (Traded(i) * Max({o.price, prices[o.market]})) \div Divisor

Earned(i, u, d, prices) ==
  LET m == markets[orders[i].market]
  IN  IF orders[i].owner # u THEN 0
      ELSE (IF m.base = d THEN InBase(i) ELSE 0) + (IF m.quote = d THEN InQuote(i, prices) ELSE 0)

OnePriceForAll ==
  [][BlockCommitted =>
       LET prices == ClearingPrices
       IN  \A u \in Users, d \in Denoms :
             Wealth(u, d)' >=
               Wealth(u, d) + SumFunctionOnSet([i \in DOMAIN orders |-> Earned(i, u, d, prices)],
                                               DOMAIN orders)]_exchangeVars

(* Every order leaves the book, filled, withdrawn or expired, unless a     *)
(* batch fails and stops the chain.  ExecuteAndCancelExpired.              *)
OrdersLeaveTheBook ==
  \A i \in 1 .. MaxOrders : i \in DOMAIN orders ~> i \notin DOMAIN orders \/ halted # "no"

-----------------------------------------------------------------------------
(* What the repository says and the code does not do.                      *)

(* Withdrawing an order gives its owner the coins back (keeper_test.go:    *)
(* "deletes the order and returns coins after cancellation").              *)
CancelReturnsCoins ==
  [][\A u \in Users, i \in DOMAIN orders : MsgCancel(u, i) =>
       \A d \in Denoms : Wealth(u, d)' = Wealth(u, d)]_exchangeVars
=============================================================================

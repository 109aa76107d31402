------------------------------ MODULE Batch_proofs ----------------------------
(***************************************************************************)
(* Theorems about a matcher: for any number of orders, prices and          *)
(* quantities, in any order of arrival, the merged match table is supply   *)
(* and demand as functions of the price, no fill breaks the order it is    *)
(* of, while less than half of the precision is posted the two sides of a  *)
(* trade balance in spite of the rounding, and while the square of what is *)
(* posted is less than the precision the long side is rationed pro rata,   *)
(* those who came first being served first.                                *)
(***************************************************************************)
EXTENDS Batch, Matcher_proofs

-----------------------------------------------------------------------------
(***************************************************************************)
(* The life of a matcher.                                                  *)
(***************************************************************************)

\* The orders of f, a function like `posted`, on one side, as the book keeps
\* them, and what they weigh.
IdsOn(f, side)    == {i \in DOMAIN f : f[i].side = side}
OrdersOn(f, side) == {[id |-> i, price |-> f[i].price, qty |-> f[i].qty] : i \in IdsOn(f, side)}
Weights(f)        == [i \in DOMAIN f |-> f[i].qty]

IsPosted(f) ==
    /\ IsFiniteSet(DOMAIN f)
    /\ DOMAIN f \subseteq Ids
    /\ \A i \in DOMAIN f : /\ f[i].side \in {"bid", "ask"}
                           /\ f[i].price \in Prices
                           /\ f[i].qty \in Quantities

\* The book q holds the orders on that side.
Holds(q, f, side) ==
    /\ ByPrice(q)
    /\ InOrder(q)
    /\ Distinct(q)
    /\ InBook(q) = OrdersOn(f, side)

\* The books hold what was posted, and a result is that of Match on them.
BatchInv ==
    /\ IsPosted(posted)
    /\ Holds(bids, posted, "bid")
    /\ Holds(asks, posted, "ask")
    /\ \/ results = Unmatched
       \/ results = Nil
       \/ Overlap(bids, asks) /\ results = Match(bids, asks)

\* The orders on a side are offers, weighed by their quantities.
LEMMA OrdersAre ==
  ASSUME NEW f, IsPosted(f), NEW side
  PROVE  Weighs(Weights(f), OrdersOn(f, side))
<1> DEFINE X == OrdersOn(f, side)
           g == [i \in IdsOn(f, side) |-> [id |-> i, price |-> f[i].price, qty |-> f[i].qty]]
<1>1. IsFiniteSet(X)
  <2>1. IsFiniteSet(IdsOn(f, side))
    <3>1. IsFiniteSet(DOMAIN f) /\ IdsOn(f, side) \in SUBSET DOMAIN f
      BY DEF IsPosted, IdsOn
    <3> QED BY <3>1, FS_Subset
  <2>2. g \in Surjection(IdsOn(f, side), X)
    BY DEF Surjection, OrdersOn
  <2> HIDE DEF g, X
  <2> QED BY <2>1, <2>2, FS_Surjection, Zenon
<1>2. \A o \in X : \E i \in DOMAIN f : o = [id |-> i, price |-> f[i].price, qty |-> f[i].qty]
  BY DEF OrdersOn, IdsOn
<1>3. \A i \in DOMAIN f : /\ i \in Nat
                          /\ f[i].price \in Nat
                          /\ f[i].qty \in Nat \ {0}
  BY BatchAssumption DEF IsPosted
<1>4. X \subseteq Offers /\ \A o \in X : o.id \in DOMAIN f /\ o.qty = f[o.id].qty
  BY <1>2, <1>3 DEF Offers
<1>5. \A o, p \in X : o.id = p.id => o = p
  BY <1>2
<1>6. \A o \in X : Weights(f)[o.id] = o.qty
  BY <1>4 DEF Weights
<1> QED BY <1>1, <1>4, <1>5, <1>6 DEF Weighs

\* The function f with one more order, and the orders on the two sides.
Posted(f, id, side, price, qty) ==
  [i \in DOMAIN f \cup {id} |->
     IF i = id THEN [side |-> side, price |-> price, qty |-> qty] ELSE f[i]]

LEMMA PostedIs ==
  ASSUME NEW f, IsPosted(f), NEW id \in Ids, id \notin DOMAIN f, NEW side \in {"bid", "ask"},
         NEW price \in Prices, NEW qty \in Quantities
  PROVE  /\ IsPosted(Posted(f, id, side, price, qty))
         /\ OrdersOn(Posted(f, id, side, price, qty), side)
              = OrdersOn(f, side) \cup {[id |-> id, price |-> price, qty |-> qty]}
         /\ \A other : other # side =>
              OrdersOn(Posted(f, id, side, price, qty), other) = OrdersOn(f, other)
<1> DEFINE g == Posted(f, id, side, price, qty)
           e == [side |-> side, price |-> price, qty |-> qty]
<1>1. /\ DOMAIN g = DOMAIN f \cup {id}
      /\ g[id] = e
      /\ \A i \in DOMAIN f : g[i] = f[i]
  BY DEF Posted
<1>2. e.side = side /\ e.price = price /\ e.qty = qty
  OBVIOUS
<1> HIDE DEF g, e
<1>3. IsFiniteSet(DOMAIN g)
  BY <1>1, FS_AddElement DEF IsPosted
<1>4. IsPosted(g)
  BY <1>1, <1>2, <1>3 DEF IsPosted
<1>5. IdsOn(g, side) = IdsOn(f, side) \cup {id}
  BY <1>1, <1>2 DEF IdsOn
<1>6. \A i \in IdsOn(f, side) : g[i] = f[i]
  BY <1>1 DEF IdsOn
<1>7. OrdersOn(g, side) = OrdersOn(f, side) \cup {[id |-> id, price |-> price, qty |-> qty]}
  BY <1>1, <1>2, <1>5, <1>6 DEF OrdersOn
<1>8. ASSUME NEW other, other # side PROVE OrdersOn(g, other) = OrdersOn(f, other)
  <2>1. IdsOn(g, other) = IdsOn(f, other) /\ \A i \in IdsOn(f, other) : g[i] = f[i]
    BY <1>1, <1>2, <1>8 DEF IdsOn
  <2> QED BY <2>1 DEF OrdersOn
<1> QED BY <1>4, <1>7, <1>8 DEF g

\* A book takes the new order of its side.
LEMMA HoldsNext ==
  ASSUME NEW f, IsPosted(f), NEW q, NEW id \in Ids, id \notin DOMAIN f, NEW side \in {"bid", "ask"},
         NEW price \in Prices, NEW qty \in Quantities, Holds(q, f, side)
  PROVE  Holds(Enqueue(q, [id |-> id, price |-> price, qty |-> qty]),
               Posted(f, id, side, price, qty), side)
<1> DEFINE o == [id |-> id, price |-> price, qty |-> qty]
<1>1. o \in Offers /\ o.id = id
  BY BatchAssumption DEF Offers
<1>2. \A p \in InBook(q) : p.id \in DOMAIN f
  BY DEF Holds, OrdersOn, IdsOn
<1>3. \A p \in InBook(q) : p.id # o.id
  BY <1>1, <1>2
<1>4. OrdersOn(Posted(f, id, side, price, qty), side) = OrdersOn(f, side) \cup {o}
  BY PostedIs
<1> HIDE DEF o
<1>5. /\ ByPrice(Enqueue(q, o))
      /\ InOrder(Enqueue(q, o))
      /\ Distinct(Enqueue(q, o))
      /\ InBook(Enqueue(q, o)) = InBook(q) \cup {o}
  BY <1>1, <1>3, Enqueued DEF Holds
<1>6. Holds(Enqueue(q, o), Posted(f, id, side, price, qty), side)
  BY <1>4, <1>5 DEF Holds
<1> QED BY <1>6 DEF o

\* Nothing is posted, and the books are empty.
LEMMA EmptyHolds ==
  /\ IsPosted(NoOrders)
  /\ Holds(<<>>, NoOrders, "bid")
  /\ Holds(<<>>, NoOrders, "ask")
<1>1. DOMAIN NoOrders = {}
  BY DEF NoOrders
<1>2. IsPosted(NoOrders)
  BY <1>1, FS_EmptySet DEF IsPosted
<1>3. \A side : OrdersOn(NoOrders, side) = {}
  BY <1>1 DEF OrdersOn, IdsOn
<1>4. ByPrice(<<>>) /\ InOrder(<<>>) /\ Distinct(<<>>) /\ InBook(<<>>) = {}
  BY DEF ByPrice, InOrder, Distinct, InBook
<1> QED BY <1>2, <1>3, <1>4 DEF Holds

\* The invariant holds at first.
LEMMA BatchInitInv == Init => BatchInv
BY EmptyHolds DEF Init, BatchInv

\* Every step keeps it.
LEMMA BatchStepInv == BatchInv /\ [Next]_batchVars => BatchInv'
<1> SUFFICES ASSUME BatchInv, [Next]_batchVars PROVE BatchInv'
  OBVIOUS
<1>1. IsPosted(posted) /\ Holds(bids, posted, "bid") /\ Holds(asks, posted, "ask")
  BY DEF BatchInv
<1>2. ASSUME NEW side \in {"bid", "ask"}, NEW id \in Ids, NEW p \in Prices, NEW q \in Quantities,
             EnqueueOrder(side, id, p, q)
      PROVE  BatchInv'
  <2> DEFINE o == [id |-> id, price |-> p, qty |-> q]
             f == Posted(posted, id, side, p, q)
  <2>1. id \notin DOMAIN posted /\ posted' = f /\ results' = Unmatched
    BY <1>2 DEF EnqueueOrder, Posted
  <2>2. IsPosted(f) /\ \A other : other # side => OrdersOn(f, other) = OrdersOn(posted, other)
    BY <1>1, <2>1, PostedIs
  <2>3. \A other, x : other # side /\ Holds(x, posted, other) => Holds(x, f, other)
    BY <2>2 DEF Holds
  <2>4. CASE side = "bid"
    <3>1. bids' = Enqueue(bids, o) /\ asks' = asks
      BY <1>2, <2>4 DEF EnqueueOrder
    <3>2. Holds(Enqueue(bids, o), f, "bid")
      BY <1>1, <2>1, <2>4, HoldsNext
    <3>3. Holds(asks, f, "ask")
      BY <1>1, <2>3, <2>4
    <3> HIDE DEF o, f
    <3> QED BY <2>1, <2>2, <3>1, <3>2, <3>3 DEF BatchInv
  <2>5. CASE side = "ask"
    <3>1. asks' = Enqueue(asks, o) /\ bids' = bids
      BY <1>2, <2>5 DEF EnqueueOrder
    <3>2. Holds(Enqueue(asks, o), f, "ask")
      BY <1>1, <2>1, <2>5, HoldsNext
    <3>3. Holds(bids, f, "bid")
      BY <1>1, <2>3, <2>5
    <3> HIDE DEF o, f
    <3> QED BY <2>1, <2>2, <3>1, <3>2, <3>3 DEF BatchInv
  <2> QED BY <2>4, <2>5
<1>3. CASE MatchOrders
  BY <1>3 DEF MatchOrders, BatchInv
<1>4. CASE ReturnMatcher
  BY <1>4, EmptyHolds DEF ReturnMatcher, BatchInv
<1>5. CASE UNCHANGED batchVars
  BY <1>5 DEF batchVars, BatchInv, Unmatched, Nil
<1> QED BY <1>2, <1>3, <1>4, <1>5 DEF Next

\* It holds throughout.
LEMMA BatchAlways == BatchSpec => []BatchInv
<1>1. Init => BatchInv
  BY BatchInitInv
<1>2. BatchInv /\ [Next]_batchVars => BatchInv'
  BY BatchStepInv
<1> QED BY <1>1, <1>2, PTL DEF BatchSpec

\* Supply and demand as the specification defines them: the quantities of the
\* orders in the books.
CurvesAt(p) ==
    /\ SupplyAt(p) = Quantity(Weights(posted), Cheap(InBook(asks), p))
    /\ DemandAt(p) = Quantity(Weights(posted), Dear(InBook(bids), p))

\* Orders and what they were made of.
LEMMA OrdersGive ==
  ASSUME NEW f, NEW side
  PROVE  /\ \A o \in OrdersOn(f, side) : o.id \in IdsOn(f, side) /\ o.price = f[o.id].price
         /\ \A i \in IdsOn(f, side) : \E o \in OrdersOn(f, side) : o.id = i /\ o.price = f[i].price
<1> DEFINE g(i) == [id |-> i, price |-> f[i].price, qty |-> f[i].qty]
<1>1. \A i : g(i).id = i /\ g(i).price = f[i].price
  OBVIOUS
<1>2. OrdersOn(f, side) = {g(i) : i \in IdsOn(f, side)}
  BY DEF OrdersOn
<1> HIDE DEF g
<1> QED BY <1>1, <1>2

\* They are.
LEMMA CurvesAre ==
  ASSUME BatchInv, NEW p
  PROVE  CurvesAt(p)
<1>1. InBook(asks) = OrdersOn(posted, "ask") /\ InBook(bids) = OrdersOn(posted, "bid")
  BY DEF BatchInv, Holds
<1>2. IdsOf(Cheap(OrdersOn(posted, "ask"), p)) = {i \in SideIds("ask") : posted[i].price <= p}
  <2>1. SideIds("ask") = IdsOn(posted, "ask")
    BY DEF SideIds, IdsOn
  <2> QED BY <2>1, OrdersGive DEF IdsOf, Cheap
<1>3. IdsOf(Dear(OrdersOn(posted, "bid"), p)) = {i \in SideIds("bid") : posted[i].price >= p}
  <2>1. SideIds("bid") = IdsOn(posted, "bid")
    BY DEF SideIds, IdsOn
  <2> QED BY <2>1, OrdersGive DEF IdsOf, Dear
<1>4. SupplyAt(p) = Quantity(Weights(posted), Cheap(InBook(asks), p))
  BY <1>1, <1>2, Zenon DEF SupplyAt, Volume, Quantity, Weights
<1>5. DemandAt(p) = Quantity(Weights(posted), Dear(InBook(bids), p))
  BY <1>1, <1>3, Zenon DEF DemandAt, Volume, Quantity, Weights
<1> QED BY <1>4, <1>5 DEF CurvesAt

\* What the books of a batch are, when they overlap.
LEMMA BooksAre ==
  ASSUME BatchInv
  PROVE  /\ Distinct(bids) /\ Distinct(asks)
         /\ Weighs(Weights(posted), InBook(bids)) /\ Weighs(Weights(posted), InBook(asks))
         /\ Overlap(bids, asks) => IsBook(bids) /\ IsBook(asks)
<1>1. IsPosted(posted) /\ Holds(bids, posted, "bid") /\ Holds(asks, posted, "ask")
  BY DEF BatchInv
<1>2. \A side : Weighs(Weights(posted), OrdersOn(posted, side))
  BY <1>1, OrdersAre
<1>3. Weighs(Weights(posted), InBook(bids)) /\ Weighs(Weights(posted), InBook(asks))
  BY <1>1, <1>2 DEF Holds
<1>4. ASSUME Overlap(bids, asks) PROVE IsBook(bids) /\ IsBook(asks)
  <2>1. bids # <<>> /\ asks # <<>> /\ ByPrice(bids) /\ ByPrice(asks)
    BY <1>1, <1>4 DEF Overlap, Holds
  <2> QED BY <2>1 DEF IsBook, ByPrice
<1> QED BY <1>1, <1>3, <1>4 DEF Holds

\* At every moment the match table of the orders posted so far is supply and
\* demand at every price among them, for any number of orders in any order.
THEOREM CurvesAlways == BatchSpec => []TableIsTheCurves
<1>1. BatchInv => TableIsTheCurves
  <2> SUFFICES ASSUME BatchInv, Overlap(bids, asks)
               PROVE  LET t == MatchTable(bids, asks)
                      IN  /\ {t[i].price : i \in DOMAIN t} = AllPrices
                          /\ \A i \in DOMAIN t : /\ i > 1 => t[i - 1].price < t[i].price
                                                 /\ t[i].supply = SupplyAt(t[i].price)
                                                 /\ t[i].demand = DemandAt(t[i].price)
    BY DEF TableIsTheCurves
  <2> DEFINE t == MatchTable(bids, asks)
             w == Weights(posted)
             n == Len(t)
  <2>1. Curves(t, w, InBook(bids), InBook(asks))
    BY BooksAre, MatchTableShows
  <2> HIDE DEF t, w
  <2>2. DOMAIN t = 1 .. n /\ n \in Nat
    BY <2>1 DEF Curves
  <2>3. {t[i].price : i \in DOMAIN t} = AllPrices
    <3>1. {t[i].price : i \in DOMAIN t} = PricesIn(InBook(asks)) \cup PricesIn(InBook(bids))
      BY <2>1, <2>2 DEF Curves, TablePrices
    <3>2. InBook(asks) = OrdersOn(posted, "ask") /\ InBook(bids) = OrdersOn(posted, "bid")
          /\ \A i \in DOMAIN posted : posted[i].side \in {"bid", "ask"}
      BY DEF BatchInv, Holds, IsPosted
    <3>3. PricesIn(OrdersOn(posted, "ask")) = {posted[i].price : i \in IdsOn(posted, "ask")}
      BY OrdersGive DEF PricesIn
    <3>4. PricesIn(OrdersOn(posted, "bid")) = {posted[i].price : i \in IdsOn(posted, "bid")}
      BY OrdersGive DEF PricesIn
    <3>5. DOMAIN posted = IdsOn(posted, "ask") \cup IdsOn(posted, "bid")
      BY <3>2 DEF IdsOn
    <3>6. AllPrices = {posted[i].price : i \in IdsOn(posted, "ask")}
                        \cup {posted[i].price : i \in IdsOn(posted, "bid")}
      BY <3>5 DEF AllPrices
    <3> QED BY <3>1, <3>2, <3>3, <3>4, <3>6
  <2>4. ASSUME NEW i \in DOMAIN t
        PROVE  /\ i > 1 => t[i - 1].price < t[i].price
               /\ t[i].supply = SupplyAt(t[i].price)
               /\ t[i].demand = DemandAt(t[i].price)
    <3>1. i \in 1 .. n
      BY <2>2
    <3>2. i > 1 => t[i - 1].price < t[i].price
      <4>1. i > 1 => i - 1 \in 1 .. n /\ i - 1 < i
        BY <2>2, <3>1
      <4> QED BY <2>1, <3>1, <4>1 DEF Curves
    <3>3. CurvesAt(t[i].price)
      BY CurvesAre
    <3>4. t[i].supply = Quantity(w, Cheap(InBook(asks), t[i].price))
      BY <2>1, <3>1, Zenon DEF Curves, ShowsSupply
    <3>5. t[i].demand = Quantity(w, Dear(InBook(bids), t[i].price))
      BY <2>1, <3>1, Zenon DEF Curves
    <3> QED BY <3>2, <3>3, <3>4, <3>5, Zenon DEF CurvesAt, w
  <2> QED BY <2>3, <2>4 DEF t
<1> QED BY <1>1, BatchAlways, PTL
-----------------------------------------------------------------------------
(***************************************************************************)
(* What a batch does.                                                      *)
(***************************************************************************)

\* A fill of an order on one side is what the specification says it is.
LEMMA FillIs ==
  ASSUME NEW f, NEW side, NEW o \in OrdersOn(f, side), NEW g, AccountsFor(g, o)
  PROVE  /\ g.id \in DOMAIN f /\ f[g.id].side = side
         /\ f[g.id].price = o.price
         /\ g.filled \in 1 .. f[g.id].qty
         /\ g.unfilled = f[g.id].qty - g.filled
<1>1. PICK i \in IdsOn(f, side) : o = [id |-> i, price |-> f[i].price, qty |-> f[i].qty]
  BY DEF OrdersOn
<1>2. o.id = i /\ o.price = f[i].price /\ o.qty = f[i].qty /\ i \in DOMAIN f /\ f[i].side = side
  BY <1>1 DEF IdsOn
<1> QED BY <1>2 DEF AccountsFor

\* The fills of a side respect the orders of that side.
Respects(g, f, side, price) ==
    /\ g.id \in DOMAIN f /\ f[g.id].side = side
    /\ IF side = "bid" THEN f[g.id].price >= price ELSE f[g.id].price <= price
    /\ g.filled \in 1 .. f[g.id].qty
    /\ g.unfilled = f[g.id].qty - g.filled

LEMMA SidesRespect ==
  ASSUME NEW f, NEW e, NEW ratio, NEW x, NEW y, NEW w,
         Sides(e, ratio, x, y, w, OrdersOn(f, "bid"), OrdersOn(f, "ask"))
  PROVE  /\ \A g \in Given(x) : Respects(g, f, "bid", e.price)
         /\ \A g \in Given(y) : Respects(g, f, "ask", e.price)
<1>1. ASSUME NEW g \in Given(x) PROVE Respects(g, f, "bid", e.price)
  <2>1. PICK o \in OrdersOn(f, "bid") : InMarket(o, BidRule(e, ratio, Recip(ratio))) /\ AccountsFor(g, o)
    BY Zenon DEF Sides, SideFills
  <2>2. o.price >= e.price
    BY <2>1 DEF InMarket, BidRule, BidInMarket
  <2>3. /\ g.id \in DOMAIN f /\ f[g.id].side = "bid"
        /\ f[g.id].price = o.price
        /\ g.filled \in 1 .. f[g.id].qty
        /\ g.unfilled = f[g.id].qty - g.filled
    BY <2>1, FillIs
  <2> QED BY <2>2, <2>3 DEF Respects
<1>2. ASSUME NEW g \in Given(y) PROVE Respects(g, f, "ask", e.price)
  <2>1. PICK o \in OrdersOn(f, "ask") : InMarket(o, AskRule(e, ratio, Recip(ratio))) /\ AccountsFor(g, o)
    BY Zenon DEF Sides, SideFills
  <2>2. o.price <= e.price
    BY <2>1 DEF InMarket, AskRule, AskInMarket
  <2>3. /\ g.id \in DOMAIN f /\ f[g.id].side = "ask"
        /\ f[g.id].price = o.price
        /\ g.filled \in 1 .. f[g.id].qty
        /\ g.unfilled = f[g.id].qty - g.filled
    BY <2>1, FillIs
  <2> QED BY <2>2, <2>3 DEF Respects
<1> QED BY <1>1, <1>2

\* The result r is a match of what f posts.
IsResult(r, f, e, ratio, x, y) ==
  IsMatchAt(r, e, ratio, x, y, Weights(f), OrdersOn(f, "bid"), OrdersOn(f, "ask"))

LEMMA ResultIs ==
  ASSUME BatchInv, Matched
  PROVE  \E e, ratio, x, y : /\ IsResult(results, posted, e, ratio, x, y)
                            /\ InTurn(e, ratio, x, y, bids, asks)
<1>1. Overlap(bids, asks) /\ results = Match(bids, asks)
  BY DEF BatchInv, Matched
<1>2. InBook(bids) = OrdersOn(posted, "bid") /\ InBook(asks) = OrdersOn(posted, "ask")
  BY DEF BatchInv, Holds
<1>3. \E e, ratio, x, y :
        /\ IsMatchAt(Match(bids, asks), e, ratio, x, y, Weights(posted), InBook(bids), InBook(asks))
        /\ InTurn(e, ratio, x, y, bids, asks)
  BY <1>1, BooksAre, MatchSides
<1> QED BY <1>1, <1>2, <1>3, Zenon DEF IsResult

\* The fills of a result are those of its two sides, each of another order.
FillsAre(r, f, x, y) ==
    /\ \A g \in Given(x) : Respects(g, f, "bid", r.price)
    /\ \A g \in Given(y) : Respects(g, f, "ask", r.price)
    /\ x \o y \in Seq(Fillings)
    /\ Given(x \o y) = Given(x) \cup Given(y)
    /\ Cardinality({g.id : g \in Given(x \o y)}) = Len(x \o y)

LEMMA ResultFills ==
  ASSUME NEW r, NEW f, NEW e, NEW ratio, NEW x, NEW y, IsResult(r, f, e, ratio, x, y)
  PROVE  FillsAre(r, f, x, y)
<1>1. r.price = e.price /\ Sides(e, ratio, x, y, Weights(f), OrdersOn(f, "bid"), OrdersOn(f, "ask"))
  BY DEF IsResult, IsMatchAt
<1>2. /\ \A g \in Given(x) : Respects(g, f, "bid", e.price)
      /\ \A g \in Given(y) : Respects(g, f, "ask", e.price)
  BY <1>1, SidesRespect
<1>3. /\ x \in Seq(Fillings) /\ y \in Seq(Fillings)
      /\ \A k, l \in 1 .. Len(x) : k # l => x[k].id # x[l].id
      /\ \A k, l \in 1 .. Len(y) : k # l => y[k].id # y[l].id
  BY <1>1 DEF Sides, SideFills
<1>4. (\A g \in Given(x) : f[g.id].side = "bid") /\ (\A g \in Given(y) : f[g.id].side = "ask")
  BY <1>2, Zenon DEF Respects
<1>5. Apart(x, y)
  <2>1. \A g \in Given(x), c \in Given(y) : g.id # c.id
    BY <1>4
  <2> QED BY <1>3, <2>1, SidesApart
<1>6. Cardinality({g.id : g \in Given(x \o y)}) = Len(x \o y)
  <2> DEFINE z == x \o y
  <2>1. z \in Seq(Fillings) /\ \A k, l \in 1 .. Len(z) : k # l => z[k].id # z[l].id
    BY <1>5 DEF Apart
  <2> HIDE DEF z
  <2>2. Cardinality({g.id : g \in Given(z)}) = Len(z)
    BY <2>1, AsManyIds
  <2> QED BY <2>2 DEF z
<1> QED BY <1>1, <1>2, <1>5, <1>6, Zenon DEF FillsAre, Apart

\* The fills of the specification are those of the result.
LEMMA FillsGiven ==
  ASSUME results.fills \in Seq(Fillings)
  PROVE  Fills = Given(results.fills)
<1>1. DOMAIN results.fills = 1 .. Len(results.fills)
  OBVIOUS
<1> QED BY <1>1 DEF Fills, Given

\* A fill that respects its order does so as the specification says.
LEMMA RespectsOrder ==
  ASSUME NEW g, NEW side \in {"bid", "ask"}, NEW price, Respects(g, posted, side, price)
  PROVE  /\ g.id \in DOMAIN posted
         /\ LET o == posted[g.id]
            IN  /\ IF o.side = "bid" THEN o.price >= price ELSE o.price <= price
                /\ g.filled \in 1 .. o.qty
                /\ g.unfilled = o.qty - g.filled
BY DEF Respects

\* Nobody trades outside the limit or beyond the size of the order, and no
\* order is filled twice: the fills of a match, whatever was posted.
LEMMA OrdersRespected == BatchInv => FillsRespectOrders
<1> SUFFICES ASSUME BatchInv, Matched
             PROVE  /\ \A g \in Fills : /\ g.id \in DOMAIN posted
                                        /\ LET o == posted[g.id]
                                           IN  /\ IF o.side = "bid" THEN o.price >= results.price
                                                                    ELSE o.price <= results.price
                                               /\ g.filled \in 1 .. o.qty
                                               /\ g.unfilled = o.qty - g.filled
                    /\ Cardinality({g.id : g \in Fills}) = Len(results.fills)
  BY DEF FillsRespectOrders
<1>1. PICK e, ratio, x, y : IsResult(results, posted, e, ratio, x, y)
  BY ResultIs
<1>2. results.fills = IF ratio = 0 THEN <<>> ELSE x \o y
  BY <1>1 DEF IsResult, IsMatchAt
<1>3. FillsAre(results, posted, x, y)
  BY <1>1, ResultFills
<1>4. CASE ratio = 0
  <2>1. Fills = {} /\ Len(results.fills) = 0
    BY <1>2, <1>4 DEF Fills
  <2>2. {g.id : g \in Fills} = {}
    BY <2>1
  <2> QED BY <2>1, <2>2, FS_EmptySet
<1>5. CASE ratio # 0
  <2>1. results.fills = x \o y
    BY <1>2, <1>5
  <2>2. x \o y \in Seq(Fillings) /\ Given(x \o y) = Given(x) \cup Given(y)
    BY <1>3, Zenon DEF FillsAre
  <2>3. Fills = Given(x \o y)
    <3>1. results.fills \in Seq(Fillings)
      BY <2>1, <2>2
    <3> QED BY <2>1, <3>1, FillsGiven
  <2>4. \A g \in Fills : \E side \in {"bid", "ask"} : Respects(g, posted, side, results.price)
    BY <1>3, <2>2, <2>3 DEF FillsAre
  <2>5. Cardinality({g.id : g \in Fills}) = Len(results.fills)
    BY <1>3, <2>1, <2>3, Zenon DEF FillsAre
  <2> QED BY <2>4, <2>5, RespectsOrder
<1> QED BY <1>4, <1>5

\* Whatever is posted, and however much of it: no fill breaks an order.
THEOREM OrdersAlways == BatchSpec => []FillsRespectOrders
BY OrdersRespected, BatchAlways, PTL

\* What can trade at a price was posted.
Posts(f) == SumFunctionOnSet(Weights(f), DOMAIN f)

LEMMA TradesArePosted ==
  ASSUME NEW f, IsPosted(f), NEW e, EntryIs(e, Weights(f), OrdersOn(f, "bid"), OrdersOn(f, "ask"))
  PROVE  e.supply + e.demand <= Posts(f)
<1> DEFINE w == Weights(f)
           D == DOMAIN f
           S == IdsOf(Cheap(OrdersOn(f, "ask"), e.price))
           T == IdsOf(Dear(OrdersOn(f, "bid"), e.price))
<1>1. e.supply = SumFunctionOnSet(w, S) /\ e.demand = SumFunctionOnSet(w, T)
  BY Zenon DEF EntryIs, Quantity
<1>2. S \subseteq IdsOn(f, "ask") /\ T \subseteq IdsOn(f, "bid")
  BY OrdersGive DEF IdsOf, Cheap, Dear
<1>3. S \cup T \in SUBSET D /\ S \in SUBSET D /\ T \in SUBSET D /\ S \cap T = {}
  BY <1>2 DEF IdsOn
<1>4. \A i \in D : w[i] \in Nat
  BY BatchAssumption DEF IsPosted, Weights
<1>5. IsFiniteSet(D)
  BY DEF IsPosted
<1> HIDE DEF w, D, S, T
<1>6. IsFiniteSet(S) /\ IsFiniteSet(T)
  BY <1>3, <1>5, FS_Subset
<1>7. SumFunctionOnSet(w, S \cup T) = SumFunctionOnSet(w, S) + SumFunctionOnSet(w, T)
  <2>1. \A i \in S \cup T : w[i] \in Int
    BY <1>3, <1>4
  <2> QED BY <1>3, <1>6, <2>1, SumUnion
<1>8. SumFunctionOnSet(w, S \cup T) <= SumFunctionOnSet(w, D)
  <2>1. /\ \A i \in S \cup T : w[i] \in Nat /\ w[i] <= w[i]
    BY <1>3, <1>4
  <2> QED BY <1>3, <1>4, <1>5, <2>1, SumUpTo
<1>9. e.supply + e.demand <= SumFunctionOnSet(w, D)
  BY <1>1, <1>7, <1>8
<1> QED BY <1>9 DEF Posts, w, D

\* What the fills of the result fill, side by side.
LEMMA FilledAre ==
  ASSUME NEW x \in Seq(Fillings), NEW y \in Seq(Fillings),
         Fills = Given(x) \cup Given(y),
         \A g \in Given(x) : posted[g.id].side = "bid",
         \A g \in Given(y) : posted[g.id].side = "ask"
  PROVE  Filled("bid") = TotalOf(Given(x)) /\ Filled("ask") = TotalOf(Given(y))
<1>1. ASSUME NEW G \in SUBSET Fills, IsFiniteSet(G)
      PROVE  FilledIn(G) = TotalOf(G)
  <2> DEFINE g == [c \in Fills |-> c.filled]
             h == [c \in G |-> c.filled]
  <2>1. \A c \in G : g[c] = h[c]
    OBVIOUS
  <2>2. FilledIn(G) = SumFunctionOnSet(g, G) /\ TotalOf(G) = SumFunctionOnSet(h, G)
    BY DEF FilledIn, TotalOf
  <2> HIDE DEF g, h
  <2>3. SumFunctionOnSet(g, G) = SumFunctionOnSet(h, G)
    BY <1>1, <2>1, SumSame
  <2> QED BY <2>2, <2>3
<1>2. IsFiniteSet(Given(x)) /\ IsFiniteSet(Given(y))
  BY GivenFinite
<1>3. {c \in Fills : posted[c.id].side = "bid"} = Given(x)
  <2>1. \A c \in Given(y) : posted[c.id].side # "bid"
    OBVIOUS
  <2> QED BY <2>1
<1>4. {c \in Fills : posted[c.id].side = "ask"} = Given(y)
  <2>1. \A c \in Given(x) : posted[c.id].side # "ask"
    OBVIOUS
  <2> QED BY <2>1
<1>5. Filled("bid") = FilledIn(Given(x)) /\ Filled("ask") = FilledIn(Given(y))
  BY <1>3, <1>4, Zenon DEF Filled
<1>6. Given(x) \in SUBSET Fills /\ Given(y) \in SUBSET Fills
  OBVIOUS
<1> QED BY <1>1, <1>2, <1>5, <1>6

\* What can trade at the price of the result is what its entry says.
LEMMA ClearedIs ==
  ASSUME BatchInv, NEW e, NEW ratio, NEW x, NEW y, IsResult(results, posted, e, ratio, x, y)
  PROVE  Cleared = Least(e)
<1>1. /\ results.price = e.price
      /\ EntryIs(e, Weights(posted), OrdersOn(posted, "bid"), OrdersOn(posted, "ask"))
  BY DEF IsResult, IsMatchAt
<1>2. InBook(bids) = OrdersOn(posted, "bid") /\ InBook(asks) = OrdersOn(posted, "ask")
  BY DEF BatchInv, Holds
<1>3. CurvesAt(e.price)
  BY CurvesAre
<1>4. SupplyAt(results.price) = e.supply /\ DemandAt(results.price) = e.demand
  BY <1>1, <1>2, <1>3, Zenon DEF CurvesAt, EntryIs
<1> QED BY <1>4, Zenon DEF Cleared, Least

\* While what is posted is less than half of the precision, the two sides of a
\* trade balance at what the short side has, which is more than nothing.
LEMMA VolumesBalanced ==
  ASSUME BatchInv, 2 * Volume(DOMAIN posted) < Precision
  PROVE  VolumesBalance
<1> SUFFICES ASSUME Matched
             PROVE  Filled("bid") = Filled("ask") /\ Filled("bid") = Cleared /\ Cleared > 0
  BY DEF VolumesBalance
<1>1. PICK e, ratio, x, y : IsResult(results, posted, e, ratio, x, y)
  BY ResultIs
<1> DEFINE w == Weights(posted)
           B == OrdersOn(posted, "bid")
           A == OrdersOn(posted, "ask")
<1>2. /\ results.fills = IF ratio = 0 THEN <<>> ELSE x \o y
      /\ e.supply \in Nat \ {0} /\ e.demand \in Nat \ {0}
      /\ EntryIs(e, w, B, A)
      /\ Sides(e, ratio, x, y, w, B, A)
  BY <1>1 DEF IsResult, IsMatchAt
<1>3. 2 * (e.supply + e.demand) < Precision
  <2>1. IsPosted(posted)
    BY DEF BatchInv
  <2>2. e.supply + e.demand <= Posts(posted)
    BY <1>2, <2>1, TradesArePosted
  <2>3. Volume(DOMAIN posted) = Posts(posted)
    BY Zenon DEF Volume, Posts, Weights
  <2>4. Posts(posted) \in Nat
    <3>1. IsFiniteSet(DOMAIN posted) /\ \A i \in DOMAIN posted : Weights(posted)[i] \in Nat
      BY <2>1, BatchAssumption DEF IsPosted, Weights
    <3> QED BY <3>1, SumNat DEF Posts
  <2>5. Precision \in Nat
    BY PrecisionAssumption
  <2> QED BY <1>2, <2>2, <2>3, <2>4, <2>5
<1>4. ratio # 0 /\ Balances(e, x, y)
  <2> HIDE DEF w, B, A
  <2> QED BY <1>2, <1>3, SidesBalance
<1>5. FillsAre(results, posted, x, y)
  BY <1>1, ResultFills
<1>6. x \in Seq(Fillings) /\ y \in Seq(Fillings)
  BY <1>2 DEF Sides, SideFills
<1>7. Fills = Given(x) \cup Given(y)
  <2>1. results.fills = x \o y
    BY <1>2, <1>4
  <2>2. x \o y \in Seq(Fillings) /\ Given(x \o y) = Given(x) \cup Given(y)
    BY <1>5, Zenon DEF FillsAre
  <2>3. results.fills \in Seq(Fillings)
    BY <2>1, <2>2
  <2> QED BY <2>1, <2>2, <2>3, FillsGiven
<1>8. /\ \A g \in Given(x) : posted[g.id].side = "bid"
      /\ \A g \in Given(y) : posted[g.id].side = "ask"
  BY <1>5, Zenon DEF FillsAre, Respects
<1>9. Filled("bid") = TotalOf(Given(x)) /\ Filled("ask") = TotalOf(Given(y))
  BY <1>6, <1>7, <1>8, FilledAre
<1>10. Cleared = Least(e)
  BY <1>1, ClearedIs
<1>11. Least(e) > 0
  BY <1>2 DEF Least
<1> QED BY <1>4, <1>9, <1>10, <1>11, Zenon DEF Balances

\* As long as less than half of the precision is posted, a trade is sound on
\* both sides, whatever the orders: rounding the share of the long side never
\* unbalances it.  (With more, the share is coarser than one unit, and with
\* far more it rounds to nothing: then Match panics.)
THEOREM TradesAlways ==
  BatchSpec => [](2 * Volume(DOMAIN posted) < Precision => TradesBalance)
<1>1. BatchInv => (2 * Volume(DOMAIN posted) < Precision => TradesBalance)
  BY VolumesBalanced, OrdersRespected DEF TradesBalance
<1> QED BY <1>1, BatchAlways, PTL
-----------------------------------------------------------------------------
(***************************************************************************)
(* Rationing.                                                              *)
(***************************************************************************)

\* The orders that a side lets trade at a price, and who is served first.
OpenOn(f, side, price) ==
  {i \in IdsOn(f, side) : IF side = "bid" THEN f[i].price >= price ELSE f[i].price <= price}

Earlier(f, side, i, j) ==
  \/ IF side = "bid" THEN f[i].price > f[j].price ELSE f[i].price < f[j].price
  \/ f[i].price = f[j].price /\ IF side = "bid" THEN i < j ELSE i > j

\* q holds the orders of a side in the order they are served.
Turns(q, f, side) ==
    /\ q \in Seq(Offers)
    /\ Distinct(q)
    /\ InBook(q) = OrdersOn(f, side)
    /\ \A k, l \in 1 .. Len(q) :
         k < l => IF side = "bid" THEN Follows(q[k], q[l]) ELSE Follows(q[l], q[k])

\* The asks do as the book has them, the bids from its end.
LEMMA TurnsAre ==
  ASSUME NEW f, NEW q
  PROVE  /\ Holds(q, f, "ask") => Turns(q, f, "ask")
         /\ Holds(q, f, "bid") => Turns(Reverse(q), f, "bid")
<1>1. ASSUME Holds(q, f, "ask") PROVE Turns(q, f, "ask")
  BY <1>1 DEF Holds, ByPrice, InOrder, Turns
<1>2. ASSUME Holds(q, f, "bid") PROVE Turns(Reverse(q), f, "bid")
  <2> DEFINE n == Len(q)
             b == Reverse(q)
  <2>1. q \in Seq(Offers) /\ n \in Nat /\ Distinct(q) /\ InBook(q) = OrdersOn(f, "bid")
    BY <1>2 DEF Holds, ByPrice
  <2>2. \A i, j \in 1 .. n : i < j => Follows(q[j], q[i])
    BY <1>2 DEF Holds, InOrder
  <2>3. b \in Seq(Offers) /\ Len(b) = n /\ \A i \in 1 .. n : b[i] = q[n - i + 1]
    BY <2>1, Reversed
  <2>4. Distinct(b) /\ InBook(b) = InBook(q)
    BY <2>1, HighestFirstIs
  <2> HIDE DEF b, n
  <2>5. ASSUME NEW k \in 1 .. n, NEW l \in 1 .. n, k < l PROVE Follows(b[k], b[l])
    <3>1. n - k + 1 \in 1 .. n /\ n - l + 1 \in 1 .. n /\ n - l + 1 < n - k + 1
      BY <2>1, <2>5
    <3>2. b[k] = q[n - k + 1] /\ b[l] = q[n - l + 1]
      BY <2>3
    <3> QED BY <2>2, <3>1, <3>2
  <2> QED BY <2>1, <2>3, <2>4, <2>5 DEF Turns, b
<1> QED BY <1>1, <1>2

\* Who is served first is first in turn.
LEMMA FirstInTurn ==
  ASSUME NEW f, NEW side \in {"bid", "ask"}, NEW q, Turns(q, f, side),
         NEW k \in 1 .. Len(q), NEW l \in 1 .. Len(q), Earlier(f, side, q[k].id, q[l].id)
  PROVE  k < l
<1>1. q \in Seq(Offers) /\ InBook(q) = OrdersOn(f, side)
      /\ \A i, j \in 1 .. Len(q) : i < j => IF side = "bid" THEN Follows(q[i], q[j]) ELSE Follows(q[j], q[i])
  BY DEF Turns
<1> DEFINE a == q[k]
           c == q[l]
<1>2. a \in Offers /\ c \in Offers
  BY <1>1
<1>3. a.id \in Nat /\ c.id \in Nat /\ a.price \in Nat /\ c.price \in Nat
  BY <1>2 DEF Offers
<1>4. a.price = f[a.id].price /\ c.price = f[c.id].price
  <2>1. a \in OrdersOn(f, side) /\ c \in OrdersOn(f, side)
    BY <1>1 DEF InBook
  <2> QED BY <2>1, OrdersGive
<1>5. IF side = "bid" THEN Follows(a, c) ELSE Follows(c, a)
  BY <1>3, <1>4 DEF Earlier, Follows
<1>6. /\ Follows(a, c) => ~ Follows(c, a)
      /\ a = c => ~ Follows(a, c)
  BY <1>3 DEF Follows
<1>7. k # l
  BY <1>5, <1>6
<1>8. l < k => IF side = "bid" THEN Follows(c, a) ELSE Follows(a, c)
  BY <1>1
<1> HIDE DEF a, c
<1>9. ~ (l < k)
  BY <1>5, <1>6, <1>8
<1>10. Len(q) \in Nat
  BY <1>1
<1> QED BY <1>7, <1>9, <1>10

\* Where the order i gets g of the fills F, and the share of long is short,
\* the specification of a fair ration.
FairRation(f, side, price, F, i, g, long, short) ==
    /\ g * long <= f[i].qty * short + long
    /\ (g + 1) * long <= f[i].qty * short =>
         \A j \in OpenOn(f, side, price) : Earlier(f, side, i, j) => \A c \in F : c.id # j

LEMMA SideIsFair ==
  ASSUME NEW f, NEW side \in {"bid", "ask"}, NEW q, Turns(q, f, side),
         NEW rule, NEW long \in Nat \ {0}, NEW short \in Nat, SharedOut(rule, long, short),
         NEW price, \A o : InMarket(o, rule) <=> IF side = "bid" THEN o.price >= price ELSE o.price <= price,
         NEW F, Rations(rule, F, q, Len(q)),
         NEW i \in OpenOn(f, side, price), f[i].qty * (long + short) < Precision,
         NEW g \in Nat, Gets(F, i, g)
  PROVE  FairRation(f, side, price, F, i, g, long, short)
<1>1. q \in Seq(Offers) /\ Distinct(q) /\ InBook(q) = OrdersOn(f, side)
  BY DEF Turns
<1>2. ASSUME NEW j \in OpenOn(f, side, price)
      PROVE  \E l \in 1 .. Len(q) : q[l].id = j /\ q[l].price = f[j].price /\ q[l].qty = f[j].qty
  <2> DEFINE o == [id |-> j, price |-> f[j].price, qty |-> f[j].qty]
  <2>1. o \in InBook(q)
    BY <1>1 DEF OpenOn, OrdersOn
  <2>2. o.id = j /\ o.price = f[j].price /\ o.qty = f[j].qty
    OBVIOUS
  <2> HIDE DEF o
  <2> QED BY <2>1, <2>2 DEF InBook
<1>3. PICK k \in 1 .. Len(q) : q[k].id = i /\ q[k].price = f[i].price /\ q[k].qty = f[i].qty
  BY <1>2
<1>4. InMarket(q[k], rule)
  BY <1>3 DEF OpenOn
<1>5. IsFairTo(F, q, k, g, long, short)
  <2>1. Gets(F, q[k].id, g) /\ q[k].qty * (long + short) < Precision
    BY <1>3
  <2> QED BY <1>1, <1>4, <2>1, FairShares
<1>6. g * long <= f[i].qty * short + long
  BY <1>3, <1>5 DEF IsFairTo
<1>7. ASSUME (g + 1) * long <= f[i].qty * short, NEW j \in OpenOn(f, side, price), Earlier(f, side, i, j)
      PROVE  \A c \in F : c.id # j
  <2>1. PICK l \in 1 .. Len(q) : q[l].id = j
    BY <1>2
  <2>2. k < l
    BY <1>3, <1>7, <2>1, FirstInTurn
  <2> QED BY <1>3, <1>5, <1>7, <2>1, <2>2 DEF IsFairTo
<1> QED BY <1>6, <1>7 DEF FairRation

\* What an order gets of the fills of a batch.
LEMMA GotIs ==
  ASSUME Fills \subseteq Fillings, \A g, c \in Fills : g.id = c.id => g = c, NEW i
  PROVE  Got(i) \in Nat /\ Gets(Fills, i, Got(i))
<1> DEFINE h == [g \in Fills |-> g.filled]
           G == {g \in Fills : g.id = i}
<1>1. Got(i) = SumFunctionOnSet(h, G)
  BY DEF Got, FilledIn
<1>2. \A g \in Fills : h[g] = g.filled /\ g.filled \in Nat
  BY DEF Fillings
<1> HIDE DEF h
<1>3. CASE G = {}
  <2>1. Got(i) = 0
    BY <1>1, <1>3, SumEmpty
  <2> QED BY <1>3, <2>1 DEF Gets
<1>4. CASE G # {}
  <2>1. PICK g \in Fills : g.id = i
    BY <1>4
  <2>2. G = {} \cup {g} /\ \A c \in {} \cup {g} : h[c] \in Int
    BY <1>2, <2>1
  <2>3. SumFunctionOnSet(h, {} \cup {g}) = h[g] + SumFunctionOnSet(h, {})
    BY <2>2, SumAdd, FS_EmptySet
  <2>4. Got(i) = g.filled
    <3>1. h[g] = g.filled /\ g.filled \in Nat /\ SumFunctionOnSet(h, {}) = 0
      BY <1>2, SumEmpty
    <3>2. Got(i) = h[g] + SumFunctionOnSet(h, {})
      BY <1>1, <2>2, <2>3, Zenon
    <3> QED BY <3>1, <3>2
  <2>5. \A c \in Fills : c.id = i => c.filled = g.filled
    BY <2>1
  <2> QED BY <1>2, <2>1, <2>4, <2>5 DEF Gets
<1> QED BY <1>3, <1>4

\* The fills of one side, to the orders of that side.
LEMMA GetsOnSide ==
  ASSUME NEW F, NEW S, NEW f, NEW side, S \subseteq F,
         \A c \in F : c \in S \/ f[c.id].side # side,
         NEW i \in IdsOn(f, side), NEW g, Gets(F, i, g)
  PROVE  Gets(S, i, g) /\ ((\A c \in S : c.id # i) => g = 0)
<1>1. \A c \in F : c.id = i => c \in S
  BY DEF IdsOn
<1> QED BY <1>1 DEF Gets

\* While the square of what is posted is less than the precision, rationing
\* is pro rata.
LEMMA RationsFair ==
  ASSUME BatchInv, Volume(DOMAIN posted) * Volume(DOMAIN posted) < Precision
  PROVE  RationIsProRata
<1> SUFFICES ASSUME Matched
             PROVE  LET long == Volume(Eligible)
                    IN  \A i \in Eligible :
                          /\ Got(i) * long <= posted[i].qty * Cleared + long
                          /\ (Got(i) + 1) * long <= posted[i].qty * Cleared =>
                               \A j \in Eligible : ServedBefore(i, j) => Got(j) = 0
  BY DEF RationIsProRata
<1>1. PICK e, ratio, x, y : IsResult(results, posted, e, ratio, x, y) /\ InTurn(e, ratio, x, y, bids, asks)
  BY ResultIs
<1> DEFINE w == Weights(posted)
           B == OrdersOn(posted, "bid")
           A == OrdersOn(posted, "ask")
           V == Volume(DOMAIN posted)
           s == e.supply
           d == e.demand
<1>2. /\ results.price = e.price
      /\ results.fills = IF ratio = 0 THEN <<>> ELSE x \o y
      /\ s \in Nat \ {0} /\ d \in Nat \ {0}
      /\ EntryIs(e, w, B, A)
      /\ Sides(e, ratio, x, y, w, B, A)
  BY <1>1 DEF IsResult, IsMatchAt
<1>3. IsPosted(posted) /\ Holds(bids, posted, "bid") /\ Holds(asks, posted, "ask")
  BY DEF BatchInv
<1>4. Precision \in Nat \ {0}
  BY PrecisionAssumption
<1>5. V \in Nat /\ s + d <= V /\ \A i \in DOMAIN posted : posted[i].qty \in Nat /\ posted[i].qty <= V
  <2>1. s + d <= Posts(posted)
    BY <1>2, <1>3, TradesArePosted
  <2>2. V = SumFunctionOnSet(w, DOMAIN posted) /\ V = Posts(posted)
    BY Zenon DEF Volume, Posts, Weights
  <2>3. IsFiniteSet(DOMAIN posted) /\ \A i \in DOMAIN posted : w[i] \in Nat /\ w[i] = posted[i].qty
    BY <1>3, BatchAssumption DEF IsPosted, Weights
  <2> HIDE DEF w, V
  <2>4. V \in Nat /\ \A i \in DOMAIN posted : w[i] <= V
    BY <2>2, <2>3, SumNat
  <2> QED BY <2>1, <2>2, <2>3, <2>4
<1>6. V * V < Precision
  OBVIOUS
<1> HIDE DEF V
<1>7. 2 * (s + d) < Precision
  <2>1. V * 2 <= V * V
    BY <1>2, <1>5, Times
  <2>2. V * V \in Int
    BY <1>5
  <2> QED BY <1>2, <1>4, <1>5, <1>6, <2>1, <2>2
<1>8. \A i \in DOMAIN posted : posted[i].qty * (s + d) < Precision
  <2> SUFFICES ASSUME NEW i \in DOMAIN posted PROVE posted[i].qty * (s + d) < Precision
    OBVIOUS
  <2> DEFINE n == posted[i].qty
             c == s + d
  <2>1. n \in Nat /\ n <= V /\ c \in Nat /\ c <= V
    BY <1>2, <1>5
  <2> HIDE DEF n, c
  <2>2. n * c <= n * V /\ V * n <= V * V
    BY <1>5, <2>1, Times
  <2>3. n * V = V * n /\ n * c \in Int /\ V * n \in Int /\ V * V \in Int
    BY <1>5, <2>1
  <2>4. n * c < Precision
    BY <1>4, <1>6, <2>2, <2>3
  <2> QED BY <2>4 DEF n, c
<1>9. ratio = ProRata(e) /\ ratio # 0 /\ x \in Seq(Fillings) /\ y \in Seq(Fillings)
      /\ (\A k, l \in 1 .. Len(x) : k # l => x[k].id # x[l].id)
      /\ (\A k, l \in 1 .. Len(y) : k # l => y[k].id # y[l].id)
  <2>1. ratio # 0
    <3> HIDE DEF w, B, A
    <3> QED BY <1>2, <1>7, SidesBalance
  <2> QED BY <1>2, <2>1 DEF Sides, SideFills
<1>10. FillsAre(results, posted, x, y)
  BY <1>1, ResultFills
<1>11. Fills = Given(x) \cup Given(y)
  <2>1. results.fills = x \o y
    BY <1>2, <1>9
  <2>2. x \o y \in Seq(Fillings) /\ Given(x \o y) = Given(x) \cup Given(y)
    BY <1>10, Zenon DEF FillsAre
  <2>3. results.fills \in Seq(Fillings)
    BY <2>1, <2>2
  <2> QED BY <2>1, <2>2, <2>3, FillsGiven
<1>12. /\ \A g \in Given(x) : posted[g.id].side = "bid"
       /\ \A g \in Given(y) : posted[g.id].side = "ask"
  BY <1>10, Zenon DEF FillsAre, Respects
<1>13. \A i : Got(i) \in Nat /\ Gets(Fills, i, Got(i))
  <2>1. Fills \subseteq Fillings
    BY <1>9, <1>11, GivenFinite
  <2>2. (\A g, c \in Given(x) : g.id = c.id => g = c) /\ (\A g, c \in Given(y) : g.id = c.id => g = c)
    BY <1>9 DEF Given
  <2>3. \A g, c \in Fills : g.id = c.id => g = c
    BY <1>11, <1>12, <2>2
  <2> QED BY <2>1, <2>3, GotIs
<1>14. IF d < s THEN SharedOut(AskRule(e, ratio, Recip(ratio)), s, d)
                ELSE SharedOut(BidRule(e, ratio, Recip(ratio)), d, s)
  BY <1>2, <1>7, <1>9, SharesAre
<1>15. SupplyAt(results.price) = s /\ DemandAt(results.price) = d /\ Cleared = Least(e)
  <2>1. InBook(bids) = B /\ InBook(asks) = A
    BY <1>3 DEF Holds
  <2>2. CurvesAt(e.price)
    BY CurvesAre
  <2>3. SupplyAt(e.price) = s /\ DemandAt(e.price) = d
    BY <1>2, <2>1, <2>2, Zenon DEF CurvesAt, EntryIs
  <2> QED BY <1>1, <1>2, <2>3, ClearedIs
<1>16. \A side : IdsOn(posted, side) = SideIds(side) /\ IdsOn(posted, side) \subseteq DOMAIN posted
  BY DEF IdsOn, SideIds
<1>17. CASE d < s
  <2>1. LongSide = "ask" /\ Cleared = d
    BY <1>2, <1>15, <1>17 DEF LongSide, Least
  <2>2. Eligible = OpenOn(posted, "ask", results.price)
    BY <1>16, <2>1 DEF Eligible, OpenOn
  <2>3. Volume(Eligible) = s
    <3>1. Eligible = {i \in SideIds("ask") : posted[i].price <= results.price}
      BY <2>1 DEF Eligible
    <3> QED BY <1>15, <3>1 DEF SupplyAt
  <2>4. \A i, j : ServedBefore(i, j) <=> Earlier(posted, "ask", i, j)
    BY <2>1 DEF ServedBefore, Earlier
  <2> DEFINE rule == AskRule(e, ratio, Recip(ratio))
             F == Given(y)
  <2>5. SharedOut(rule, s, d) /\ Rations(rule, F, asks, Len(asks)) /\ Turns(asks, posted, "ask")
    BY <1>1, <1>3, <1>14, <1>17, TurnsAre DEF InTurn, SharedOut
  <2>6. \A o : InMarket(o, rule) <=> o.price <= results.price
    BY <1>2 DEF InMarket, AskRule, AskInMarket
  <2>7. \A i \in Eligible : /\ i \in IdsOn(posted, "ask")
                            /\ Gets(F, i, Got(i))
                            /\ (\A c \in F : c.id # i) => Got(i) = 0
    <3>1. F \subseteq Fills /\ \A c \in Fills : c \in F \/ posted[c.id].side # "ask"
      BY <1>11, <1>12
    <3>2. \A i \in Eligible : i \in IdsOn(posted, "ask")
      BY <2>2 DEF OpenOn
    <3> HIDE DEF F
    <3> QED BY <1>13, <3>1, <3>2, GetsOnSide
  <2> HIDE DEF rule, F, s, d
  <2>8. \A i \in Eligible : FairRation(posted, "ask", results.price, F, i, Got(i), s, d)
    <3> SUFFICES ASSUME NEW i \in Eligible
                 PROVE  FairRation(posted, "ask", results.price, F, i, Got(i), s, d)
      OBVIOUS
    <3>1. Got(i) \in Nat /\ Gets(F, i, Got(i)) /\ posted[i].qty * (s + d) < Precision
      BY <1>8, <1>13, <1>16, <2>7
    <3>2. \A o : InMarket(o, rule) <=> IF "ask" = "bid" THEN o.price >= results.price ELSE o.price <= results.price
      BY <2>6
    <3>3. i \in OpenOn(posted, "ask", results.price)
      BY <2>2
    <3> HIDE DEF F
    <3> QED BY <1>2, <2>5, <3>1, <3>2, <3>3, SideIsFair
  <2> QED BY <2>1, <2>2, <2>3, <2>4, <2>7, <2>8 DEF FairRation
<1>18. CASE ~ (d < s)
  <2>1. LongSide = "bid" /\ Cleared = s
    BY <1>2, <1>15, <1>18 DEF LongSide, Least
  <2>2. Eligible = OpenOn(posted, "bid", results.price)
    BY <1>16, <2>1 DEF Eligible, OpenOn
  <2>3. Volume(Eligible) = d
    <3>1. Eligible = {i \in SideIds("bid") : posted[i].price >= results.price}
      BY <2>1 DEF Eligible
    <3> QED BY <1>15, <3>1 DEF DemandAt
  <2>4. \A i, j : ServedBefore(i, j) <=> Earlier(posted, "bid", i, j)
    BY <2>1 DEF ServedBefore, Earlier
  <2> DEFINE rule == BidRule(e, ratio, Recip(ratio))
             F == Given(x)
             q == Reverse(bids)
  <2>5. SharedOut(rule, d, s) /\ Rations(rule, F, q, Len(q)) /\ Turns(q, posted, "bid")
    BY <1>1, <1>3, <1>14, <1>18, TurnsAre DEF InTurn, SharedOut
  <2>6. \A o : InMarket(o, rule) <=> o.price >= results.price
    BY <1>2 DEF InMarket, BidRule, BidInMarket
  <2>7. \A i \in Eligible : /\ i \in IdsOn(posted, "bid")
                            /\ Gets(F, i, Got(i))
                            /\ (\A c \in F : c.id # i) => Got(i) = 0
    <3>1. F \subseteq Fills /\ \A c \in Fills : c \in F \/ posted[c.id].side # "bid"
      BY <1>11, <1>12
    <3>2. \A i \in Eligible : i \in IdsOn(posted, "bid")
      BY <2>2 DEF OpenOn
    <3> HIDE DEF F
    <3> QED BY <1>13, <3>1, <3>2, GetsOnSide
  <2> HIDE DEF rule, F, q, s, d
  <2>8. \A i \in Eligible : FairRation(posted, "bid", results.price, F, i, Got(i), d, s)
    <3> SUFFICES ASSUME NEW i \in Eligible
                 PROVE  FairRation(posted, "bid", results.price, F, i, Got(i), d, s)
      OBVIOUS
    <3>1. s + d = d + s
      BY <1>2
    <3>2. Got(i) \in Nat /\ Gets(F, i, Got(i)) /\ posted[i].qty * (d + s) < Precision
      BY <1>8, <1>13, <1>16, <2>7, <3>1
    <3>3. \A o : InMarket(o, rule) <=> IF "bid" = "bid" THEN o.price >= results.price ELSE o.price <= results.price
      BY <2>6
    <3>4. i \in OpenOn(posted, "bid", results.price)
      BY <2>2
    <3> QED BY <1>2, <2>5, <3>2, <3>3, <3>4, SideIsFair
  <2> QED BY <2>1, <2>2, <2>3, <2>4, <2>7, <2>8 DEF FairRation
<1> QED BY <1>17, <1>18

\* As long as the square of what is posted is less than the precision, the
\* long side is rationed pro rata: no order gets more than its share and one
\* unit, and when one gets a whole unit less than its share, none of its side
\* that is served after it gets anything: Match served it the last there was.
THEOREM RationsAlways ==
  BatchSpec => [](Volume(DOMAIN posted) * Volume(DOMAIN posted) < Precision => RationIsProRata)
<1>1. BatchInv => (Volume(DOMAIN posted) * Volume(DOMAIN posted) < Precision => RationIsProRata)
  BY RationsFair
<1> QED BY <1>1, BatchAlways, PTL
=============================================================================

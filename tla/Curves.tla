------------------------------- MODULE Curves -------------------------------
(***************************************************************************)
(* What the exchange page computes from a list of orders or of price       *)
(* levels [price, quantity]: src/ui/src/utils/exchange-utils.ts, the       *)
(* series of DepthChart and BatchExecutionChart, the rows of Depth and the *)
(* amount of List.  Prices and quantities are integers of ledger units; a  *)
(* level's price is counted in Ticks, the fourth decimal of a coin (10^4   *)
(* units in the code).                                                     *)
(***************************************************************************)
EXTENDS Integers, SequencesExt

CONSTANT Tick

ASSUME TickAssumption == Tick \in Nat \ {0}

Total(S, Of(_)) == MapThenSumSet(Of, S)

-----------------------------------------------------------------------------
(* Levels.                                                                 *)

\* price.div(10^8).toFixed(4): halves are rounded up.
Key(price) == (2 * price + Tick) \div (2 * Tick)

\* reduceDepthFromOrders: one level for each key, in no order yet.
Depths(orders) ==
  {[price    |-> key,
    quantity |-> Total({i \in DOMAIN orders : Key(orders[i].price) = key},
                       LAMBDA i : orders[i].quantity)]
     : key \in {Key(orders[i].price) : i \in DOMAIN orders}}

Worth(level) == level.price * level.quantity

DepthMax(levels) == Max({0} \cup {Worth(l) : l \in levels})

\* sortOrders: the keys of a side are all different.
SortOrders(levels, descending) ==
  SetToSortSeq(levels, LAMBDA a, b : IF descending THEN a.price > b.price
                                                   ELSE a.price < b.price)

-----------------------------------------------------------------------------
(* Supply and demand.                                                      *)

\* Mutant: the price itself is not wanted.
DemandOver(levels, stop) == Total({l \in levels : stop < l.price}, LAMBDA l : l.quantity)

AggregateSupply(levels, stop) == Total({l \in levels : stop >= l.price}, LAMBDA l : l.quantity)
AggregateDemand(levels, stop) == Total({l \in levels : stop <= l.price}, LAMBDA l : l.quantity)

\* priceOrder: a price that both sides have is there twice.
PriceOrder(bids, asks) ==
  SortSeq(SetToSeq({l.price : l \in bids}) \o SetToSeq({l.price : l \in asks}), <)

\* One round of estimateBatch's loop at the i-th price: the last price both
\* sides reach is kept; where supply overtakes demand the price before it is
\* taken instead, if both sides reach that one too.
EstimateAt(bids, asks, order, found, i) ==
  LET both(p) == AggregateSupply(asks, p) # 0 /\ AggregateDemand(bids, p) # 0
      price   == IF both(order[i]) THEN order[i] ELSE found.price
      over    == AggregateSupply(asks, order[i]) > AggregateDemand(bids, order[i])
  IN  CASE found.done -> found
        [] ~ found.done /\ over ->
             [done |-> TRUE,
              price |-> IF i > 1 /\ price # 0 /\ both(order[i - 1]) THEN order[i - 1] ELSE price]
        [] OTHER -> [done |-> FALSE, price |-> price]

\* estimateBatch on two lists of orders; 0 is "no price".
EstimateOn(bids, asks, order) ==
  FoldLeft(LAMBDA found, i : EstimateAt(bids, asks, order, found, i),
           [done |-> FALSE, price |-> 0], [i \in DOMAIN order |-> i]).price

EstimateBatch(bids, asks) ==
  EstimateOn(Depths(bids), Depths(asks), PriceOrder(Depths(bids), Depths(asks)))

-----------------------------------------------------------------------------
(* What is drawn.                                                          *)

\* hydrateChartWithData of DepthChart: the worth of the levels is summed up
\* from the best price on.  BatchExecutionChart starts at zero.
Series(levels, descending) ==
  LET sorted == SortOrders(levels, descending)
  IN  [i \in DOMAIN sorted |->
         [price |-> sorted[i].price,
          value |-> Total({j \in DOMAIN sorted : j <= i}, LAMBDA j : Worth(sorted[j]))]]

BatchSeries(levels, descending) ==
  LET series == Series(levels, descending)
  IN  IF series = <<>> THEN <<>>
      ELSE <<[price |-> series[1].price, value |-> 0]>> \o series

\* The rows of a side of Depth, those without a quantity left out, and the
\* width of a row's bar: percent of 1.25 times the largest worth.
Rows(levels, descending) ==
  SelectSeq(SortOrders(levels, descending), LAMBDA l : l.quantity # 0)

Width(level, bids, asks) ==
  LET max == Max({DepthMax(bids), DepthMax(asks)})
  IN  (2 * 80 * Worth(level) + max) \div (2 * max)

\* findQuantityUnderPrice, findQuantityOverPrice and the amount of a batch in
\* List: the lesser of the two.  Mutant: an ask at the price does not count.
QuantityBelowPrice(levels, price) ==
  Total({i \in DOMAIN levels : levels[i].price < price}, LAMBDA i : levels[i].quantity)

FindQuantityUnderPrice(levels, price) ==
  Total({i \in DOMAIN levels : levels[i].price <= price}, LAMBDA i : levels[i].quantity)
FindQuantityOverPrice(levels, price) ==
  Total({i \in DOMAIN levels : levels[i].price >= price}, LAMBDA i : levels[i].quantity)

ClearingQuantity(bids, asks, price) ==
  Min({FindQuantityUnderPrice(asks, price), FindQuantityOverPrice(bids, price)})
=============================================================================

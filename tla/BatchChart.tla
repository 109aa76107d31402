----------------------------- MODULE BatchChart -----------------------------
(***************************************************************************)
(* A batch on its way from the matcher to the exchange page: the open      *)
(* orders as the book shows them before the match (module Curves on the    *)
(* orders of module Batch), and the batch event with its aggregates, drawn *)
(* and listed after it.                                                    *)
(***************************************************************************)
EXTENDS Batch, Curves

\* bookHandler: one entry for each price of a side, with what is open at it.
BookOf(side) ==
  LET prices == SetToSortSeq({posted[i].price : i \in SideIds(side)}, <)
  IN  [k \in DOMAIN prices |->
         [price    |-> prices[k],
          quantity |-> Volume({i \in SideIds(side) : posted[i].price = prices[k]})]]

\* The event of a batch carries the aggregates of Match: the quantity at a
\* price includes that of every better price.
EventBids == LET aggs == BidAggregates(bids)
             IN  [k \in DOMAIN aggs |-> [price |-> aggs[k].price, quantity |-> aggs[k].qty]]
EventAsks == LET aggs == AskTable(asks)
             IN  [k \in DOMAIN aggs |-> [price |-> aggs[k].price, quantity |-> aggs[k].supply]]

-----------------------------------------------------------------------------
(* Properties.                                                             *)

\* The page's estimate agrees with the definition it stands for, on the
\* prices the charts can tell apart: the highest price both sides reach at
\* which supply does not overtake demand, the lowest they reach if it
\* overtakes at each, and no price when they reach none.  The page never
\* shows a market that will trade as one that will not.  estimateBatch.
EstimateIsLastCalmPrice ==
  results = Unmatched =>
    LET keyed(side, Allowed(_)) == Volume({i \in SideIds(side) : Allowed(Key(posted[i].price))})
        supply(k) == keyed("ask", LAMBDA p : p <= k)
        demand(k) == keyed("bid", LAMBDA p : p >= k)
        reached   == {k \in {Key(p) : p \in AllPrices} : supply(k) > 0 /\ demand(k) > 0}
        calm      == {k \in reached : supply(k) <= demand(k)}
        estimate  == EstimateBatch(BookOf("bid"), BookOf("ask"))
    IN  /\ estimate = CASE reached = {} -> 0
                        [] calm # {}    -> Max(calm)
                        [] OTHER        -> Min(reached)
        /\ Overlap(bids, asks) => estimate # 0

\* The amount listed for a batch is at least what was traded; it is exactly
\* that when each side had one price in the market, and may be more when not:
\* the quantities of the event are sums already and List sums them again.
AmountIsListed ==
  Matched =>
    LET shown == ClearingQuantity(EventBids, EventAsks, results.price)
        inMarket(side, Allowed(_)) ==
          {posted[i].price : i \in {j \in SideIds(side) : Allowed(posted[j].price)}}
    IN  /\ shown >= Cleared
        /\ (/\ Cardinality(inMarket("bid", LAMBDA p : p >= results.price)) = 1
            /\ Cardinality(inMarket("ask", LAMBDA p : p <= results.price)) = 1)
           => shown = Cleared

\* Before the match, the depth chart and the depth table tell the same book:
\* the line of a side steps where the table has a row, by the worth of that
\* row, and no bar is wider than its row.  Depth, DepthChart.
BookIsDrawn ==
  results = Unmatched =>
    \A side \in {"bid", "ask"} :
      LET series == Series(Depths(BookOf(side)), side = "bid")
          rows   == Rows(Depths(BookOf(side)), side = "bid")
          before(i) == IF i = 1 THEN 0 ELSE series[i - 1].value
      IN  /\ [i \in DOMAIN rows |-> rows[i].price] = [i \in DOMAIN series |-> series[i].price]
          /\ \A i \in DOMAIN rows :
               /\ Worth(rows[i]) = series[i].value - before(i)
               /\ Width(rows[i], Depths(BookOf("bid")), Depths(BookOf("ask"))) \in 0 .. 80

\* A line of the batch chart starts at nothing and ends with at least what the
\* orders of its side were worth at their keys; it ends with exactly that when
\* they had one price, and beyond it when not, again because sums are summed.
BatchIsDrawn ==
  Matched =>
    \A side \in {"bid", "ask"} :
      LET levels == Depths(IF side = "bid" THEN EventBids ELSE EventAsks)
          line   == BatchSeries(levels, side = "bid")
          worth  == Total(SideIds(side), LAMBDA i : Key(posted[i].price) * posted[i].qty)
      IN  /\ line[1].value = 0
          /\ line[Len(line)].value >= worth
          /\ Cardinality({posted[i].price : i \in SideIds(side)}) = 1
               => line[Len(line)].value = worth

\* The page shows a batch as it is, before the match and after it: chart and
\* table tell the same book, and neither the amount listed nor the lines drawn
\* are less than the trade.  Depth, DepthChart, List, BatchExecutionChart.
PageShowsTheBatch == BookIsDrawn /\ AmountIsListed /\ BatchIsDrawn
=============================================================================

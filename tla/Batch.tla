------------------------------- MODULE Batch --------------------------------
(***************************************************************************)
(* One Matcher object of the pool through its life: orders are enqueued,   *)
(* matched once, and the matcher is reset and returned to the pool for the *)
(* next market or block (pkg/matcheng/matcher.go, matcher_pool.go).        *)
(* `posted` is the reference: the orders of this batch, by id.             *)
(***************************************************************************)
EXTENDS Matcher

CONSTANTS Ids,         \* order ids, positive integers
          Prices,      \* limit prices
          Quantities   \* quantities

ASSUME BatchAssumption ==
  /\ Ids \subseteq Nat \ {0}
  /\ Prices \subseteq Nat \ {0}
  /\ Quantities \subseteq Nat \ {0}

VARIABLES bids, asks,  \* the books
          posted,      \* id -> [side, price, qty], the orders enqueued
          results      \* the MatchResults, Unmatched or Nil

batchVars == <<bids, asks, posted, results>>

Unmatched == [price |-> 0, fills |-> <<>>]
Nil       == [price |-> 0, fills |-> <<"nil">>]

NoOrders == [i \in {} |-> {}]

Init == bids = <<>> /\ asks = <<>> /\ posted = NoOrders /\ results = Unmatched

EnqueueOrder(side, id, price, qty) ==
  /\ results = Unmatched
  /\ id \notin DOMAIN posted
  /\ posted' = [i \in DOMAIN posted \cup {id} |->
                  IF i = id THEN [side |-> side, price |-> price, qty |-> qty] ELSE posted[i]]
  /\ LET o == [id |-> id, price |-> price, qty |-> qty]
     IN  \/ side = "bid" /\ bids' = Enqueue(bids, o) /\ UNCHANGED asks
         \/ side = "ask" /\ asks' = Enqueue(asks, o) /\ UNCHANGED bids
  /\ UNCHANGED results

MatchOrders ==
  /\ results = Unmatched
  /\ results' = IF Overlap(bids, asks) THEN Match(bids, asks) ELSE Nil
  /\ UNCHANGED <<bids, asks, posted>>

\* ReturnMatcher: Reset and Put.  A matcher whose Match returned nil is not
\* returned; the pool makes a new one in its place, which is as empty.
ReturnMatcher ==
  /\ results # Unmatched
  /\ bids' = <<>>
  /\ asks' = <<>>
  /\ posted' = NoOrders
  /\ results' = Unmatched

Next ==
  \/ \E side \in {"bid", "ask"}, id \in Ids, p \in Prices, q \in Quantities :
       EnqueueOrder(side, id, p, q)
  \/ MatchOrders
  \/ ReturnMatcher

BatchSpec == Init /\ [][Next]_batchVars

-----------------------------------------------------------------------------
(* The reference: supply and demand as functions of the price.             *)
SideIds(side) == {i \in DOMAIN posted : posted[i].side = side}
Volume(S)     == SumFunctionOnSet([i \in DOMAIN posted |-> posted[i].qty], S)

SupplyAt(p) == Volume({i \in SideIds("ask") : posted[i].price <= p})
DemandAt(p) == Volume({i \in SideIds("bid") : posted[i].price >= p})
AllPrices   == {posted[i].price : i \in DOMAIN posted}

Matched  == results \notin {Unmatched, Nil}
Fills    == {results.fills[k] : k \in DOMAIN results.fills}
FilledIn(F)  == SumFunctionOnSet([f \in Fills |-> f.filled], F)
Filled(side) == FilledIn({f \in Fills : posted[f.id].side = side})
Cleared  == IF SupplyAt(results.price) < DemandAt(results.price)
            THEN SupplyAt(results.price) ELSE DemandAt(results.price)

(* The merged match table is the pair of curves: one entry per price, in   *)
(* order, with the supply and the demand at that price.  Match, the merge  *)
(* of askAggs and bidAggs.                                                 *)
TableIsTheCurves ==
  results = Unmatched /\ Overlap(bids, asks) =>
    LET t == MatchTable(bids, asks)
    IN  /\ {t[i].price : i \in DOMAIN t} = AllPrices
        /\ \A i \in DOMAIN t : /\ i > 1 => t[i - 1].price < t[i].price
                               /\ t[i].supply = SupplyAt(t[i].price)
                               /\ t[i].demand = DemandAt(t[i].price)

(* A batch trades: what buyers get is what sellers give, all that the      *)
(* short side has at the clearing price, and more than nothing.  The       *)
(* rounding of the rationed side never breaks the balance.                 *)
VolumesBalance ==
  Matched => Filled("bid") = Filled("ask") /\ Filled("bid") = Cleared /\ Cleared > 0

(* Nobody trades outside the limit or beyond the size of the order, no     *)
(* order is filled twice in a batch, and a fill accounts for the whole     *)
(* order.  Match, the two fill loops.                                      *)
FillsRespectOrders ==
  Matched =>
    /\ \A f \in Fills : /\ f.id \in DOMAIN posted
                        /\ LET o == posted[f.id]
                           IN  /\ IF o.side = "bid" THEN o.price >= results.price
                                                    ELSE o.price <= results.price
                               /\ f.filled \in 1 .. o.qty
                               /\ f.unfilled = o.qty - f.filled
    /\ Cardinality({f.id : f \in Fills}) = Len(results.fills)

(* A trade is sound on both sides: it balances and respects every order.   *)
(* Match, from the clearing price to the last fill.                        *)
TradesBalance == VolumesBalance /\ FillsRespectOrders

(* Rationing is pro rata: an order of the long side gets at most one unit  *)
(* more than its share rounded down (proRataDec may be rounded up, and     *)
(* Ceil then lifts even a whole share to the next unit), and when one is   *)
(* cut below its share every order served after it gets nothing.  Among    *)
(* equal prices the oldest bid is served first and the oldest ask last.    *)
Got(i) == FilledIn({f \in Fills : f.id = i})
LongSide == IF SupplyAt(results.price) > DemandAt(results.price) THEN "ask" ELSE "bid"
Eligible == {i \in SideIds(LongSide) : IF LongSide = "bid"
                                       THEN posted[i].price >= results.price
                                       ELSE posted[i].price <= results.price}
ServedBefore(i, j) ==
  \/ IF LongSide = "bid" THEN posted[i].price > posted[j].price
                         ELSE posted[i].price < posted[j].price
  \/ posted[i].price = posted[j].price /\ IF LongSide = "bid" THEN i < j ELSE i > j

RationIsProRata ==
  Matched =>
    LET long == Volume(Eligible)
    IN  \A i \in Eligible :
          /\ Got(i) * long <= posted[i].qty * Cleared + long
          /\ (Got(i) + 1) * long <= posted[i].qty * Cleared =>
               \A j \in Eligible : ServedBefore(i, j) => Got(j) = 0
=============================================================================

------------------------------ MODULE Matcher -------------------------------
(***************************************************************************)
(* The batch auction of the exchange, pkg/matcheng/matcher.go, as          *)
(* operators on two books.  A book is a sequence of orders                 *)
(* [id, price, qty] in the order the Matcher keeps them: by price, lowest  *)
(* first, and by id, highest first, among equal prices.  Quantities are    *)
(* sdk.Uint and never negative; ratios are sdk.Dec (module Dec).           *)
(*                                                                         *)
(* The two goroutines of Match that build the ask table and the bid        *)
(* aggregates write disjoint variables and are joined before either is     *)
(* read, so their interleaving is not modelled.                            *)
(***************************************************************************)
EXTENDS Dec, SequencesExt

-----------------------------------------------------------------------------
(* EnqueueOrder: sort.Search finds the first order that must follow o.     *)
Follows(t, o) == IF t.price = o.price THEN t.id < o.id ELSE t.price > o.price

Enqueue(book, o) ==
  LET at == SelectInSeq(book, LAMBDA t : Follows(t, o))
  IN  InsertAt(book, IF at = 0 THEN Len(book) + 1 ELSE at, o)

-----------------------------------------------------------------------------
(* The match table: one entry per price, with the quantity offered at that *)
(* price or less and the quantity wanted at that price or more.            *)
AddAsk(table, ask) ==
  IF table # <<>> /\ Last(table).price = ask.price
  THEN [table EXCEPT ![Len(table)].supply = @ + ask.qty]
  ELSE Append(table,
         [price  |-> ask.price,
          supply |-> ask.qty + (IF table = <<>> THEN 0 ELSE Last(table).supply),
          demand |-> 0])

AskTable(asks) == FoldLeft(AddAsk, <<>>, asks)

\* From the highest bid to the lowest.
AddBid(aggs, bid) ==
  IF aggs # <<>> /\ Head(aggs).price = bid.price
  THEN [aggs EXCEPT ![1].qty = @ + bid.qty]
  ELSE Cons([price |-> bid.price,
             qty   |-> bid.qty + (IF aggs = <<>> THEN 0 ELSE Head(aggs).qty)],
            aggs)

BidAggregates(bids) == FoldLeft(AddBid, <<>>, Reverse(bids))

\* The place of an aggregate in the table: an entry of its price is found,
\* or made with the supply of the entry below.
Place(table, agg) ==
  LET j == SelectInSeq(table, LAMBDA e : e.price >= agg.price)
  IN  IF j = 0 THEN Len(table) + 1 ELSE j

Insert(table, agg) ==
  LET j == Place(table, agg)
      carry == IF j = 1 THEN 0 ELSE table[j - 1].supply
  IN  IF j <= Len(table) /\ table[j].price = agg.price
      THEN [table EXCEPT ![j].demand = @ + agg.qty]
      ELSE InsertAt(table, j, [price |-> agg.price, supply |-> carry, demand |-> agg.qty])

\* Mutant: the asks between two bid prices are not wanted by the higher bids.
MergeOnlyInserts(m, agg) ==
  [table |-> Insert(m.table, agg), next |-> Place(m.table, agg) + 1]

\* One round of the merge: agg goes to its place j, and the entries between
\* the previous aggregate (m.next = lastInsertion) and j want agg.qty too.
MergeBid(m, agg) ==
  LET j == Place(m.table, agg)
      table == Insert(m.table, agg)
  IN  [table |-> [i \in DOMAIN table |->
                    IF i \in m.next .. j - 1
                    THEN [table[i] EXCEPT !.demand = @ + agg.qty]
                    ELSE table[i]],
       next  |-> j + 1]

MatchTable(bids, asks) ==
  FoldLeft(MergeBid, [table |-> AskTable(asks), next |-> 1],
           BidAggregates(bids)).table

-----------------------------------------------------------------------------
(* The clearing entry: where supply overtakes demand.                      *)
CalcDir(e) == IF e.supply > e.demand THEN 1 ELSE IF e.supply = e.demand THEN 0 ELSE -1

Crossed(t, i) == i > 1 /\ CalcDir(t[i - 1]) # CalcDir(t[i])

\* The last of the entries after i that repeat its supply and demand; 0
\* when there is none (topIdx).
FlatTop(t, i) ==
  LET Same(j) == t[j].supply = t[i].supply /\ t[j].demand = t[i].demand
  IN  Max({0} \cup {j \in i + 1 .. Len(t) : \A k \in i + 1 .. j : Same(k)})

Crossings(t) == {i \in DOMAIN t : Crossed(t, i)}

\* The loop leaves at the first crossing that is flat (the clearing price is
\* then the midpoint of the flat part) or that has supply below it (then the
\* entry below it clears); else it ends with the last entry.
Exit(t) ==
  Min({Len(t) + 1} \cup {i \in Crossings(t) : FlatTop(t, i) # 0 \/ t[i - 1].supply > 0})

Flat(t, exit) == exit <= Len(t) /\ FlatTop(t, exit) # 0

Found(t, exit) ==
  IF Flat(t, exit)
  THEN [t[exit] EXCEPT !.price = @ + (t[FlatTop(t, exit)].price - @) \div 2]
  ELSE t[exit - 1]

\* crossPoint: the last crossing the loop has seen, if it was not flat.
CrossPoint(t, exit) ==
  Max({1} \cup {i \in Crossings(t) : i < exit \/ (i = exit /\ ~Flat(t, exit))})

\* A horizontal cross clears at the crossing and not at the end of the table.
HorizontalCross(t, found, cross) ==
  IF /\ found.price = Last(t).price
     /\ cross < Len(t)
     /\ t[cross].supply > 0
     /\ t[cross].demand > 0
  THEN t[cross]
  ELSE found

ClearingAt(t, exit) == HorizontalCross(t, Found(t, exit), CrossPoint(t, exit))
Clearing(t)         == ClearingAt(t, Exit(t))

-----------------------------------------------------------------------------
(* The fills: the short side is filled, the long side is rationed.         *)
\* Mutant: shares are rounded down.
FloorInt(x) == x \div Precision

CeilInt(x) == (x + Precision - 1) \div Precision

\* Orders are served while their limit allows the clearing price.
BidInMarket(o, price) == o.price >= price
AskInMarket(o, price) == o.price <= price

InMarket(o, rule) ==
  IF rule.side = "bid" THEN BidInMarket(o, rule.price) ELSE AskInMarket(o, rule.price)

\* The next order o of a side is served, s being what was served before.  A
\* rationed order gets its share rounded up, cut to what is left of the
\* limit; serving ends when `stop` is reached.
Serve(rule, s, o) ==
  LET want == IF rule.rationed THEN CeilInt(o.qty * rule.share) ELSE o.qty
      qty  == IF rule.rationed /\ s.matched + want > rule.limit
              THEN rule.limit - s.matched ELSE want
  IN  IF ~InMarket(o, rule) \/ s.matched = rule.stop \/ (rule.rationed /\ qty = 0)
      THEN s
      ELSE [matched |-> s.matched + (IF rule.rationed THEN qty ELSE 0),
            fills   |-> Append(s.fills, [id |-> o.id, filled |-> qty,
                                         unfilled |-> o.qty - qty])]

FillSide(rule, orders) ==
  FoldLeft(LAMBDA s, o : Serve(rule, s, o), [matched |-> 0, fills |-> <<>>], orders).fills

\* proRataDec and proRataRecip.
ProRata(e)   == QuoInts(e.supply, e.demand)
Recip(ratio) == ChopRound((Precision * Precision * Precision) \div ratio)

\* Bids are served from the highest price, asks from the lowest.  Mutant:
\* bids from the lowest.
LowestFirst(bids)  == bids
HighestFirst(bids) == Reverse(bids)

BidRule(e, ratio, recip) ==
  [side |-> "bid", price |-> e.price, rationed |-> ratio <= Precision, share |-> ratio,
   limit |-> RoundInt(e.demand * ratio), stop |-> RoundInt(e.supply * recip)]

AskRule(e, ratio, recip) ==
  [side |-> "ask", price |-> e.price, rationed |-> ratio > Precision, share |-> recip,
   limit |-> RoundInt(e.supply * recip), stop |-> RoundInt(e.supply * recip)]

FillsAt(bids, asks, e, ratio, recip) ==
  FillSide(BidRule(e, ratio, recip), HighestFirst(bids))
    \o FillSide(AskRule(e, ratio, recip), asks)

\* Match returns nil when one side is empty or the best bid is below the
\* best ask.
Overlap(bids, asks) ==
  bids # <<>> /\ asks # <<>> /\ Last(bids).price >= Head(asks).price

\* MatchResults, without the aggregates it also reports, and with the ratio:
\* Match divides by it, and panics when so little is offered for what is
\* wanted that it rounds to 0.
MatchAt(bids, asks, e) ==
  LET ratio == ProRata(e)
  IN  [price |-> e.price,
       ratio |-> ratio,
       fills |-> IF ratio = 0 THEN <<>> ELSE FillsAt(bids, asks, e, ratio, Recip(ratio))]
Match(bids, asks) == MatchAt(bids, asks, Clearing(MatchTable(bids, asks)))
=============================================================================

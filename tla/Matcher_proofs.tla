----------------------------- MODULE Matcher_proofs ---------------------------
(***************************************************************************)
(* Facts about the batch auction of module Matcher, for books of any       *)
(* length, prices and quantities.  On two books that overlap Match finds a *)
(* clearing price, and fills each of their orders at most once and for no  *)
(* more than its quantity: the match table is sorted, with growing supply, *)
(* falling demand and an entry that has both, so that the entry that       *)
(* clears has demand, and the shares of the rationed side never exceed the *)
(* limit.  The fills are served in turn, each its share of the other side  *)
(* rounded up, until the limit cuts one.  The books themselves stay sorted *)
(* as orders are enqueued, and among equal prices latest first.            *)
(*                                                                         *)
(* Each loop of Match is a fold (module Folding), and what holds of it is  *)
(* shown along its runs.                                                   *)
(***************************************************************************)
EXTENDS Matcher, Sums

-----------------------------------------------------------------------------
(***************************************************************************)
(* Sequences and numbers.                                                  *)
(***************************************************************************)

\* The least of some natural numbers.
LEMMA MinIs ==
  ASSUME NEW s \in SUBSET Nat, s # {}
  PROVE  Min(s) \in s /\ \A i \in s : Min(s) <= i
BY LeastNat, Zenon DEF Min

\* Two sequences, one after the other.
LEMMA Joined ==
  ASSUME NEW V, NEW a \in Seq(V), NEW b \in Seq(V)
  PROVE  /\ a \o b \in Seq(V)
         /\ Len(a \o b) = Len(a) + Len(b)
         /\ \A i \in 1 .. Len(a) + Len(b) :
              (a \o b)[i] = IF i <= Len(a) THEN a[i] ELSE b[i - Len(a)]
OBVIOUS

\* An entry is put in the place j of a sequence, and the rest moves up.
LEMMA Inserted ==
  ASSUME NEW V, NEW q \in Seq(V), NEW e \in V, NEW j \in 1 .. Len(q) + 1
  PROVE  /\ InsertAt(q, j, e) \in Seq(V)
         /\ Len(InsertAt(q, j, e)) = Len(q) + 1
         /\ \A i \in 1 .. Len(q) + 1 :
              InsertAt(q, j, e)[i] = IF i < j THEN q[i] ELSE IF i = j THEN e ELSE q[i - 1]
<1> DEFINE a == SubSeq(q, 1, j - 1)
           c == SubSeq(q, j, Len(q))
<1>1. a \in Seq(V) /\ Len(a) = j - 1 /\ \A i \in 1 .. j - 1 : a[i] = q[i]
  OBVIOUS
<1>2. c \in Seq(V) /\ Len(c) = Len(q) - j + 1 /\ \A i \in 1 .. Len(q) - j + 1 : c[i] = q[j + i - 1]
  OBVIOUS
<1> HIDE DEF a, c
<1>3. /\ a \o <<e>> \in Seq(V) /\ Len(a \o <<e>>) = j
      /\ \A i \in 1 .. j : (a \o <<e>>)[i] = IF i < j THEN q[i] ELSE e
  BY <1>1
<1> DEFINE b == a \o <<e>>
<1>0. b \in Seq(V) /\ Len(b) = j /\ \A i \in 1 .. j : b[i] = IF i < j THEN q[i] ELSE e
  BY <1>3
<1>n. Len(q) \in Nat /\ j \in Nat
  OBVIOUS
<1> HIDE DEF b
<1>4. /\ b \o c \in Seq(V) /\ Len(b \o c) = Len(q) + 1
      /\ \A i \in 1 .. Len(q) + 1 : (b \o c)[i] = IF i <= j THEN b[i] ELSE c[i - j]
  <2>1. /\ b \o c \in Seq(V) /\ Len(b \o c) = Len(b) + Len(c)
        /\ \A i \in 1 .. Len(b) + Len(c) :
             (b \o c)[i] = IF i <= Len(b) THEN b[i] ELSE c[i - Len(b)]
    BY <1>0, <1>2, Joined
  <2>2. Len(b) + Len(c) = Len(q) + 1
    BY <1>0, <1>2, <1>n
  <2> QED BY <1>0, <2>1, <2>2
<1>5. InsertAt(q, j, e) = b \o c
  BY DEF InsertAt, a, b, c
<1>6. ASSUME NEW i \in 1 .. Len(q) + 1
      PROVE  (b \o c)[i] = IF i < j THEN q[i] ELSE IF i = j THEN e ELSE q[i - 1]
  <2>1. CASE i <= j
    <3>1. (b \o c)[i] = b[i]
      BY <1>4, <2>1
    <3>2. i \in 1 .. j /\ (i < j \/ i = j)
      BY <1>n, <2>1
    <3>3. b[i] = IF i < j THEN q[i] ELSE e
      BY <1>0, <3>2
    <3> QED BY <1>n, <3>1, <3>2, <3>3
  <2>2. CASE i > j
    <3>1. (b \o c)[i] = c[i - j]
      BY <1>4, <2>2
    <3>2. i - j \in 1 .. Len(q) - j + 1
      BY <2>2
    <3>3. c[i - j] = q[j + (i - j) - 1]
      BY <1>2, <3>2
    <3> QED BY <2>2, <3>1, <3>3
  <2>3. i \in Int /\ (i <= j \/ i > j)
    BY <1>n
  <2> QED BY <2>1, <2>2, <2>3, Zenon
<1> QED BY <1>4, <1>5, <1>6

\* A sequence from its end.
LEMMA Reversed ==
  ASSUME NEW V, NEW q \in Seq(V)
  PROVE  /\ Reverse(q) \in Seq(V)
         /\ Len(Reverse(q)) = Len(q)
         /\ \A i \in 1 .. Len(q) : Reverse(q)[i] = q[Len(q) - i + 1]
BY DEF Reverse

-----------------------------------------------------------------------------
(***************************************************************************)
(* The match table.                                                        *)
(***************************************************************************)

Offers  == [id : Nat, price : Nat, qty : Nat \ {0}]
Entries == [price : Nat, supply : Nat, demand : Nat]
Wants   == [price : Nat, qty : Nat \ {0}]

\* A book with orders, lowest price first.
IsBook(q) ==
    /\ q \in Seq(Offers)
    /\ Len(q) > 0
    /\ \A i, j \in 1 .. Len(q) : i < j => q[i].price <= q[j].price

\* The asks, aggregated: what is offered grows with the price.
IsAskTable(t, low, high) ==
    /\ t \in Seq(Entries)
    /\ Len(t) > 0
    /\ \A i, j \in 1 .. Len(t) : i < j => t[i].price < t[j].price /\ t[i].supply < t[j].supply
    /\ \A i \in 1 .. Len(t) : t[i].supply > 0 /\ t[i].demand = 0
    /\ t[1].price = low
    /\ t[Len(t)].price = high

AskStep(p, table, ask) == AddAsk(table, ask)
Asking == INSTANCE Folding WITH op <- AskStep

\* The ask table is a fold of AddAsk.
LEMMA AskTableIsFold ==
  ASSUME NEW asks
  PROVE  AskTable(asks) = Asking!Fold(0, <<>>, asks)
BY DEF AskTable, AskStep, FoldLeft, MapThenFoldSet, Max, Asking!Fold, Asking!Folds, Asking!Greatest

\* The table of one ask.
LEMMA FirstAsk ==
  ASSUME NEW ask \in Offers
  PROVE  IsAskTable(AddAsk(<<>>, ask), ask.price, ask.price)
<1>1. AddAsk(<<>>, ask) = <<[price |-> ask.price, supply |-> ask.qty, demand |-> 0]>>
  BY DEF AddAsk, Offers
<1>2. [price |-> ask.price, supply |-> ask.qty, demand |-> 0] \in Entries /\ ask.qty > 0
  BY DEF Entries, Offers
<1> DEFINE e == [price |-> ask.price, supply |-> ask.qty, demand |-> 0]
<1>3. e.price = ask.price /\ e.supply = ask.qty /\ e.demand = 0
  OBVIOUS
<1> HIDE DEF e
<1>4. <<e>> \in Seq(Entries) /\ Len(<<e>>) = 1 /\ <<e>>[1] = e
  BY <1>2 DEF e
<1>5. IsAskTable(<<e>>, ask.price, ask.price)
  BY <1>2, <1>3, <1>4 DEF IsAskTable
<1> QED BY <1>1, <1>5 DEF e

\* The next ask, which is no cheaper, keeps it a table.
LEMMA NextAsk ==
  ASSUME NEW t, NEW low, NEW high, IsAskTable(t, low, high),
         NEW ask \in Offers, high <= ask.price
  PROVE  IsAskTable(AddAsk(t, ask), low, ask.price)
<1> DEFINE n == Len(t)
<1>1. n \in Nat \ {0} /\ t \in Seq(Entries) /\ t # <<>> /\ Last(t) = t[n] /\ t[n] \in Entries
  BY DEF IsAskTable, Last
<1>2. CASE t[n].price = ask.price
  <2> DEFINE s == t[n].supply + ask.qty
             e == [t[n] EXCEPT !.supply = s]
             u == [t EXCEPT ![n] = e]
  <2>1. AddAsk(t, ask) = u
    BY <1>1, <1>2 DEF AddAsk
  <2>2. s \in Nat /\ s > t[n].supply
    BY <1>1 DEF Entries, Offers
  <2>3. e \in Entries /\ e.price = t[n].price /\ e.supply = s /\ e.demand = t[n].demand
    BY <1>1, <2>2, Zenon DEF Entries
  <2> HIDE DEF e, s
  <2>4. u \in Seq(Entries) /\ Len(u) = n /\ \A i \in 1 .. n : u[i] = IF i = n THEN e ELSE t[i]
    BY <1>1, <2>3
  <2>5. \A i \in 1 .. n : /\ t[i] \in Entries
                           /\ t[i].price \in Nat /\ t[i].supply \in Nat
                           /\ t[i].supply > 0 /\ t[i].demand = 0
    <3>1. \A i \in 1 .. n : t[i] \in Entries
      BY <1>1
    <3> QED BY <3>1, Zenon DEF IsAskTable, Entries
  <2>6. \A i \in 1 .. n - 1 : t[i].supply < t[n].supply /\ t[i].price < t[n].price
    BY <1>1 DEF IsAskTable
  <2> HIDE DEF u, n
  <2>7. \A i, j \in 1 .. n : i < j => u[i].price < u[j].price /\ u[i].supply < u[j].supply
    <3> SUFFICES ASSUME NEW i \in 1 .. n, NEW j \in 1 .. n, i < j
                 PROVE  u[i].price < u[j].price /\ u[i].supply < u[j].supply
      OBVIOUS
    <3>1. u[i] = t[i] /\ t[i] \in Entries
      BY <1>1, <2>4, <2>5
    <3>2. CASE j = n
      <4>1. i \in 1 .. n - 1
        BY <1>1, <3>2
      <4>2. t[i].supply < s
        <5>1. t[i].supply < t[n].supply
          BY <2>6, <4>1
        <5>2. t[i].supply \in Nat /\ t[n].supply \in Nat
          BY <1>1, <2>5
        <5> QED BY <2>2, <5>1, <5>2
      <4>3. u[j] = e /\ t[i].price < t[n].price
        BY <1>1, <2>4, <2>6, <3>2, <4>1
      <4> QED BY <2>3, <3>1, <4>2, <4>3
    <3>3. CASE j # n
      <4>1. u[j] = t[j]
        BY <2>4, <3>3
      <4>2. t[i].price < t[j].price /\ t[i].supply < t[j].supply
        BY DEF IsAskTable, n
      <4> QED BY <3>1, <4>1, <4>2
    <3> QED BY <3>2, <3>3
  <2>8. \A i \in 1 .. n : u[i].supply > 0 /\ u[i].demand = 0
    BY <1>1, <2>2, <2>3, <2>4, <2>5, SMTT(30)
  <2>9. u[1].price = low /\ u[n].price = ask.price
    BY <1>1, <1>2, <2>3, <2>4 DEF IsAskTable, n
  <2> QED BY <1>1, <2>1, <2>4, <2>7, <2>8, <2>9 DEF IsAskTable
<1>3. CASE t[n].price # ask.price
  <2> DEFINE s == ask.qty + t[n].supply
             e == [price |-> ask.price, supply |-> s, demand |-> 0]
             u == Append(t, e)
  <2>1. AddAsk(t, ask) = u
    BY <1>1, <1>3 DEF AddAsk
  <2>2. s \in Nat /\ s > t[n].supply /\ t[n].supply > 0
    BY <1>1, SMTT(30) DEF Entries, Offers, IsAskTable
  <2>3. e \in Entries /\ e.price = ask.price /\ e.supply = s /\ e.demand = 0
    BY <1>1, <2>2, Zenon DEF Entries, Offers
  <2> HIDE DEF e, s
  <2>4. u \in Seq(Entries) /\ Len(u) = n + 1 /\ \A i \in 1 .. n + 1 : u[i] = IF i = n + 1 THEN e ELSE t[i]
    BY <1>1, <2>3
  <2>5. \A i \in 1 .. n : /\ t[i] \in Entries
                           /\ t[i].price \in Nat /\ t[i].supply \in Nat
                           /\ t[i].supply > 0 /\ t[i].demand = 0
    <3>1. \A i \in 1 .. n : t[i] \in Entries
      BY <1>1
    <3> QED BY <3>1, Zenon DEF IsAskTable, Entries
  <2>6. t[n].price < ask.price /\ ask.price \in Nat
    BY <1>1, <1>3 DEF IsAskTable, Entries, Offers
  <2>7. \A i \in 1 .. n : t[i].supply < s /\ t[i].price < ask.price
    <3> SUFFICES ASSUME NEW i \in 1 .. n
                 PROVE  t[i].supply < s /\ t[i].price < ask.price
      OBVIOUS
    <3>1. i = n \/ (t[i].price < t[n].price /\ t[i].supply < t[n].supply)
      BY <1>1 DEF IsAskTable
    <3> QED BY <1>1, <2>2, <2>5, <2>6, <3>1, SMTT(30) DEF Entries
  <2> HIDE DEF u, n
  <2>8. \A i, j \in 1 .. n + 1 : i < j => u[i].price < u[j].price /\ u[i].supply < u[j].supply
    <3> SUFFICES ASSUME NEW i \in 1 .. n + 1, NEW j \in 1 .. n + 1, i < j
                 PROVE  u[i].price < u[j].price /\ u[i].supply < u[j].supply
      OBVIOUS
    <3>1. i \in 1 .. n /\ u[i] = t[i]
      BY <1>1, <2>4
    <3>2. CASE j = n + 1
      BY <1>1, <2>3, <2>4, <2>7, <3>1, <3>2
    <3>3. CASE j # n + 1
      <4>1. j \in 1 .. n /\ u[j] = t[j]
        BY <1>1, <2>4, <3>3
      <4> QED BY <3>1, <4>1 DEF IsAskTable, n
    <3> QED BY <3>2, <3>3
  <2>9. \A i \in 1 .. n + 1 : u[i].supply > 0 /\ u[i].demand = 0
    BY <1>1, <2>2, <2>3, <2>4, <2>5
  <2>10. u[1].price = low /\ u[n + 1].price = ask.price
    BY <1>1, <2>3, <2>4 DEF IsAskTable, n
  <2>11. n + 1 > 0
    BY <1>1
  <2> QED BY <1>1, <2>1, <2>4, <2>8, <2>9, <2>10, <2>11 DEF IsAskTable
<1> QED BY <1>2, <1>3

\* The asks of a book make an ask table.
LEMMA AskTableIs ==
  ASSUME NEW asks, IsBook(asks)
  PROVE  IsAskTable(AskTable(asks), asks[1].price, asks[Len(asks)].price)
<1> DEFINE n == Len(asks)
<1>1. n \in Nat \ {0} /\ DOMAIN asks = 1 .. n /\ \A i \in 1 .. n : asks[i] \in Offers
  BY DEF IsBook
<1>0. IsBook(asks) /\ Len(asks) = n
  OBVIOUS
<1> HIDE DEF n
<1>2. PICK r : /\ r[0] = <<>>
               /\ \A i \in 1 .. n : r[i] = AddAsk(r[i - 1], asks[i])
               /\ r[n] = AskTable(asks)
  <2>1. PICK r : Asking!Runs(r, 0, <<>>, asks, n)
    BY <1>1, Asking!FoldRuns, Zenon
  <2> QED BY <2>1, AskTableIsFold DEF Asking!Runs, AskStep
<1> DEFINE T == {i \in 0 .. n : i > 0 => IsAskTable(r[i], asks[1].price, asks[i].price)}
<1>3. 0 \in T
  BY <1>1
<1>4. ASSUME NEW i \in 0 .. n - 1, i \in T PROVE i + 1 \in T
  <2>1. r[i + 1] = AddAsk(r[i], asks[i + 1]) /\ i + 1 \in 1 .. n /\ asks[i + 1] \in Offers
    <3>1. i + 1 \in 1 .. n
      BY <1>1
    <3>2. r[i + 1] = AddAsk(r[(i + 1) - 1], asks[i + 1])
      BY <1>2, <3>1
    <3>3. (i + 1) - 1 = i
      OBVIOUS
    <3> QED BY <1>1, <3>1, <3>2, <3>3
  <2>2. CASE i = 0
    BY <1>2, <2>1, <2>2, FirstAsk
  <2>3. CASE i # 0
    <3>1. IsAskTable(r[i], asks[1].price, asks[i].price)
      BY <1>4, <2>3
    <3>2. asks[i].price <= asks[i + 1].price
      BY <1>0, <1>1, <2>1, <2>3 DEF IsBook
    <3>3. IsAskTable(r[i + 1], asks[1].price, asks[i + 1].price)
      BY <2>1, <3>1, <3>2, NextAsk
    <3> QED BY <2>1, <3>3
  <2> QED BY <2>2, <2>3
<1>5. n \in T
  <2> HIDE DEF T
  <2>1. 0 .. n \subseteq T
    BY <1>1, <1>3, <1>4, UpToEnd
  <2> QED BY <1>1, <2>1
<1> QED BY <1>0, <1>1, <1>2, <1>5

\* The bids, aggregated from the highest down: less is wanted at a higher
\* price.
IsAggregates(g, low, high) ==
    /\ g \in Seq(Wants)
    /\ Len(g) > 0
    /\ \A i, j \in 1 .. Len(g) : i < j => g[i].price < g[j].price /\ g[j].qty < g[i].qty
    /\ g[1].price = low
    /\ g[Len(g)].price = high

BidStep(p, aggs, bid) == AddBid(aggs, bid)
Bidding == INSTANCE Folding WITH op <- BidStep

\* The bid aggregates are a fold of AddBid.
LEMMA BidAggregatesIsFold ==
  ASSUME NEW bids
  PROVE  BidAggregates(bids) = Bidding!Fold(0, <<>>, Reverse(bids))
BY DEF BidAggregates, BidStep, FoldLeft, MapThenFoldSet, Max,
       Bidding!Fold, Bidding!Folds, Bidding!Greatest

\* An entry put in front.
LEMMA InFront ==
  ASSUME NEW V, NEW e \in V, NEW q \in Seq(V)
  PROVE  /\ Cons(e, q) \in Seq(V)
         /\ Len(Cons(e, q)) = Len(q) + 1
         /\ \A i \in 1 .. Len(q) + 1 : Cons(e, q)[i] = IF i = 1 THEN e ELSE q[i - 1]
<1>1. <<e>> \in Seq(V) /\ Len(<<e>>) = 1 /\ <<e>>[1] = e
  OBVIOUS
<1>2. /\ <<e>> \o q \in Seq(V)
      /\ Len(<<e>> \o q) = Len(<<e>>) + Len(q)
      /\ \A i \in 1 .. Len(<<e>>) + Len(q) :
           (<<e>> \o q)[i] = IF i <= Len(<<e>>) THEN <<e>>[i] ELSE q[i - Len(<<e>>)]
  BY <1>1, Joined
<1>3. Len(q) \in Nat
  OBVIOUS
<1> QED BY <1>1, <1>2, <1>3 DEF Cons

\* The aggregates of one bid.
LEMMA FirstBid ==
  ASSUME NEW bid \in Offers
  PROVE  IsAggregates(AddBid(<<>>, bid), bid.price, bid.price)
<1> DEFINE e == [price |-> bid.price, qty |-> bid.qty + 0]
<1>1. AddBid(<<>>, bid) = <<e>>
  <2>1. AddBid(<<>>, bid) = <<e>> \o <<>>
    BY DEF AddBid, Cons
  <2> HIDE DEF e
  <2> QED BY <2>1
<1>2. e \in Wants /\ e.price = bid.price
  BY DEF Offers, Wants
<1> HIDE DEF e
<1>3. <<e>> \in Seq(Wants) /\ Len(<<e>>) = 1 /\ <<e>>[1] = e
  BY <1>2
<1>4. IsAggregates(<<e>>, bid.price, bid.price)
  BY <1>2, <1>3 DEF IsAggregates
<1> QED BY <1>1, <1>4

\* The next bid, which offers no more, keeps them aggregates.
LEMMA NextBid ==
  ASSUME NEW g, NEW low, NEW high, IsAggregates(g, low, high),
         NEW bid \in Offers, bid.price <= low
  PROVE  IsAggregates(AddBid(g, bid), bid.price, high)
<1> DEFINE n == Len(g)
<1>1. n \in Nat \ {0} /\ g \in Seq(Wants) /\ g # <<>> /\ Head(g) = g[1] /\ g[1] \in Wants
  BY DEF IsAggregates
<1>2. \A i \in 1 .. n : g[i] \in Wants /\ g[i].price \in Nat /\ g[i].qty \in Nat \ {0}
  <2>1. \A i \in 1 .. n : g[i] \in Wants
    BY <1>1
  <2> QED BY <2>1 DEF Wants
<1>3. bid.price \in Nat /\ bid.qty \in Nat \ {0}
  BY DEF Offers
<1>4. \A i \in 2 .. n : g[1].price < g[i].price /\ g[i].qty < g[1].qty
  BY <1>1 DEF IsAggregates
<1>5. CASE g[1].price = bid.price
  <2> DEFINE s == g[1].qty + bid.qty
             e == [g[1] EXCEPT !.qty = s]
             u == [g EXCEPT ![1] = e]
  <2>1. AddBid(g, bid) = u
    BY <1>1, <1>5 DEF AddBid
  <2>2. s \in Nat \ {0} /\ s > g[1].qty
    BY <1>1, <1>2, <1>3
  <2>3. e \in Wants /\ e.price = g[1].price /\ e.qty = s
    BY <1>1, <2>2, Zenon DEF Wants
  <2> HIDE DEF e, s
  <2>4. u \in Seq(Wants) /\ Len(u) = n /\ \A i \in 1 .. n : u[i] = IF i = 1 THEN e ELSE g[i]
    BY <1>1, <2>3
  <2> HIDE DEF u, n
  <2>5. \A i, j \in 1 .. n : i < j => u[i].price < u[j].price /\ u[j].qty < u[i].qty
    <3> SUFFICES ASSUME NEW i \in 1 .. n, NEW j \in 1 .. n, i < j
                 PROVE  u[i].price < u[j].price /\ u[j].qty < u[i].qty
      OBVIOUS
    <3>1. j \in 2 .. n /\ u[j] = g[j]
      BY <1>1, <2>4
    <3>2. CASE i = 1
      BY <1>1, <1>2, <1>4, <2>2, <2>3, <2>4, <3>1, <3>2
    <3>3. CASE i # 1
      BY <2>4, <3>1, <3>3 DEF IsAggregates, n
    <3> QED BY <3>2, <3>3
  <2>6. u[1].price = bid.price
    BY <1>1, <1>5, <2>3, <2>4
  <2>7. u[n].price = high
    BY <1>1, <2>3, <2>4 DEF IsAggregates, n
  <2> QED BY <1>1, <2>1, <2>4, <2>5, <2>6, <2>7 DEF IsAggregates
<1>6. CASE g[1].price # bid.price
  <2> DEFINE s == bid.qty + g[1].qty
             e == [price |-> bid.price, qty |-> s]
             u == Cons(e, g)
  <2>1. AddBid(g, bid) = u
    BY <1>1, <1>6 DEF AddBid
  <2>2. s \in Nat \ {0} /\ s > g[1].qty
    BY <1>1, <1>2, <1>3
  <2>3. e \in Wants /\ e.price = bid.price /\ e.qty = s
    BY <1>3, <2>2 DEF Wants
  <2> HIDE DEF e, s
  <2>4. u \in Seq(Wants) /\ Len(u) = n + 1 /\ \A i \in 1 .. n + 1 : u[i] = IF i = 1 THEN e ELSE g[i - 1]
    BY <1>1, <2>3, InFront
  <2>5. bid.price < g[1].price
    BY <1>1, <1>2, <1>3, <1>6 DEF IsAggregates
  <2>6. \A i \in 1 .. n : bid.price < g[i].price /\ g[i].qty < s
    <3> SUFFICES ASSUME NEW i \in 1 .. n
                 PROVE  bid.price < g[i].price /\ g[i].qty < s
      OBVIOUS
    <3>1. 1 \in 1 .. n
      BY <1>1
    <3>2. i = 1 \/ i \in 2 .. n
      BY <1>1
    <3> QED BY <1>2, <1>3, <1>4, <2>2, <2>5, <3>1, <3>2
  <2> HIDE DEF u, n
  <2>7. \A i, j \in 1 .. n + 1 : i < j => u[i].price < u[j].price /\ u[j].qty < u[i].qty
    <3> SUFFICES ASSUME NEW i \in 1 .. n + 1, NEW j \in 1 .. n + 1, i < j
                 PROVE  u[i].price < u[j].price /\ u[j].qty < u[i].qty
      OBVIOUS
    <3>1. j - 1 \in 1 .. n /\ u[j] = g[j - 1]
      BY <1>1, <2>4
    <3>2. CASE i = 1
      BY <2>3, <2>4, <2>6, <3>1, <3>2
    <3>3. CASE i # 1
      <4>1. i - 1 \in 1 .. n /\ u[i] = g[i - 1] /\ i - 1 < j - 1
        BY <1>1, <2>4, <3>3
      <4> QED BY <3>1, <4>1 DEF IsAggregates, n
    <3> QED BY <3>2, <3>3
  <2>8. u[1].price = bid.price
    BY <1>1, <2>3, <2>4
  <2>9. u[n + 1].price = high
    BY <1>1, <2>4 DEF IsAggregates, n
  <2>10. n + 1 > 0
    BY <1>1
  <2> QED BY <1>1, <2>1, <2>4, <2>7, <2>8, <2>9, <2>10 DEF IsAggregates
<1> QED BY <1>5, <1>6

\* The bids of a book make bid aggregates.
LEMMA BidAggregatesAre ==
  ASSUME NEW bids, IsBook(bids)
  PROVE  IsAggregates(BidAggregates(bids), bids[1].price, bids[Len(bids)].price)
<1> DEFINE n == Len(bids)
           b == Reverse(bids)
<1>1. n \in Nat \ {0} /\ bids \in Seq(Offers)
  BY DEF IsBook
<1>2. DOMAIN b = 1 .. n /\ \A i \in 1 .. n : b[i] = bids[n - i + 1] /\ b[i] \in Offers
  <2>1. /\ b \in Seq(Offers) /\ Len(b) = n
        /\ \A i \in 1 .. n : b[i] = bids[n - i + 1]
    BY <1>1, Reversed
  <2> HIDE DEF b
  <2> QED BY <2>1
<1>3. \A i \in 1 .. n - 1 : b[i + 1].price <= b[i].price
  <2> SUFFICES ASSUME NEW i \in 1 .. n - 1 PROVE b[i + 1].price <= b[i].price
    OBVIOUS
  <2>1. i \in 1 .. n /\ i + 1 \in 1 .. n
    BY <1>1
  <2>2. b[i] = bids[n - i + 1] /\ b[i + 1] = bids[n - (i + 1) + 1]
    BY <1>2, <2>1
  <2>3. n - (i + 1) + 1 < n - i + 1 /\ n - (i + 1) + 1 \in 1 .. n /\ n - i + 1 \in 1 .. n
    BY <1>1, <2>1
  <2> QED BY <2>2, <2>3 DEF IsBook
<1>0. IsBook(bids) /\ Len(bids) = n /\ b[1] = bids[n] /\ b[n] = bids[1]
  BY <1>1, <1>2
<1>4. BidAggregates(bids) = Bidding!Fold(0, <<>>, b)
  BY BidAggregatesIsFold
<1> HIDE DEF n, b
<1>5. PICK r : /\ r[0] = <<>>
               /\ \A i \in 1 .. n : r[i] = AddBid(r[i - 1], b[i])
               /\ r[n] = BidAggregates(bids)
  <2>1. PICK r : Bidding!Runs(r, 0, <<>>, b, n)
    BY <1>1, <1>2, Bidding!FoldRuns, Zenon
  <2> QED BY <1>4, <2>1 DEF Bidding!Runs, BidStep
<1> DEFINE T == {i \in 0 .. n : i > 0 => IsAggregates(r[i], b[i].price, b[1].price)}
<1>6. 0 \in T
  BY <1>1
<1>7. ASSUME NEW i \in 0 .. n - 1, i \in T PROVE i + 1 \in T
  <2>1. r[i + 1] = AddBid(r[i], b[i + 1]) /\ i + 1 \in 1 .. n /\ b[i + 1] \in Offers
    <3>1. i + 1 \in 1 .. n
      BY <1>1
    <3>2. r[i + 1] = AddBid(r[(i + 1) - 1], b[i + 1])
      BY <1>5, <3>1
    <3>3. (i + 1) - 1 = i
      OBVIOUS
    <3> QED BY <1>2, <3>1, <3>2, <3>3
  <2>2. CASE i = 0
    BY <1>5, <2>1, <2>2, FirstBid
  <2>3. CASE i # 0
    <3>1. IsAggregates(r[i], b[i].price, b[1].price)
      BY <1>7, <2>3
    <3>2. b[i + 1].price <= b[i].price
      BY <1>1, <1>3, <2>3
    <3>3. IsAggregates(r[i + 1], b[i + 1].price, b[1].price)
      BY <2>1, <3>1, <3>2, NextBid
    <3> QED BY <2>1, <3>3
  <2> QED BY <2>2, <2>3
<1>8. n \in T
  <2> HIDE DEF T
  <2>1. 0 .. n \subseteq T
    BY <1>1, <1>6, <1>7, UpToEnd, Zenon
  <2> QED BY <1>1, <2>1
<1> QED BY <1>0, <1>1, <1>5, <1>8

\* A table in which the bids of up to `price` are merged, of which qty is
\* wanted at that price or more; low is the price of the best ask.
IsMerged(t, next, low, price, qty) ==
    /\ t \in Seq(Entries)
    /\ Len(t) > 0
    /\ next \in 1 .. Len(t) + 1
    /\ \A i, j \in 1 .. Len(t) : i < j =>
         /\ t[i].price < t[j].price
         /\ t[i].supply <= t[j].supply
         /\ t[j].demand <= t[i].demand
    /\ \A i \in 1 .. Len(t) : i < next => t[i].price <= price /\ qty <= t[i].demand
    /\ \A i \in 1 .. Len(t) : next <= i => t[i].demand = 0
    /\ next > 1 => t[next - 1].price = price
    /\ \A i \in 1 .. Len(t) : t[i].demand > 0 \/ t[i].supply > 0
    /\ \A i \in 2 .. Len(t) : t[i].demand > 0 \/ t[i - 1].supply < t[i].supply
    /\ \E i \in 1 .. Len(t) : t[i].price = low /\ t[i].supply > 0

\* Place finds the first entry that is not below the aggregate.
LEMMA PlaceIs ==
  ASSUME NEW t \in Seq(Entries), NEW agg \in Wants
  PROVE  /\ Place(t, agg) \in 1 .. Len(t) + 1
         /\ \A i \in 1 .. Len(t) : i < Place(t, agg) => t[i].price < agg.price
         /\ Place(t, agg) <= Len(t) => agg.price <= t[Place(t, agg)].price
<1> DEFINE n == Len(t)
           I == {i \in 1 .. n : t[i].price >= agg.price}
<1>1. n \in Nat /\ agg.price \in Nat /\ \A i \in 1 .. n : t[i].price \in Nat
  <2>1. n \in Nat /\ \A i \in 1 .. n : t[i] \in Entries
    OBVIOUS
  <2> QED BY <2>1, Zenon DEF Entries, Wants
<1>2. Place(t, agg) = IF I # {} THEN Min(I) ELSE n + 1
  <2>1. SelectInSeq(t, LAMBDA e : e.price >= agg.price) = IF I # {} THEN Min(I) ELSE 0
    BY DEF SelectInSeq
  <2>2. I # {} => Min(I) # 0
    <3>1. I \in SUBSET Nat /\ 0 \notin I
      OBVIOUS
    <3> HIDE DEF I
    <3> QED BY <3>1, MinIs
  <2> HIDE DEF I, n
  <2> QED BY <2>1, <2>2 DEF Place, n
<1>3. CASE I = {}
  BY <1>1, <1>2, <1>3
<1>4. CASE I # {}
  <2>1. Min(I) \in I /\ \A i \in I : Min(I) <= i
    <3>1. I \in SUBSET Nat
      OBVIOUS
    <3> HIDE DEF I
    <3> QED BY <1>4, <3>1, MinIs
  <2> DEFINE k == Min(I)
  <2>2. k \in 1 .. n /\ t[k].price >= agg.price /\ \A i \in 1 .. n : t[i].price >= agg.price => k <= i
    BY <2>1
  <2>3. Place(t, agg) = k
    BY <1>2, <1>4
  <2> HIDE DEF k, I
  <2> QED BY <1>1, <2>2, <2>3
<1> QED BY <1>3, <1>4

\* The demand after agg was merged at j.
MergedDemand(t, next, agg, j, i) ==
    IF i < next THEN t[i].demand ELSE IF i <= j THEN agg.qty ELSE 0

\* w is the table t with agg at j, whether its price was there or not.
LEMMA MergedAt ==
  ASSUME NEW t, NEW next, NEW low, NEW price \in Int, NEW qty \in Int,
         IsMerged(t, next, low, price, qty),
         NEW agg \in Wants, price < agg.price, agg.qty < qty,
         NEW w \in Seq(Entries), NEW j \in 1 .. Len(w), next <= j, Len(t) <= Len(w),
         \A i \in 1 .. Len(w) : w[i].demand = MergedDemand(t, next, agg, j, i),
         \A i \in 1 .. Len(w) : i < next => w[i].price = t[i].price,
         w[j].price = agg.price,
         \A i, k \in 1 .. Len(w) : i < k => w[i].price < w[k].price /\ w[i].supply <= w[k].supply,
         \A i \in 1 .. Len(w) : j < i => w[i].supply > 0,
         \A i \in 2 .. Len(w) : j < i => w[i - 1].supply < w[i].supply,
         \E i \in 1 .. Len(w) : w[i].price = low /\ w[i].supply > 0
  PROVE  IsMerged(w, j + 1, low, agg.price, agg.qty)
<1> DEFINE n == Len(w)
<1>1. /\ n \in Nat /\ j \in 1 .. n /\ next \in Nat /\ agg.qty \in Nat /\ agg.qty > 0
      /\ agg.price \in Nat /\ Len(t) \in Nat /\ next <= Len(t) + 1
  BY SMTT(30) DEF IsMerged, Wants
<1>2. \A i \in 1 .. n : /\ w[i].price \in Nat /\ w[i].supply \in Nat /\ w[i].demand \in Nat
  <2>1. \A i \in 1 .. n : w[i] \in Entries
    OBVIOUS
  <2> QED BY <2>1, Zenon DEF Entries
<1>3. ASSUME NEW i \in 1 .. n, i < next
      PROVE  i \in 1 .. Len(t) /\ t[i].demand \in Nat /\ qty <= t[i].demand
  <2>1. i \in 1 .. Len(t)
    BY <1>1, <1>3
  <2>2. t[i] \in Entries /\ qty <= t[i].demand
    BY <1>3, <2>1 DEF IsMerged
  <2> QED BY <2>1, <2>2, Zenon DEF Entries
<1>4. ASSUME NEW i \in 1 .. n
      PROVE  /\ i <= j => agg.qty <= w[i].demand
             /\ j < i => w[i].demand = 0
  <2>0. i \in Int /\ w[i].demand = MergedDemand(t, next, agg, j, i)
    OBVIOUS
  <2>1. CASE i < next
    <3>1. w[i].demand = t[i].demand /\ qty <= t[i].demand /\ t[i].demand \in Nat
      BY <1>3, <2>0, <2>1 DEF MergedDemand
    <3> QED BY <1>1, <2>0, <2>1, <3>1, SMTT(30)
  <2>2. CASE next <= i /\ i <= j
    BY <1>1, <2>0, <2>2 DEF MergedDemand
  <2>3. CASE next <= i /\ j < i
    BY <1>1, <2>0, <2>3 DEF MergedDemand
  <2> QED BY <1>1, <2>0, <2>1, <2>2, <2>3
<1>5. \A i, k \in 1 .. n : i < k => w[k].demand <= w[i].demand
  <2> SUFFICES ASSUME NEW i \in 1 .. n, NEW k \in 1 .. n, i < k
               PROVE  w[k].demand <= w[i].demand
    BY Zenon
  <2>1. CASE k < next
    <3>1. w[k].demand = t[k].demand /\ w[i].demand = t[i].demand
      BY <1>1, <2>1, SMTT(30) DEF MergedDemand
    <3>2. i \in 1 .. Len(t) /\ k \in 1 .. Len(t)
      BY <1>1, <1>3, <2>1
    <3> QED BY <3>1, <3>2 DEF IsMerged
  <2>2. CASE next <= k /\ k <= j
    <3>1. w[k].demand = agg.qty
      BY <1>1, <2>2 DEF MergedDemand
    <3>2. agg.qty <= w[i].demand
      BY <1>1, <1>4, <2>2
    <3> QED BY <3>1, <3>2
  <2>3. CASE j < k
    BY <1>2, <1>4, <2>3, SMTT(30)
  <2> QED BY <1>1, <2>1, <2>2, <2>3
<1>6. \A i \in 1 .. n : i < j + 1 => w[i].price <= agg.price
  <2> SUFFICES ASSUME NEW i \in 1 .. n, i < j + 1 PROVE w[i].price <= agg.price
    OBVIOUS
  <2>1. i = j \/ i < j
    BY <1>1
  <2>2. i < j => w[i].price < w[j].price
    OBVIOUS
  <2> QED BY <1>1, <1>2, <2>1, <2>2, SMTT(30)
<1>7. \A i \in 1 .. n : w[i].demand > 0 \/ w[i].supply > 0
  BY <1>1, <1>2, <1>4, SMTT(30)
<1>8. \A i \in 2 .. n : w[i].demand > 0 \/ w[i - 1].supply < w[i].supply
  <2> SUFFICES ASSUME NEW i \in 2 .. n, ~ (w[i].demand > 0)
               PROVE  w[i - 1].supply < w[i].supply
    BY Zenon
  <2>1. i \in 1 .. n
    BY <1>1
  <2>2. ~ (i <= j)
    BY <1>1, <1>2, <1>4, <2>1
  <2>3. j < i
    BY <1>1, <2>1, <2>2
  <2> QED BY <2>3
<1>9. \A i \in 1 .. n : i < j + 1 => agg.qty <= w[i].demand
  BY <1>1, <1>4
<1>10. \A i \in 1 .. n : j + 1 <= i => w[i].demand = 0
  BY <1>1, <1>4, SMTT(30)
<1>11. /\ n > 0 /\ j + 1 \in 1 .. n + 1 /\ w[(j + 1) - 1].price = agg.price
  <2>1. (j + 1) - 1 = j
    BY <1>1
  <2> QED BY <1>1, <2>1, SMTT(30)
<1> QED BY <1>5, <1>6, <1>7, <1>8, <1>9, <1>10, <1>11, Zenon DEF IsMerged
\* The table w has the prices and supplies of t.
SameAsks(w, t) ==
    /\ Len(w) = Len(t)
    /\ \A i \in 1 .. Len(t) : w[i].price = t[i].price /\ w[i].supply = t[i].supply

\* What is offered below the place j of the table t.
SupplyBelow(t, j) == IF j = 1 THEN 0 ELSE t[j - 1].supply

\* It has an entry more, at the place j.
OneMoreAt(w, t, j, price) ==
    /\ Len(w) = Len(t) + 1
    /\ \A i \in 1 .. Len(w) :
         /\ i < j => i \in 1 .. Len(t) /\ w[i].price = t[i].price /\ w[i].supply = t[i].supply
         /\ i = j => w[i].price = price /\ w[i].supply = SupplyBelow(t, j)
         /\ j < i => /\ i - 1 \in 1 .. Len(t)
                     /\ w[i].price = t[i - 1].price /\ w[i].supply = t[i - 1].supply

\* One round of the merge made w of t.
MergedInto(w, t, next, agg, j) ==
    /\ w \in Seq(Entries)
    /\ \A i \in 1 .. Len(w) : w[i].demand = MergedDemand(t, next, agg, j, i)
    /\ j <= Len(t) /\ t[j].price = agg.price => SameAsks(w, t)
    /\ ~ (j <= Len(t) /\ t[j].price = agg.price) => OneMoreAt(w, t, j, agg.price)

\* An aggregate is put into the table, and what is between wants it too.
LEMMA BidMergedInto ==
  ASSUME NEW m, NEW low, NEW price \in Int, NEW qty \in Int,
         IsMerged(m.table, m.next, low, price, qty),
         NEW agg \in Wants, price < agg.price, agg.qty < qty
  PROVE  LET r == MergeBid(m, agg)
             j == Place(m.table, agg)
         IN  MergedInto(r.table, m.table, m.next, agg, j) /\ r.next = j + 1 /\ m.next <= j
<1> DEFINE t == m.table
           next == m.next
           n == Len(t)
           j == Place(t, agg)
           u == Insert(t, agg)
           w == [i \in DOMAIN u |->
                   IF i \in next .. j - 1 THEN [u[i] EXCEPT !.demand = @ + agg.qty] ELSE u[i]]
<1>1. MergeBid(m, agg) = [table |-> w, next |-> j + 1]
  BY DEF MergeBid
<1>0. IsMerged(t, next, low, price, qty)
  OBVIOUS
<1> HIDE DEF t, next
<1>2. /\ t \in Seq(Entries) /\ n \in Nat \ {0} /\ next \in 1 .. n + 1 /\ next \in Nat
      /\ agg.price \in Nat /\ agg.qty \in Nat
  BY <1>0 DEF IsMerged, Wants
<1>3. \A i \in 1 .. n : /\ t[i] \in Entries
                        /\ t[i].price \in Nat /\ t[i].supply \in Nat /\ t[i].demand \in Nat
  <2>1. \A i \in 1 .. n : t[i] \in Entries
    BY <1>2
  <2> QED BY <2>1 DEF Entries
<1>4. /\ j \in 1 .. n + 1
      /\ \A i \in 1 .. n : i < j => t[i].price < agg.price
      /\ j <= n => agg.price <= t[j].price
  BY <1>2, PlaceIs
<1>5. \A i, k \in 1 .. n : i < k => t[i].price < t[k].price /\ t[i].supply <= t[k].supply
  BY <1>0, Zenon DEF IsMerged
<1>6. \A i \in 1 .. n : next <= i => t[i].demand = 0 /\ t[i].supply > 0
  <2> SUFFICES ASSUME NEW i \in 1 .. n, next <= i PROVE t[i].demand = 0 /\ t[i].supply > 0
    OBVIOUS
  <2>1. t[i].demand = 0 /\ (t[i].demand > 0 \/ t[i].supply > 0)
    BY <1>0 DEF IsMerged
  <2> QED BY <2>1
<1> HIDE DEF j
<1>9. next <= j
  <2> SUFFICES ASSUME j < next PROVE FALSE
    BY <1>2, <1>4
  <2>1. j \in 1 .. n
    BY <1>2, <1>4
  <2>2. t[j].price <= price
    BY <1>0, <2>1, Zenon DEF IsMerged
  <2> QED BY <1>2, <1>3, <1>4, <2>1, <2>2
<1>10. ASSUME j <= n /\ t[j].price = agg.price
      PROVE  MergedInto(w, t, next, agg, j)
  <2> DEFINE d == t[j].demand + agg.qty
             e == [t[j] EXCEPT !.demand = d]
             v == [t EXCEPT ![j] = e]
  <2>1. u = v
    BY <1>10 DEF Insert, j
  <2>2. j \in 1 .. n /\ t[j].demand = 0 /\ d = agg.qty /\ d \in Nat
    BY <1>2, <1>4, <1>6, <1>9, <1>10
  <2>3. e \in Entries /\ e.price = t[j].price /\ e.supply = t[j].supply /\ e.demand = agg.qty
    BY <1>3, <2>2, Zenon DEF Entries
  <2> HIDE DEF d, e
  <2>4. Len(v) = n /\ v \in Seq(Entries) /\ \A i \in 1 .. n : v[i] = IF i = j THEN e ELSE t[i]
    BY <1>2, <2>2, <2>3
  <2>5. DOMAIN u = 1 .. n
    BY <1>2, <2>1, <2>4
  <2> HIDE DEF u, v
  <2>6. ASSUME NEW i \in 1 .. n
        PROVE  /\ w[i] \in Entries
               /\ w[i].price = t[i].price /\ w[i].supply = t[i].supply
               /\ w[i].demand = MergedDemand(t, next, agg, j, i)
    <3>0. u[i] = (IF i = j THEN e ELSE t[i]) /\ i \in Int
      BY <2>1, <2>4
    <3>1. CASE i \in next .. j - 1
      <4>1. w[i] = [t[i] EXCEPT !.demand = @ + agg.qty]
        BY <2>5, <3>0, <3>1
      <4>2. t[i].demand = 0 /\ t[i].demand + agg.qty = agg.qty
        BY <1>2, <1>3, <1>6, <3>1
      <4>3. MergedDemand(t, next, agg, j, i) = agg.qty
        BY <1>2, <1>4, <3>1 DEF MergedDemand
      <4> HIDE DEF w
      <4> QED BY <1>2, <1>3, <4>1, <4>2, <4>3, Zenon DEF Entries
    <3>2. CASE i \notin next .. j - 1
      <4>1. w[i] = u[i]
        BY <2>5, <3>2
      <4> HIDE DEF w
      <4>2. CASE i = j
        <5>1. MergedDemand(t, next, agg, j, i) = agg.qty
          BY <1>2, <1>9, <2>2, <4>2 DEF MergedDemand
        <5> QED BY <2>3, <3>0, <4>1, <4>2, <5>1
      <4>3. CASE i < next
        <5>1. MergedDemand(t, next, agg, j, i) = t[i].demand /\ i # j
          BY <1>2, <1>9, <2>2, <4>3 DEF MergedDemand
        <5> QED BY <1>3, <3>0, <4>1, <5>1
      <4>4. CASE next <= i /\ i # j
        <5>1. ~ (i <= j) /\ ~ (i < next)
          BY <1>2, <2>2, <3>2, <4>4
        <5>2. MergedDemand(t, next, agg, j, i) = 0
          BY <5>1 DEF MergedDemand
        <5> QED BY <1>3, <1>6, <3>0, <4>1, <4>4, <5>2
      <4> QED BY <1>2, <2>2, <3>0, <4>2, <4>3, <4>4
    <3> QED BY <3>1, <3>2
  <2>7. w \in Seq(Entries) /\ Len(w) = n
    <3>1. w = [i \in 1 .. n |-> w[i]]
      BY <2>5
    <3> HIDE DEF w
    <3> QED BY <1>2, <2>6, <3>1
  <2> HIDE DEF w
  <2>8. SameAsks(w, t)
    BY <2>6, <2>7 DEF SameAsks
  <2>9. \A i \in 1 .. Len(w) : w[i].demand = MergedDemand(t, next, agg, j, i)
    BY <2>6, <2>7
  <2> QED BY <1>10, <2>7, <2>8, <2>9 DEF MergedInto
<1>11. ASSUME ~ (j <= n /\ t[j].price = agg.price)
      PROVE  MergedInto(w, t, next, agg, j)
  <2> DEFINE carry == IF j = 1 THEN 0 ELSE t[j - 1].supply
             e == [price |-> agg.price, supply |-> carry, demand |-> agg.qty]
  <2>1. u = InsertAt(t, j, e)
    BY <1>11 DEF Insert, j
  <2>2. carry \in Nat /\ e \in Entries
    <3>1. j # 1 => j - 1 \in 1 .. n
      BY <1>2, <1>4
    <3>2. carry \in Nat
      BY <1>3, <3>1
    <3> QED BY <1>2, <3>2 DEF Entries
  <2>3. e.price = agg.price /\ e.supply = carry /\ e.demand = agg.qty
    OBVIOUS
  <2> HIDE DEF e, carry
  <2>4. /\ u \in Seq(Entries) /\ Len(u) = n + 1
        /\ \A i \in 1 .. n + 1 : u[i] = IF i < j THEN t[i] ELSE IF i = j THEN e ELSE t[i - 1]
    <3> HIDE DEF u, w
    <3>1. t \in Seq(Entries) /\ e \in Entries /\ j \in 1 .. Len(t) + 1
      BY <1>2, <1>4, <2>2
    <3>2. /\ InsertAt(t, j, e) \in Seq(Entries)
          /\ Len(InsertAt(t, j, e)) = Len(t) + 1
          /\ \A i \in 1 .. Len(t) + 1 :
               InsertAt(t, j, e)[i] = IF i < j THEN t[i] ELSE IF i = j THEN e ELSE t[i - 1]
      BY <3>1, Inserted
    <3> QED BY <2>1, <3>2
  <2> HIDE DEF u
  <2>5. DOMAIN u = 1 .. n + 1
    BY <1>2, <2>4
  <2>6. ASSUME NEW i \in 1 .. n + 1
        PROVE  /\ w[i] \in Entries
               /\ w[i].demand = MergedDemand(t, next, agg, j, i)
               /\ i < j => i \in 1 .. n /\ w[i].price = t[i].price /\ w[i].supply = t[i].supply
               /\ i = j => w[i].price = agg.price /\ w[i].supply = carry
               /\ j < i => /\ i - 1 \in 1 .. n
                           /\ w[i].price = t[i - 1].price /\ w[i].supply = t[i - 1].supply
    <3>0. u[i] = (IF i < j THEN t[i] ELSE IF i = j THEN e ELSE t[i - 1]) /\ i \in Int
      BY <2>4
    <3>1. CASE i \in next .. j - 1
      <4>1. w[i] = [t[i] EXCEPT !.demand = @ + agg.qty] /\ i \in 1 .. n /\ i < j
        BY <1>2, <1>4, <2>5, <3>0, <3>1
      <4>2. t[i].demand = 0 /\ t[i].demand + agg.qty = agg.qty
        BY <1>2, <1>3, <1>6, <3>1, <4>1
      <4>3. MergedDemand(t, next, agg, j, i) = agg.qty
        BY <1>2, <1>4, <3>1 DEF MergedDemand
      <4> HIDE DEF w
      <4>4. /\ w[i] \in Entries /\ w[i].demand = agg.qty
            /\ w[i].price = t[i].price /\ w[i].supply = t[i].supply
        BY <1>2, <1>3, <4>1, <4>2, Zenon DEF Entries
      <4>5. ~ (i = j) /\ ~ (j < i)
        BY <1>2, <1>4, <4>1
      <4> QED BY <4>1, <4>3, <4>4, <4>5
    <3>2. CASE i \notin next .. j - 1
      <4>1. w[i] = u[i]
        BY <2>5, <3>2
      <4> HIDE DEF w
      <4>2. CASE i = j
        <5>1. MergedDemand(t, next, agg, j, i) = agg.qty /\ ~ (i < j) /\ ~ (j < i)
          BY <1>2, <1>4, <1>9, <4>2 DEF MergedDemand
        <5> QED BY <2>2, <2>3, <3>0, <4>1, <4>2, <5>1
      <4>3. CASE i < next
        <5>1. /\ MergedDemand(t, next, agg, j, i) = t[i].demand
              /\ i < j /\ i # j /\ ~ (j < i) /\ i \in 1 .. n
          BY <1>2, <1>4, <1>9, <4>3 DEF MergedDemand
        <5> QED BY <1>3, <3>0, <4>1, <5>1
      <4>4. CASE next <= i /\ i # j
        <5>1. j < i /\ ~ (i <= j) /\ ~ (i < next) /\ ~ (i < j)
          BY <1>2, <1>4, <3>2, <4>4, SMTT(30)
        <5>2. i - 1 \in 1 .. n /\ next <= i - 1
          BY <1>2, <1>4, <1>9, <5>1
        <5>3. MergedDemand(t, next, agg, j, i) = 0
          BY <5>1 DEF MergedDemand
        <5>4. w[i] = t[i - 1]
          BY <3>0, <4>1, <4>4, <5>1
        <5> QED BY <1>3, <1>6, <4>4, <5>1, <5>2, <5>3, <5>4
      <4> QED BY <1>2, <1>4, <3>0, <4>2, <4>3, <4>4
    <3> QED BY <3>1, <3>2
  <2>7. w \in Seq(Entries) /\ Len(w) = n + 1
    <3>1. w = [i \in 1 .. n + 1 |-> w[i]]
      BY <2>5
    <3> HIDE DEF w
    <3> QED BY <1>2, <2>6, <3>1
  <2> HIDE DEF w
  <2>8. OneMoreAt(w, t, j, agg.price)
    <3>1. carry = SupplyBelow(t, j)
      BY DEF carry, SupplyBelow
    <3> QED BY <2>6, <2>7, <3>1 DEF OneMoreAt
  <2>9. \A i \in 1 .. Len(w) : w[i].demand = MergedDemand(t, next, agg, j, i)
    BY <2>6, <2>7
  <2> QED BY <1>11, <2>7, <2>8, <2>9 DEF MergedInto
<1>12. MergedInto(w, t, next, agg, j)
  BY <1>10, <1>11
<1> HIDE DEF w
<1> QED BY <1>1, <1>9, <1>12 DEF t, next, j

\* A bid whose price is in the table, or is put in, is merged.
LEMMA BidIsMerged ==
  ASSUME NEW m, NEW low, NEW price \in Int, NEW qty \in Int,
         IsMerged(m.table, m.next, low, price, qty),
         NEW agg \in Wants, price < agg.price, agg.qty < qty
  PROVE  LET r == MergeBid(m, agg)
         IN  IsMerged(r.table, r.next, low, agg.price, agg.qty)
<1> DEFINE t == m.table
           next == m.next
           n == Len(t)
           j == Place(t, agg)
           w == MergeBid(m, agg).table
<1>1. MergedInto(w, t, next, agg, j) /\ MergeBid(m, agg).next = j + 1 /\ next <= j
  BY BidMergedInto, Zenon
<1>0. IsMerged(t, next, low, price, qty)
  OBVIOUS
<1> HIDE DEF t, next, w
<1>2. /\ t \in Seq(Entries) /\ n \in Nat \ {0} /\ next \in 1 .. n + 1 /\ next \in Nat
      /\ agg.price \in Nat /\ agg.qty \in Nat
  BY <1>0 DEF IsMerged, Wants
<1>3. \A i \in 1 .. n : /\ t[i] \in Entries
                        /\ t[i].price \in Nat /\ t[i].supply \in Nat /\ t[i].demand \in Nat
  <2>1. \A i \in 1 .. n : t[i] \in Entries
    BY <1>2
  <2> QED BY <2>1 DEF Entries
<1>4. /\ j \in 1 .. n + 1
      /\ \A i \in 1 .. n : i < j => t[i].price < agg.price
      /\ j <= n => agg.price <= t[j].price
  BY <1>2, PlaceIs
<1>5. \A i, k \in 1 .. n : i < k => t[i].price < t[k].price /\ t[i].supply <= t[k].supply
  BY <1>0, Zenon DEF IsMerged
<1>6. \A i \in 1 .. n : next <= i => t[i].demand = 0 /\ t[i].supply > 0
  <2> SUFFICES ASSUME NEW i \in 1 .. n, next <= i PROVE t[i].demand = 0 /\ t[i].supply > 0
    OBVIOUS
  <2>1. t[i].demand = 0 /\ (t[i].demand > 0 \/ t[i].supply > 0)
    BY <1>0 DEF IsMerged
  <2> QED BY <2>1
<1>7. \A i \in 2 .. n : next <= i => t[i - 1].supply < t[i].supply
  <2> SUFFICES ASSUME NEW i \in 2 .. n, next <= i PROVE t[i - 1].supply < t[i].supply
    OBVIOUS
  <2>1. t[i].demand > 0 \/ t[i - 1].supply < t[i].supply
    BY <1>0 DEF IsMerged
  <2>2. i \in 1 .. n
    OBVIOUS
  <2> QED BY <1>6, <2>1, <2>2
<1>8. PICK l \in 1 .. n : t[l].price = low /\ t[l].supply > 0
  BY <1>0 DEF IsMerged
<1> HIDE DEF j
<1>9. /\ next <= j /\ w \in Seq(Entries)
      /\ \A i \in 1 .. Len(w) : w[i].demand = MergedDemand(t, next, agg, j, i)
  BY <1>1 DEF MergedInto
<1>10. CASE j <= n /\ t[j].price = agg.price
  <2>2. j \in 1 .. n
    BY <1>2, <1>4, <1>10
  <2>6. Len(w) = n /\ \A i \in 1 .. n : w[i].price = t[i].price /\ w[i].supply = t[i].supply
    BY <1>1, <1>10 DEF MergedInto, SameAsks
  <2>7. w \in Seq(Entries) /\ \A i \in 1 .. n : w[i].demand = MergedDemand(t, next, agg, j, i)
    BY <1>9, <2>6
  <2>8. /\ \A i \in 1 .. n : w[i].demand = MergedDemand(t, next, agg, j, i)
        /\ \A i \in 1 .. n : i < next => w[i].price = t[i].price
        /\ w[j].price = agg.price
        /\ \A i, k \in 1 .. n : i < k => w[i].price < w[k].price /\ w[i].supply <= w[k].supply
        /\ \E i \in 1 .. n : w[i].price = low /\ w[i].supply > 0
    BY <1>5, <1>8, <1>10, <2>2, <2>6, <2>7
  <2>9. \A i \in 1 .. n : j < i => w[i].supply > 0
    BY <1>2, <1>6, <1>9, <2>2, <2>6, SMTT(30)
  <2>10. \A i \in 2 .. n : j < i => w[i - 1].supply < w[i].supply
    <3> SUFFICES ASSUME NEW i \in 2 .. n, j < i PROVE w[i - 1].supply < w[i].supply
      OBVIOUS
    <3>1. i - 1 \in 1 .. n /\ i \in 1 .. n /\ next <= i
      BY <1>2, <1>9, <2>2, SMTT(30)
    <3> QED BY <1>7, <2>6, <3>1
  <2>11. IsMerged(w, j + 1, low, agg.price, agg.qty)
    <3> HIDE DEF n
    <3>1. Len(t) <= Len(w) /\ j \in 1 .. Len(w)
      BY <1>2, <2>2, <2>6 DEF n
    <3>2. n = Len(w)
      BY <2>6
    <3> QED BY <1>0, <1>9, <2>7, <2>8, <2>9, <2>10, <3>1, <3>2, MergedAt, Zenon
  <2> QED BY <1>1, <2>11 DEF w
<1>11. CASE ~ (j <= n /\ t[j].price = agg.price)
  <2> DEFINE carry == SupplyBelow(t, j)
  <2>2. carry \in Nat /\ carry = IF j = 1 THEN 0 ELSE t[j - 1].supply
    <3>1. j # 1 => j - 1 \in 1 .. n
      BY <1>2, <1>4
    <3>2. carry = IF j = 1 THEN 0 ELSE t[j - 1].supply
      BY DEF SupplyBelow
    <3> HIDE DEF carry
    <3> QED BY <1>3, <3>1, <3>2
  <2> HIDE DEF carry
  <2>c. /\ \A i \in 1 .. n : i < j => t[i].supply <= carry
        /\ \A i \in 1 .. n : j <= i => carry < t[i].supply
    <3>1. CASE j = 1
      BY <1>2, <1>6, <1>9, <2>2, <3>1
    <3>2. CASE j # 1
      <4>1. carry = t[j - 1].supply /\ j - 1 \in 1 .. n
        BY <1>2, <1>4, <2>2, <3>2
      <4>2. ASSUME NEW i \in 1 .. n, i < j PROVE t[i].supply <= carry
        <5>1. i = j - 1 \/ i < j - 1
          BY <1>2, <1>4, <4>2
        <5> QED BY <1>3, <1>5, <4>1, <5>1
      <4>3. ASSUME NEW i \in 1 .. n, j <= i PROVE carry < t[i].supply
        <5>1. j \in 2 .. n /\ j \in 1 .. n /\ next <= j
          BY <1>2, <1>4, <1>9, <3>2, <4>3
        <5>2. carry < t[j].supply
          BY <1>7, <4>1, <5>1, Zenon
        <5>3. i = j \/ t[j].supply <= t[i].supply
          BY <1>5, <4>3, <5>1
        <5> QED BY <1>3, <2>2, <5>1, <5>2, <5>3
      <4> QED BY <4>2, <4>3
    <3> QED BY <3>1, <3>2
  <2>p. \A i \in 1 .. n : j <= i => agg.price < t[i].price
    <3> SUFFICES ASSUME NEW i \in 1 .. n, j <= i PROVE agg.price < t[i].price
      OBVIOUS
    <3>1. j \in 1 .. n /\ agg.price < t[j].price
      BY <1>2, <1>3, <1>4, <1>11
    <3>2. i = j \/ t[j].price < t[i].price
      BY <1>5, <3>1
    <3> QED BY <1>2, <1>3, <3>1, <3>2
  <2>7. Len(w) = n + 1 /\ w \in Seq(Entries)
    BY <1>1, <1>9, <1>11 DEF MergedInto, OneMoreAt
  <2>6. ASSUME NEW i \in 1 .. n + 1
        PROVE  /\ w[i] \in Entries
               /\ w[i].demand = MergedDemand(t, next, agg, j, i)
               /\ i < j => i \in 1 .. n /\ w[i].price = t[i].price /\ w[i].supply = t[i].supply
               /\ i = j => w[i].price = agg.price /\ w[i].supply = carry
               /\ j < i => /\ i - 1 \in 1 .. n
                           /\ w[i].price = t[i - 1].price /\ w[i].supply = t[i - 1].supply
    <3>1. OneMoreAt(w, t, j, agg.price)
      BY <1>1, <1>11 DEF MergedInto
    <3>2. i \in 1 .. Len(w) /\ w[i] \in Entries
      BY <2>7
    <3> QED BY <1>9, <3>1, <3>2, Zenon DEF OneMoreAt, carry
  <2>8. \A i, k \in 1 .. n + 1 : i < k => w[i].price < w[k].price /\ w[i].supply <= w[k].supply
    <3> SUFFICES ASSUME NEW i \in 1 .. n + 1, NEW k \in 1 .. n + 1, i < k
                 PROVE  w[i].price < w[k].price /\ w[i].supply <= w[k].supply
      OBVIOUS
    <3>0. i \in Int /\ k \in Int /\ j \in Int
      BY <1>4
    <3>1. CASE k < j
      BY <1>5, <2>6, <3>0, <3>1
    <3>2. CASE k = j
      <4>1. i < j /\ i \in 1 .. n
        BY <2>6, <3>2
      <4> QED BY <1>4, <2>6, <2>c, <3>2, <4>1
    <3>3. CASE j < k /\ i < j
      <4>1. k - 1 \in 1 .. n /\ i \in 1 .. n /\ i < k - 1
        BY <2>6, <3>0, <3>3
      <4> QED BY <1>5, <2>6, <3>3, <4>1
    <3>4. CASE j < k /\ i = j
      <4>1. k - 1 \in 1 .. n /\ j <= k - 1
        BY <2>6, <3>0, <3>4
      <4>2. agg.price < t[k - 1].price /\ carry < t[k - 1].supply
        BY <2>c, <2>p, <4>1
      <4> QED BY <1>3, <2>2, <2>6, <3>4, <4>1, <4>2, SMTT(30)
    <3>5. CASE j < i
      <4>1. j < k /\ k - 1 \in 1 .. n /\ i - 1 \in 1 .. n /\ i - 1 < k - 1
        BY <2>6, <3>0, <3>5
      <4> QED BY <1>5, <2>6, <3>5, <4>1
    <3> QED BY <3>0, <3>1, <3>2, <3>3, <3>4, <3>5
  <2>9. \A i \in 1 .. n + 1 : j < i => w[i].supply > 0
    <3> SUFFICES ASSUME NEW i \in 1 .. n + 1, j < i PROVE w[i].supply > 0
      OBVIOUS
    <3>1. i - 1 \in 1 .. n /\ next <= i - 1 /\ w[i].supply = t[i - 1].supply
      BY <1>2, <1>4, <1>9, <2>6
    <3> QED BY <1>6, <3>1
  <2>10. \A i \in 2 .. n + 1 : j < i => w[i - 1].supply < w[i].supply
    <3> SUFFICES ASSUME NEW i \in 2 .. n + 1, j < i PROVE w[i - 1].supply < w[i].supply
      OBVIOUS
    <3>1. i - 1 \in 1 .. n /\ i \in 1 .. n + 1 /\ i - 1 \in 1 .. n + 1 /\ w[i].supply = t[i - 1].supply
      BY <1>2, <2>6
    <3>2. CASE i - 1 = j
      <4>1. w[i - 1].supply = carry /\ carry < t[i - 1].supply
        BY <1>4, <2>6, <2>c, <3>1, <3>2
      <4> QED BY <3>1, <4>1
    <3>3. CASE i - 1 # j
      <4>1. j < i - 1 /\ next <= i - 1 /\ i - 1 \in 2 .. n
        BY <1>2, <1>4, <1>9, <3>1, <3>3
      <4>2. w[i - 1].supply = t[(i - 1) - 1].supply
        BY <2>6, <3>1, <4>1, Zenon
      <4> QED BY <1>7, <3>1, <4>1, <4>2, Zenon
    <3> QED BY <3>2, <3>3
  <2>11. \E i \in 1 .. n + 1 : w[i].price = low /\ w[i].supply > 0
    <3>1. CASE l < j
      <4>1. l \in 1 .. n + 1
        BY <1>2
      <4> QED BY <1>8, <2>6, <3>1, <4>1
    <3>2. CASE ~ (l < j)
      <4>1. l + 1 \in 1 .. n + 1 /\ j < l + 1 /\ (l + 1) - 1 = l
        BY <1>2, <1>4, <3>2
      <4>2. w[l + 1].price = t[l].price /\ w[l + 1].supply = t[l].supply
        BY <2>6, <4>1
      <4> QED BY <1>8, <4>1, <4>2
    <3> QED BY <3>1, <3>2
  <2>12. /\ \A i \in 1 .. n + 1 : w[i].demand = MergedDemand(t, next, agg, j, i)
         /\ \A i \in 1 .. n + 1 : i < next => w[i].price = t[i].price
         /\ w[j].price = agg.price
    <3>1. \A i \in 1 .. n + 1 : i < next => i < j
      BY <1>2, <1>4, <1>9
    <3> QED BY <1>4, <2>6, <3>1
  <2>13. IsMerged(w, j + 1, low, agg.price, agg.qty)
    <3> HIDE DEF n
    <3>1. Len(t) <= Len(w) /\ j \in 1 .. Len(w)
      BY <1>2, <1>4, <2>7 DEF n
    <3>2. n + 1 = Len(w)
      BY <2>7
    <3> QED BY <1>0, <1>9, <2>7, <2>8, <2>9, <2>10, <2>11, <2>12, <3>1, <3>2, MergedAt, Zenon
  <2> QED BY <1>1, <2>13 DEF w
<1> QED BY <1>10, <1>11

MergeStep(p, m, agg) == MergeBid(m, agg)
Merging == INSTANCE Folding WITH op <- MergeStep

\* The match table is a fold of MergeBid.
LEMMA MatchTableIsFold ==
  ASSUME NEW bids, NEW asks
  PROVE  MatchTable(bids, asks) =
           Merging!Fold(0, [table |-> AskTable(asks), next |-> 1], BidAggregates(bids)).table
BY DEF MatchTable, MergeStep, FoldLeft, MapThenFoldSet, Max, Merging!Fold, Merging!Folds, Merging!Greatest

\* The table of two books that meet: at some price there is both supply and
\* demand, and what nobody wants adds to the supply below it.
Meets(t) ==
    /\ t \in Seq(Entries)
    /\ Len(t) > 0
    /\ \A i, j \in 1 .. Len(t) : i < j =>
         /\ t[i].price < t[j].price
         /\ t[i].supply <= t[j].supply
         /\ t[j].demand <= t[i].demand
    /\ \A i \in 2 .. Len(t) : t[i].demand > 0 \/ t[i - 1].supply < t[i].supply
    /\ \E i \in 1 .. Len(t) : t[i].supply > 0 /\ t[i].demand > 0

\* When every aggregate is merged, the table is one of two books that meet.
LEMMA MergedMeets ==
  ASSUME NEW t, NEW next, NEW low, NEW price \in Nat, NEW qty \in Nat \ {0},
         IsMerged(t, next, low, price, qty), next > 1, low <= price
  PROVE  Meets(t)
<1>1. PICK l \in 1 .. Len(t) : t[l].price = low /\ t[l].supply > 0
  BY DEF IsMerged
<1>2. next - 1 \in 1 .. Len(t) /\ t[next - 1].price = price /\ qty <= t[next - 1].demand
  <2>1. next - 1 \in 1 .. Len(t) /\ next - 1 < next
    BY DEF IsMerged
  <2> QED BY <2>1 DEF IsMerged
<1>3. \A i \in 1 .. Len(t) : /\ t[i] \in Entries
                             /\ t[i].price \in Nat /\ t[i].supply \in Nat /\ t[i].demand \in Nat
  <2>1. \A i \in 1 .. Len(t) : t[i] \in Entries
    BY DEF IsMerged
  <2> QED BY <2>1 DEF Entries
<1>4. t[next - 1].supply > 0
  <2>1. CASE next - 1 < l
    <3>1. t[next - 1].price < t[l].price
      BY <1>2, <2>1, Zenon DEF IsMerged
    <3> QED BY <1>1, <1>2, <1>3, <3>1
  <2>2. CASE next - 1 = l
    BY <1>1, <2>2
  <2>3. CASE l < next - 1
    <3>1. t[l].supply <= t[next - 1].supply
      BY <1>2, <2>3 DEF IsMerged
    <3> QED BY <1>1, <1>2, <1>3, <3>1
  <2> QED BY <1>2, <2>1, <2>2, <2>3
<1>5. t[next - 1].demand > 0
  BY <1>2, <1>3
<1> QED BY <1>2, <1>4, <1>5 DEF IsMerged, Meets

\* Before the first aggregate, the table is that of the asks.
LEMMA NothingMerged ==
  ASSUME NEW t, NEW low, NEW high, IsAskTable(t, low, high), NEW price, NEW qty
  PROVE  IsMerged(t, 1, low, price, qty)
<1> DEFINE n == Len(t)
<1>1. n \in Nat \ {0} /\ t \in Seq(Entries) /\ \A i \in 1 .. n : t[i] \in Entries
  BY DEF IsAskTable
<1>2. \A i \in 1 .. n : /\ t[i].supply \in Nat /\ t[i].demand = 0 /\ t[i].supply > 0
  BY <1>1, Zenon DEF IsAskTable, Entries
<1>3. \A i, j \in 1 .. n : i < j => /\ t[i].price < t[j].price
                                    /\ t[i].supply < t[j].supply
                                    /\ t[i].supply <= t[j].supply
                                    /\ t[j].demand <= t[i].demand
  BY <1>2 DEF IsAskTable
<1>4. \A i \in 2 .. n : t[i - 1].supply < t[i].supply
  <2> SUFFICES ASSUME NEW i \in 2 .. n PROVE t[i - 1].supply < t[i].supply
    OBVIOUS
  <2>1. i - 1 \in 1 .. n /\ i \in 1 .. n /\ i - 1 < i
    OBVIOUS
  <2> QED BY <1>3, <2>1
<1>5. 1 \in 1 .. n /\ t[1].price = low
  BY <1>1 DEF IsAskTable
<1>6. \A i \in 1 .. n : ~ (i < 1)
  OBVIOUS
<1> HIDE DEF n
<1>7. n > 0 /\ 1 \in 1 .. n + 1 /\ ~ (1 > 1)
  BY <1>1
<1> QED BY <1>1, <1>2, <1>3, <1>4, <1>5, <1>6, <1>7 DEF IsMerged, n

\* The match table of two books that overlap.
LEMMA MatchTableMeets ==
  ASSUME NEW bids, NEW asks, IsBook(bids), IsBook(asks), Overlap(bids, asks)
  PROVE  Meets(MatchTable(bids, asks))
<1> DEFINE g == BidAggregates(bids)
           n == Len(g)
           low == asks[1].price
           high == bids[Len(bids)].price
           base == [table |-> AskTable(asks), next |-> 1]
<1>1. IsAggregates(g, bids[1].price, high) /\ IsAskTable(AskTable(asks), low, asks[Len(asks)].price)
  BY BidAggregatesAre, AskTableIs
<1>2. low <= high /\ low \in Nat /\ high \in Nat
  <2>1. /\ bids \in Seq(Offers) /\ asks \in Seq(Offers)
        /\ Len(bids) \in 1 .. Len(bids) /\ 1 \in 1 .. Len(asks)
    BY DEF IsBook
  <2>2. bids[Len(bids)] \in Offers /\ asks[1] \in Offers
    BY <2>1
  <2>3. Last(bids) = bids[Len(bids)] /\ Head(asks) = asks[1]
    BY <2>1 DEF Last
  <2> QED BY <2>2, <2>3 DEF Offers, Overlap
<1> HIDE DEF g
<1>3. /\ n \in Nat \ {0} /\ DOMAIN g = 1 .. n
      /\ \A i \in 1 .. n : g[i] \in Wants /\ g[i].price \in Nat /\ g[i].qty \in Nat \ {0}
      /\ \A i, j \in 1 .. n : i < j => g[i].price < g[j].price /\ g[j].qty < g[i].qty
      /\ g[n].price = high
  <2>1. n \in Nat \ {0} /\ DOMAIN g = 1 .. n /\ \A i \in 1 .. n : g[i] \in Wants
    BY <1>1 DEF IsAggregates
  <2> QED BY <1>1, <2>1 DEF IsAggregates, Wants
<1>4. MatchTable(bids, asks) = Merging!Fold(0, base, g).table
  BY MatchTableIsFold DEF g
<1>5. base.table = AskTable(asks) /\ base.next = 1
  OBVIOUS
<1> HIDE DEF n, base, low, high
<1>6. PICK r : /\ r[0] = base
               /\ \A i \in 1 .. n : r[i] = MergeBid(r[i - 1], g[i])
               /\ r[n].table = MatchTable(bids, asks)
  <2>1. PICK r : Merging!Runs(r, 0, base, g, n)
    BY <1>3, Merging!FoldRuns, Zenon
  <2> QED BY <1>4, <2>1 DEF Merging!Runs, MergeStep
<1> DEFINE price(i) == IF i = 0 THEN g[1].price - 1 ELSE g[i].price
           qty(i)   == IF i = 0 THEN g[1].qty + 1 ELSE g[i].qty
           T == {i \in 0 .. n : /\ IsMerged(r[i].table, r[i].next, low, price(i), qty(i))
                                /\ i > 0 => r[i].next > 1}
<1>7. 0 \in T
  <2>1. IsMerged(r[0].table, r[0].next, low, price(0), qty(0))
    BY <1>1, <1>5, <1>6, NothingMerged
  <2> QED BY <1>3, <2>1
<1>8. ASSUME NEW i \in 0 .. n - 1, i \in T PROVE i + 1 \in T
  <2>1. r[i + 1] = MergeBid(r[i], g[i + 1]) /\ i + 1 \in 1 .. n
    <3>1. i + 1 \in 1 .. n
      BY <1>3
    <3>2. r[i + 1] = MergeBid(r[(i + 1) - 1], g[i + 1])
      BY <1>6, <3>1
    <3>3. (i + 1) - 1 = i
      OBVIOUS
    <3> QED BY <3>1, <3>2, <3>3
  <2>2. price(i) < g[i + 1].price /\ g[i + 1].qty < qty(i) /\ price(i) \in Int /\ qty(i) \in Int
    <3>1. CASE i = 0
      BY <1>3, <2>1, <3>1
    <3>2. CASE i # 0
      <4>1. i \in 1 .. n /\ i < i + 1
        BY <1>3, <3>2
      <4> QED BY <1>3, <2>1, <3>2, <4>1
    <3> QED BY <3>1, <3>2
  <2>3. price(i + 1) = g[i + 1].price /\ qty(i + 1) = g[i + 1].qty
    BY <2>1
  <2>4. IsMerged(r[i].table, r[i].next, low, price(i), qty(i))
    BY <1>8
  <2> HIDE DEF price, qty
  <2>5. IsMerged(r[i + 1].table, r[i + 1].next, low, g[i + 1].price, g[i + 1].qty)
    BY <1>3, <2>1, <2>2, <2>4, BidIsMerged, Zenon
  <2>6. r[i + 1].next > 1
    <3>1. r[i + 1].next = Place(r[i].table, g[i + 1]) + 1
      BY <2>1 DEF MergeBid
    <3>2. r[i].table \in Seq(Entries) /\ Len(r[i].table) \in Nat
      BY <2>4 DEF IsMerged
    <3>3. Place(r[i].table, g[i + 1]) \in 1 .. Len(r[i].table) + 1
      BY <1>3, <2>1, <3>2, PlaceIs, Zenon
    <3> QED BY <3>1, <3>2, <3>3
  <2> QED BY <2>1, <2>3, <2>5, <2>6
<1>9. n \in T
  <2> HIDE DEF T
  <2>1. 0 .. n \subseteq T
    BY <1>3, <1>7, <1>8, UpToEnd, Zenon
  <2> QED BY <1>3, <2>1
<1>10. IsMerged(r[n].table, r[n].next, low, g[n].price, g[n].qty) /\ r[n].next > 1
  BY <1>3, <1>9
<1>11. n \in 1 .. n
  BY <1>3
<1> QED BY <1>2, <1>3, <1>6, <1>10, <1>11, MergedMeets, Zenon

-----------------------------------------------------------------------------
(***************************************************************************)
(* The clearing entry.                                                     *)
(***************************************************************************)

\* From one crossing to the next the direction stays.
LEMMA DirStays ==
  ASSUME NEW t \in Seq(Entries), NEW c \in 1 .. Len(t),
         \A i \in Crossings(t) : i <= c
  PROVE  CalcDir(t[Len(t)]) = CalcDir(t[c])
<1> DEFINE n == Len(t)
           F == {i \in c .. n : CalcDir(t[i]) # CalcDir(t[c])}
<1>1. n \in Nat /\ c \in Nat /\ DOMAIN t = 1 .. n
  OBVIOUS
<1>2. ASSUME F # {} PROVE FALSE
  <2>1. PICK i \in F : \A k \in F : i <= k
    <3>1. F \in SUBSET Nat
      BY <1>1
    <3> HIDE DEF F
    <3> QED BY <1>2, <3>1, LeastNat
  <2>2. i \in c + 1 .. n /\ i - 1 \in c .. n
    BY <1>1, <2>1
  <2>3. CalcDir(t[i - 1]) = CalcDir(t[c])
    BY <2>1, <2>2
  <2>4. i \in Crossings(t)
    BY <1>1, <2>1, <2>2, <2>3 DEF Crossings, Crossed
  <2> QED BY <1>1, <2>2, <2>4
<1>3. n \in c .. n
  BY <1>1
<1> QED BY <1>2, <1>3

\* The entry that clears is wanted: Match never divides by a demand of 0.
LEMMA ClearingIsWanted ==
  ASSUME NEW t, Meets(t)
  PROVE  /\ Clearing(t).price \in Nat
         /\ Clearing(t).supply \in Nat
         /\ Clearing(t).demand \in Nat \ {0}
<1> DEFINE n == Len(t)
           x == Exit(t)
           Stops == {i \in Crossings(t) : FlatTop(t, i) # 0 \/ t[i - 1].supply > 0}
<1>1. n \in Nat \ {0} /\ t \in Seq(Entries) /\ DOMAIN t = 1 .. n
  BY DEF Meets
<1>2. \A i \in 1 .. n : t[i].price \in Nat /\ t[i].supply \in Nat /\ t[i].demand \in Nat
  <2>1. \A i \in 1 .. n : t[i] \in Entries
    BY <1>1
  <2> QED BY <2>1 DEF Entries
<1>3. \A i, j \in 1 .. n : i <= j => /\ t[i].price <= t[j].price
                                     /\ t[i].supply <= t[j].supply
                                     /\ t[j].demand <= t[i].demand
  <2> SUFFICES ASSUME NEW i \in 1 .. n, NEW j \in 1 .. n, i <= j
               PROVE  /\ t[i].price <= t[j].price
                      /\ t[i].supply <= t[j].supply
                      /\ t[j].demand <= t[i].demand
    OBVIOUS
  <2>1. i = j \/ i < j
    OBVIOUS
  <2> QED BY <1>2, <2>1, SMTT(30) DEF Meets
<1>4. PICK k \in 1 .. n : t[k].supply > 0 /\ t[k].demand > 0
  BY DEF Meets
<1>5. Crossings(t) \subseteq 2 .. n
  BY <1>1 DEF Crossings, Crossed
<1>6. /\ x \in 2 .. n + 1
      /\ x = n + 1 \/ x \in Stops
      /\ \A i \in Stops : x <= i
  <2>1. {n + 1} \cup Stops \in SUBSET Nat /\ {n + 1} \cup Stops # {}
    BY <1>1, <1>5
  <2>2. x = Min({n + 1} \cup Stops)
    BY DEF Exit
  <2> HIDE DEF Stops
  <2>3. x \in {n + 1} \cup Stops /\ \A i \in {n + 1} \cup Stops : x <= i
    BY <2>1, <2>2, MinIs
  <2> USE DEF Stops
  <2> QED BY <1>1, <1>5, <2>3
<1> DEFINE f == Found(t, x)
           c == CrossPoint(t, x)
           h == HorizontalCross(t, f, c)
<1>7. Clearing(t) = h
  BY DEF Clearing, ClearingAt
<1>8. c \in 1 .. n /\ (c = 1 \/ c \in Crossings(t))
      /\ \A i \in Crossings(t) : i < x => i <= c
  <2> DEFINE C == {1} \cup {i \in Crossings(t) : i < x \/ (i = x /\ ~ Flat(t, x))}
  <2>1. C \in SUBSET (0 .. n) /\ C # {} /\ n \in Nat
    BY <1>1, <1>5
  <2>2. c = Max(C)
    BY DEF CrossPoint
  <2>3. C \subseteq 1 .. n
    BY <1>1, <1>5
  <2>4. C \subseteq {1} \cup Crossings(t) /\ \A i \in Crossings(t) : i < x => i \in C
    OBVIOUS
  <2> HIDE DEF C, c
  <2>5. c \in C /\ \A i \in C : i <= c
    BY <2>1, <2>2, MaxIs, Zenon
  <2> QED BY <2>3, <2>4, <2>5, Zenon
<1> HIDE DEF x, c
<1>9. /\ f.price \in Nat /\ f.supply \in Nat /\ f.demand \in Nat
      /\ f.demand > 0 \/ (x = n + 1 /\ f = t[n])
  <2>1. CASE Flat(t, x)
    <3> DEFINE top == FlatTop(t, x)
               Same(j) == t[j].supply = t[x].supply /\ t[j].demand = t[x].demand
               J == {0} \cup {j \in x + 1 .. n : \A l \in x + 1 .. j : Same(l)}
    <3>1. x \in 2 .. n /\ top # 0
      BY <1>1, <1>6, <2>1 DEF Flat
    <3>2. top \in x + 1 .. n /\ \A l \in x + 1 .. top : Same(l)
      <4>1. J \in SUBSET (0 .. n) /\ J # {} /\ top = Max(J)
        BY <1>6 DEF FlatTop
      <4> HIDE DEF J
      <4>2. top \in J
        BY <1>1, <4>1, MaxIs, Zenon
      <4> USE DEF J
      <4> HIDE DEF top
      <4> QED BY <3>1, <4>2
    <3> HIDE DEF top
    <3>3. x + 1 \in x + 1 .. top /\ x + 1 \in 2 .. n /\ (x + 1) - 1 = x
      BY <1>6, <3>2
    <3>4. Same(x + 1)
      BY <3>2, <3>3
    <3>5. t[x + 1].demand > 0 \/ t[x].supply < t[x + 1].supply
      <4>1. t[x + 1].demand > 0 \/ t[(x + 1) - 1].supply < t[x + 1].supply
        BY <3>3 DEF Meets
      <4> QED BY <3>3, <4>1
    <3>6. t[x].demand > 0 /\ t[x].supply \in Nat /\ t[x].demand \in Nat /\ t[x].price \in Nat
      BY <1>2, <3>1, <3>3, <3>4, <3>5
    <3>7. t[top].price \in Nat /\ t[x].price <= t[top].price
      BY <1>2, <1>3, <3>1, <3>2
    <3> DEFINE mid == t[x].price + (t[top].price - t[x].price) \div 2
    <3>8. mid \in Nat
      <4>1. t[top].price - t[x].price \in Nat
        BY <3>6, <3>7
      <4>2. \A a, b \in Nat : a + b \div 2 \in Nat
        OBVIOUS
      <4> QED BY <3>6, <4>1, <4>2, Zenon
    <3>9. f = [t[x] EXCEPT !.price = mid]
      BY <2>1 DEF Found, top
    <3>10. t[x] \in Entries
      BY <1>1, <3>1
    <3> HIDE DEF mid, f
    <3>11. f.price = mid /\ f.supply = t[x].supply /\ f.demand = t[x].demand
      BY <3>9, <3>10 DEF Entries
    <3> QED BY <3>6, <3>8, <3>11
  <2>2. CASE ~ Flat(t, x)
    <3>1. f = t[x - 1] /\ x - 1 \in 1 .. n
      BY <1>6, <2>2 DEF Found
    <3> HIDE DEF f
    <3>2. f.price \in Nat /\ f.supply \in Nat /\ f.demand \in Nat
      BY <1>2, <3>1
    <3>3. ASSUME x # n + 1, f.demand = 0 PROVE FALSE
      <4>1. x \in Crossings(t) /\ x \in 2 .. n /\ x \in 1 .. n /\ t[x - 1].supply > 0
        BY <1>5, <1>6, <2>2, <3>3 DEF Flat
      <4>2. CalcDir(t[x - 1]) # CalcDir(t[x])
        BY <4>1 DEF Crossings, Crossed
      <4>3. t[x - 1].supply <= t[x].supply /\ t[x].demand <= t[x - 1].demand
        BY <1>3, <3>1, <4>1
      <4>4. t[x - 1].demand = 0
        BY <3>1, <3>3
      <4>5. t[x].demand = 0 /\ t[x].supply > 0
        BY <1>2, <3>1, <4>1, <4>3, <4>4
      <4> QED BY <4>1, <4>2, <4>4, <4>5 DEF CalcDir
    <3>4. x = n + 1 => x - 1 = n
      BY <1>1
    <3> QED BY <3>1, <3>2, <3>3, <3>4
  <2> QED BY <2>1, <2>2
<1>10. CASE f.demand > 0
  <2>1. h = f \/ (h = t[c] /\ t[c].demand > 0)
    BY DEF HorizontalCross
  <2> HIDE DEF h, f
  <2> QED BY <1>2, <1>7, <1>8, <1>9, <1>10, <2>1
<1>11. CASE ~ (f.demand > 0)
  <2>1. x = n + 1 /\ f = t[n] /\ t[n].demand = 0 /\ n \in 1 .. n
    BY <1>1, <1>9, <1>11
  <2>2. \A i \in Crossings(t) : t[i - 1].supply = 0
    <3> SUFFICES ASSUME NEW i \in Crossings(t) PROVE t[i - 1].supply = 0
      OBVIOUS
    <3>1. i \in 2 .. n /\ i - 1 \in 1 .. n /\ ~ (x <= i)
      BY <1>1, <1>5, <2>1
    <3>2. i \notin Stops
      BY <1>6, <3>1
    <3> QED BY <1>2, <3>1, <3>2
  <2>3. k < n
    <3>1. k # n
      BY <1>4, <2>1
    <3>2. k \in 1 .. n /\ n \in Nat
      BY <1>1
    <3> HIDE DEF n
    <3> QED BY <3>1, <3>2
  <2>4. c <= k
    <3>1. CASE c = 1
      BY <3>1
    <3>2. CASE c \in Crossings(t)
      <4>1. t[c - 1].supply = 0 /\ c - 1 \in 1 .. n
        BY <1>5, <2>2, <3>2
      <4>2. ~ (k <= c - 1)
        <5> SUFFICES ASSUME k <= c - 1 PROVE FALSE
          OBVIOUS
        <5>1. t[k].supply <= t[c - 1].supply
          BY <1>3, <4>1
        <5> QED BY <1>2, <1>4, <4>1, <5>1
      <4> QED BY <1>8, <4>1, <4>2
    <3> QED BY <1>8, <3>1, <3>2
  <2>5. t[c].demand > 0
    <3>1. t[k].demand <= t[c].demand
      BY <1>3, <1>8, <2>4
    <3> QED BY <1>2, <1>4, <1>8, <3>1
  <2>6. CalcDir(t[n]) = 1
    <3>1. t[k].supply <= t[n].supply
      BY <1>3, <2>1, <2>3
    <3>2. t[n].supply > t[n].demand
      BY <1>2, <1>4, <2>1, <3>1
    <3> QED BY <3>2 DEF CalcDir
  <2>7. t[c].supply > 0
    <3>1. \A i \in Crossings(t) : i <= c
      <4>1. \A i \in Crossings(t) : i < x
        BY <1>1, <1>5, <2>1
      <4> QED BY <1>8, <4>1
    <3>2. CalcDir(t[c]) = 1
      BY <1>1, <1>8, <2>6, <3>1, DirStays
    <3>3. t[c].supply > t[c].demand
      <4>1. CASE t[c].supply > t[c].demand
        BY <4>1
      <4>2. CASE ~ (t[c].supply > t[c].demand)
        BY <3>2, <4>2 DEF CalcDir
      <4> QED BY <4>1, <4>2
    <3> QED BY <1>2, <1>8, <2>5, <3>3
  <2>8. h = t[c]
    <3>1. Last(t) = t[n]
      BY <1>1 DEF Last
    <3>2. f.price = Last(t).price /\ c < Len(t)
      BY <1>1, <1>8, <2>1, <2>3, <2>4, <3>1
    <3> QED BY <2>5, <2>7, <3>2 DEF HorizontalCross
  <2> HIDE DEF h, f
  <2> QED BY <1>2, <1>7, <1>8, <2>5, <2>8
<1> QED BY <1>10, <1>11
-----------------------------------------------------------------------------
(***************************************************************************)
(* Decimals.                                                               *)
(***************************************************************************)

\* Dividing natural numbers.
LEMMA Quotient ==
  ASSUME NEW a \in Nat, NEW b \in Nat \ {0}
  PROVE  /\ a \div b \in Nat
         /\ b * (a \div b) <= a
         /\ a < b * (a \div b) + b
         /\ a % b = a - b * (a \div b)
OBVIOUS

\* A quotient is no more than what the dividend is bounded by.
LEMMA QuotientUpTo ==
  ASSUME NEW a \in Nat, NEW b \in Nat \ {0}, NEW c \in Nat, a <= b * c
  PROVE  a \div b <= c
<1> DEFINE q == a \div b
<1>1. q \in Nat /\ b * q <= a
  BY Quotient
<1> HIDE DEF q
<1>2. b * q <= b * c
  <2>1. b * q \in Int /\ b * c \in Int
    BY <1>1
  <2> QED BY <1>1, <2>1
<1>3. ASSUME q > c PROVE FALSE
  <2>1. b * (q - c) > 0
    BY <1>1, <1>3
  <2>2. b * (q - c) = b * q - b * c
    BY <1>1
  <2> QED BY <1>1, <1>2, <2>1, <2>2
<1> QED BY <1>1, <1>3 DEF q

\* What is divided by more than the precision, and rounded.
LEMMA Rounded ==
  ASSUME NEW n \in Nat, NEW c \in Nat, n <= Precision * c
  PROVE  ChopRound(n) \in Nat /\ ChopRound(n) <= c
<1> DEFINE q == n \div Precision
           r == n % Precision
<1>0. Precision \in Nat \ {0}
  BY PrecisionAssumption
<1>1. q \in Nat /\ q <= c /\ Precision * q <= n /\ r = n - Precision * q
  BY <1>0, Quotient, QuotientUpTo, Zenon
<1>2. ChopRound(n) = CASE 2 * r < Precision -> q
                       [] 2 * r > Precision -> q + 1
                       [] OTHER             -> IF q % 2 = 0 THEN q ELSE q + 1
  BY DEF ChopRound
<1> HIDE DEF q, r
<1>3. r \in Int
  BY <1>0, <1>1
<1>4. ChopRound(n) \in {q, q + 1}
  BY <1>2
<1>5. CASE q = c
  <2>1. r <= 0
    <3>1. Precision * q = Precision * c /\ Precision * q \in Int
      BY <1>0, <1>1, <1>5
    <3> QED BY <1>1, <3>1
  <2>2. 2 * r < Precision
    BY <1>0, <1>3, <2>1
  <2>3. ChopRound(n) = q
    <3>1. ~ (2 * r > Precision)
      BY <1>0, <1>3, <2>2
    <3> QED BY <1>2, <2>2, <3>1
  <2> QED BY <1>1, <2>3
<1>6. CASE q # c
  BY <1>1, <1>4, <1>6
<1> QED BY <1>5, <1>6

\* Rounding keeps a number natural.
LEMMA RoundedNat ==
  ASSUME NEW n \in Nat
  PROVE  ChopRound(n) \in Nat
<1>0. Precision \in Nat \ {0}
  BY PrecisionAssumption
<1>1. \A p \in Nat \ {0} : n <= p * n
  OBVIOUS
<1> QED BY <1>0, <1>1, Rounded

\* A share, rounded up, is no more than the whole.
LEMMA ShareUpTo ==
  ASSUME NEW n \in Nat, NEW share \in Nat, share <= Precision
  PROVE  CeilInt(n * share) \in Nat /\ CeilInt(n * share) <= n
<1>0. Precision \in Nat \ {0}
  BY PrecisionAssumption
<1> DEFINE a == n * share + Precision - 1
<1>1. n * share \in Nat /\ n * share <= n * Precision /\ n * Precision = Precision * n
  BY <1>0
<1>2. a \in Nat /\ a < Precision * n + Precision
  <2>1. Precision * n \in Nat
    BY <1>0
  <2> QED BY <1>0, <1>1, <2>1
<1>3. a \div Precision \in Nat /\ Precision * (a \div Precision) <= a
  BY <1>0, <1>2, Quotient, Zenon
<1> DEFINE q == a \div Precision
<1>4. CeilInt(n * share) = q
  BY DEF CeilInt
<1>5. q \in Nat /\ Precision * q <= a
  BY <1>3
<1> HIDE DEF a, q
<1>6. ASSUME q > n PROVE FALSE
  <2>1. Precision * (q - n) >= Precision
    BY <1>0, <1>5, <1>6
  <2>2. Precision * (q - n) = Precision * q - Precision * n
    BY <1>0, <1>5
  <2>3. Precision * q \in Int /\ Precision * n \in Int
    BY <1>0, <1>5
  <2> QED BY <1>0, <1>2, <1>5, <2>1, <2>2, <2>3
<1> QED BY <1>4, <1>5, <1>6

\* The reciprocal of a ratio above one is at most one.
LEMMA RecipUpTo ==
  ASSUME NEW ratio \in Nat, ratio > Precision
  PROVE  Recip(ratio) \in Nat /\ Recip(ratio) <= Precision
<1>0. Precision \in Nat \ {0} /\ ratio \in Nat \ {0}
  BY PrecisionAssumption
<1> DEFINE s == Precision * Precision
           a == Precision * Precision * Precision
<1>1. s \in Nat /\ a = s * Precision /\ a \in Nat
  BY <1>0
<1>2. s * Precision <= s * ratio /\ s * ratio = ratio * s
  <2> HIDE DEF s, a
  <2> QED BY <1>0, <1>1
<1>3. Recip(ratio) = ChopRound(a \div ratio)
  BY DEF Recip
<1>4. s = Precision * Precision
  OBVIOUS
<1> HIDE DEF s, a
<1>5. a \div ratio \in Nat /\ a \div ratio <= s
  <2>1. a <= ratio * s
    BY <1>1, <1>2
  <2> QED BY <1>0, <1>1, <2>1, Quotient, QuotientUpTo
<1> QED BY <1>0, <1>3, <1>4, <1>5, Rounded

\* The ratio of supply and demand is a natural number of units.
LEMMA RatioIsNat ==
  ASSUME NEW supply \in Nat, NEW demand \in Nat \ {0}
  PROVE  QuoInts(supply, demand) \in Nat
<1>0. Precision \in Nat \ {0}
  BY PrecisionAssumption
<1>1. supply * Precision * Precision \in Nat
  <2>1. supply * Precision \in Nat
    BY <1>0
  <2> QED BY <1>0, <2>1
<1>2. (supply * Precision * Precision) \div demand \in Nat
  BY <1>1, Quotient
<1> QED BY <1>2, RoundedNat DEF QuoInts

-----------------------------------------------------------------------------
(***************************************************************************)
(* The fills.                                                              *)
(***************************************************************************)

Serving == INSTANCE Folding WITH op <- Serve

\* The fills of a side are a fold of Serve.
LEMMA FillSideIsFold ==
  ASSUME NEW rule, NEW offers
  PROVE  FillSide(rule, offers) = Serving!Fold(rule, [matched |-> 0, fills |-> <<>>], offers).fills
BY DEF FillSide, FoldLeft, MapThenFoldSet, Max, Serving!Fold, Serving!Folds, Serving!Greatest

Fillings == [id : Nat, filled : Nat, unfilled : Nat]

\* Fills of some of the orders in O, each filled once and for no more than
\* its quantity.
FillsOf(fills, O) ==
    /\ fills \in Seq(Fillings)
    /\ \A k \in 1 .. Len(fills) :
         \E o \in O : fills[k].id = o.id /\ fills[k].filled + fills[k].unfilled = o.qty
    /\ \A k, l \in 1 .. Len(fills) : k # l => fills[k].id # fills[l].id

\* What is rationed is given out in shares, up to a limit.
IsRule(rule) ==
    \/ rule.rationed = FALSE
    \/ rule.rationed = TRUE /\ rule.share \in Nat /\ rule.share <= Precision /\ rule.limit \in Nat

Served(rule, s, O) ==
    /\ s.matched \in Nat
    /\ rule.rationed => s.matched <= rule.limit
    /\ FillsOf(s.fills, O)

\* One more order is served.
LEMMA ServedNext ==
  ASSUME NEW rule, IsRule(rule), NEW s, NEW O, Served(rule, s, O),
         NEW o \in Offers, \A p \in O : p.id # o.id
  PROVE  Served(rule, Serve(rule, s, o), O \cup {o})
<1> DEFINE want == IF rule.rationed THEN CeilInt(o.qty * rule.share) ELSE o.qty
           qty  == IF rule.rationed /\ s.matched + want > rule.limit
                   THEN rule.limit - s.matched ELSE want
           sum  == s.matched + (IF rule.rationed THEN qty ELSE 0)
           f    == [id |-> o.id, filled |-> qty, unfilled |-> o.qty - qty]
           skip == ~InMarket(o, rule) \/ s.matched = rule.stop \/ (rule.rationed /\ qty = 0)
<1>1. Serve(rule, s, o) = IF skip THEN s ELSE [matched |-> sum, fills |-> Append(s.fills, f)]
  BY DEF Serve
<1>2. o.qty \in Nat /\ o.id \in Nat /\ s.matched \in Nat
  BY DEF Offers, Served
<1>3. qty \in Nat /\ qty <= o.qty /\ sum \in Nat /\ (rule.rationed => sum <= rule.limit)
  <2>1. CASE rule.rationed = FALSE
    BY <1>2, <2>1
  <2>2. CASE rule.rationed = TRUE /\ rule.share \in Nat /\ rule.share <= Precision /\ rule.limit \in Nat
    <3>1. want \in Nat /\ want <= o.qty
      <4>1. want = CeilInt(o.qty * rule.share)
        BY <2>2
      <4> HIDE DEF want
      <4> QED BY <1>2, <2>2, <4>1, ShareUpTo, Zenon
    <3>2. s.matched <= rule.limit
      BY <2>2 DEF Served
    <3> HIDE DEF want
    <3>3. qty = (IF s.matched + want > rule.limit THEN rule.limit - s.matched ELSE want) /\ sum = s.matched + qty
      BY <2>2
    <3> HIDE DEF qty, sum
    <3> QED BY <1>2, <2>2, <3>1, <3>2, <3>3
  <2> QED BY <2>1, <2>2, Zenon DEF IsRule
<1> HIDE DEF qty, sum
<1>4. CASE skip
  <2>1. Serve(rule, s, o) = s
    BY <1>1, <1>4
  <2>2. FillsOf(s.fills, O \cup {o})
    BY DEF Served, FillsOf
  <2> QED BY <2>1, <2>2 DEF Served
<1>5. CASE ~ skip
  <2> DEFINE u == Append(s.fills, f)
             n == Len(s.fills)
  <2>1. Serve(rule, s, o) = [matched |-> sum, fills |-> u]
    BY <1>1, <1>5
  <2>2. f \in Fillings /\ f.id = o.id /\ f.filled + f.unfilled = o.qty
    BY <1>2, <1>3 DEF Fillings
  <2> HIDE DEF f
  <2>3. s.fills \in Seq(Fillings) /\ n \in Nat
    BY DEF Served, FillsOf
  <2>4. u \in Seq(Fillings) /\ Len(u) = n + 1 /\ \A k \in 1 .. n + 1 : u[k] = IF k = n + 1 THEN f ELSE s.fills[k]
    BY <2>2, <2>3
  <2> HIDE DEF u
  <2>5. \A k \in 1 .. n : \E p \in O : s.fills[k].id = p.id /\ s.fills[k].filled + s.fills[k].unfilled = p.qty
    BY DEF Served, FillsOf
  <2>6. \A k, l \in 1 .. n : k # l => s.fills[k].id # s.fills[l].id
    BY DEF Served, FillsOf
  <2> HIDE DEF n
  <2>7. \A k \in 1 .. n + 1 : k = n + 1 \/ k \in 1 .. n
    BY <2>3
  <2>8. ASSUME NEW k \in 1 .. n + 1
        PROVE  \E p \in O \cup {o} : u[k].id = p.id /\ u[k].filled + u[k].unfilled = p.qty
    <3>1. CASE k = n + 1
      BY <2>2, <2>4, <3>1
    <3>2. CASE k # n + 1
      BY <2>4, <2>5, <2>7, <3>2
    <3> QED BY <3>1, <3>2
  <2>9. ASSUME NEW k \in 1 .. n, NEW l \in 1 .. n + 1, k # l
        PROVE  u[k].id # u[l].id
    <3>0. k \in 1 .. n + 1 /\ k # n + 1
      BY <2>3
    <3>1. u[k] = s.fills[k]
      BY <2>4, <3>0
    <3>2. CASE l = n + 1
      <4>1. u[l].id = o.id
        BY <2>2, <2>4, <3>2
      <4> QED BY <2>5, <3>1, <4>1
    <3>3. CASE l # n + 1
      <4>1. u[l] = s.fills[l] /\ l \in 1 .. n
        BY <2>4, <2>7, <3>3
      <4> QED BY <2>6, <2>9, <3>1, <4>1
    <3> QED BY <3>2, <3>3
  <2>10. \A k, l \in 1 .. n + 1 : k # l => u[k].id # u[l].id
    BY <2>7, <2>9
  <2>11. FillsOf(u, O \cup {o})
    BY <2>4, <2>8, <2>10 DEF FillsOf
  <2> QED BY <1>3, <2>1, <2>11 DEF Served
<1> QED BY <1>4, <1>5

\* The orders of a sequence.
InBook(q) == {q[i] : i \in 1 .. Len(q)}
Distinct(q) == \A i, j \in 1 .. Len(q) : i # j => q[i].id # q[j].id

\* The orders of a side are each filled at most once.
LEMMA FillSideIs ==
  ASSUME NEW rule, IsRule(rule), NEW q \in Seq(Offers), Distinct(q)
  PROVE  FillsOf(FillSide(rule, q), InBook(q))
<1> DEFINE n == Len(q)
           base == [matched |-> 0, fills |-> <<>>]
           First(i) == {q[j] : j \in 1 .. i}
<1>1. n \in Nat /\ DOMAIN q = 1 .. n /\ \A i \in 1 .. n : q[i] \in Offers
  OBVIOUS
<1>2. Served(rule, base, {})
  <2>1. FillsOf(<<>>, {})
    BY DEF FillsOf
  <2>2. rule.rationed => 0 <= rule.limit
    BY DEF IsRule
  <2> QED BY <2>1, <2>2 DEF Served
<1>3. FillSide(rule, q) = Serving!Fold(rule, base, q).fills
  BY FillSideIsFold
<1>4. Distinct(q) /\ n = Len(q)
  OBVIOUS
<1> HIDE DEF n, base
<1>5. PICK r : Serving!Runs(r, rule, base, q, n)
  BY <1>1, Serving!FoldRuns
<1>6. /\ r[0] = base
      /\ \A i \in 1 .. n : r[i] = Serve(rule, r[i - 1], q[i])
      /\ r[n].fills = FillSide(rule, q)
  BY <1>3, <1>5 DEF Serving!Runs
<1> DEFINE T == {i \in 0 .. n : Served(rule, r[i], First(i))}
<1>7. 0 \in T
  <2>1. First(0) = {} /\ 0 \in 0 .. n
    BY <1>1
  <2> HIDE DEF First
  <2> QED BY <1>2, <1>6, <2>1, Zenon
<1>8. ASSUME NEW i \in 0 .. n - 1, i \in T PROVE i + 1 \in T
  <2>1. i + 1 \in 1 .. n /\ (i + 1) - 1 = i /\ i + 1 \in 0 .. n
    BY <1>1
  <2>2. r[i + 1] = Serve(rule, r[i], q[i + 1])
    <3>1. r[i + 1] = Serve(rule, r[(i + 1) - 1], q[i + 1])
      BY <1>6, <2>1
    <3> QED BY <2>1, <3>1
  <2>3. First(i + 1) = First(i) \cup {q[i + 1]}
    OBVIOUS
  <2>4. \A p \in First(i) : p.id # q[i + 1].id
    BY <1>1, <1>4, <2>1 DEF Distinct
  <2>5. Served(rule, r[i], First(i))
    BY <1>8
  <2> HIDE DEF First
  <2>6. Served(rule, r[i + 1], First(i + 1))
    BY <1>1, <2>1, <2>2, <2>3, <2>4, <2>5, ServedNext
  <2> QED BY <2>1, <2>6
<1>9. n \in T
  <2> HIDE DEF T
  <2>1. 0 .. n \subseteq T
    BY <1>1, <1>7, <1>8, UpToEnd, Zenon
  <2> QED BY <1>1, <2>1
<1>10. Served(rule, r[n], First(n)) /\ First(n) = InBook(q)
  BY <1>4, <1>9 DEF InBook
<1> QED BY <1>6, <1>10, Zenon DEF Served

\* The fills of two sides that share no order.
LEMMA JoinedFills ==
  ASSUME NEW a, NEW O, FillsOf(a, O), NEW b, NEW P, FillsOf(b, P),
         \A o \in O, p \in P : o.id # p.id
  PROVE  FillsOf(a \o b, O \cup P)
<1> DEFINE m == Len(a)
           n == Len(b)
           c == a \o b
<1>1. a \in Seq(Fillings) /\ b \in Seq(Fillings) /\ m \in Nat /\ n \in Nat
  BY DEF FillsOf
<1>2. c \in Seq(Fillings) /\ Len(c) = m + n
      /\ \A k \in 1 .. m + n : c[k] = IF k <= m THEN a[k] ELSE b[k - m]
  BY <1>1, Joined
<1>3. /\ \A k \in 1 .. m : \E o \in O : a[k].id = o.id /\ a[k].filled + a[k].unfilled = o.qty
      /\ \A k \in 1 .. n : \E o \in P : b[k].id = o.id /\ b[k].filled + b[k].unfilled = o.qty
      /\ \A k, l \in 1 .. m : k # l => a[k].id # a[l].id
      /\ \A k, l \in 1 .. n : k # l => b[k].id # b[l].id
  BY DEF FillsOf
<1> HIDE DEF m, n, c
<1>4. ASSUME NEW k \in 1 .. m + n
      PROVE  \/ k \in 1 .. m /\ c[k] = a[k]
             \/ k - m \in 1 .. n /\ c[k] = b[k - m] /\ k \notin 1 .. m
  BY <1>1, <1>2
<1>5. ASSUME NEW k \in 1 .. m + n
      PROVE  \E o \in O \cup P : c[k].id = o.id /\ c[k].filled + c[k].unfilled = o.qty
  BY <1>3, <1>4
<1>6. ASSUME NEW k \in 1 .. m + n, NEW l \in 1 .. m + n, k # l
      PROVE  c[k].id # c[l].id
  <2>1. CASE k \in 1 .. m /\ l \in 1 .. m
    BY <1>3, <1>4, <1>6, <2>1
  <2>2. CASE k \in 1 .. m /\ l \notin 1 .. m
    BY <1>3, <1>4, <2>2
  <2>3. CASE k \notin 1 .. m /\ l \in 1 .. m
    BY <1>3, <1>4, <2>3
  <2>4. CASE k \notin 1 .. m /\ l \notin 1 .. m
    <3>1. k - m \in 1 .. n /\ l - m \in 1 .. n /\ c[k] = b[k - m] /\ c[l] = b[l - m]
      BY <1>4, <2>4
    <3>2. k - m # l - m
      BY <1>1, <1>6
    <3> QED BY <1>3, <3>1, <3>2
  <2> QED BY <2>1, <2>2, <2>3, <2>4
<1>7. FillsOf(c, O \cup P)
  BY <1>2, <1>5, <1>6 DEF FillsOf
<1> QED BY <1>7 DEF c

\* The two sides are served by rules.
LEMMA RulesAre ==
  ASSUME NEW e, e.supply \in Nat, e.demand \in Nat, NEW ratio \in Nat
  PROVE  /\ IsRule(BidRule(e, ratio, Recip(ratio)))
         /\ IsRule(AskRule(e, ratio, Recip(ratio)))
<1> DEFINE recip == Recip(ratio)
<1>0. Precision \in Nat \ {0}
  BY PrecisionAssumption
<1>1. IsRule(BidRule(e, ratio, recip))
  <2>1. CASE ratio <= Precision
    <3>1. e.demand * ratio \in Nat
      OBVIOUS
    <3>2. RoundInt(e.demand * ratio) \in Nat
      BY <3>1, RoundedNat DEF RoundInt
    <3> QED BY <2>1, <3>2 DEF IsRule, BidRule
  <2>2. CASE ~ (ratio <= Precision)
    <3>1. (ratio <= Precision) = FALSE
      BY <2>2
    <3>2. BidRule(e, ratio, recip).rationed = (ratio <= Precision)
      BY Zenon DEF BidRule
    <3> QED BY <3>1, <3>2, Zenon DEF IsRule
  <2> QED BY <2>1, <2>2
<1>2. IsRule(AskRule(e, ratio, recip))
  <2>1. CASE ratio > Precision
    <3>0. recip \in Nat /\ recip <= Precision
      BY <2>1, RecipUpTo
    <3> HIDE DEF recip
    <3>1. e.supply * recip \in Nat
      BY <3>0
    <3>2. RoundInt(e.supply * recip) \in Nat
      BY <3>1, RoundedNat DEF RoundInt
    <3> QED BY <2>1, <3>0, <3>2 DEF IsRule, AskRule
  <2>2. CASE ~ (ratio > Precision)
    <3>1. (ratio > Precision) = FALSE
      BY <2>2
    <3>2. AskRule(e, ratio, recip).rationed = (ratio > Precision)
      BY Zenon DEF AskRule
    <3> QED BY <3>1, <3>2, Zenon DEF IsRule
  <2> QED BY <2>1, <2>2
<1> QED BY <1>1, <1>2

\* A match of two books that meet fills each order once, for no more than
\* its quantity.
LEMMA MatchIs ==
  ASSUME NEW bids, NEW asks, IsBook(bids), IsBook(asks), Overlap(bids, asks),
         Distinct(bids), Distinct(asks),
         \A o \in InBook(bids), p \in InBook(asks) : o.id # p.id
  PROVE  /\ Match(bids, asks).price \in Nat
         /\ FillsOf(Match(bids, asks).fills, InBook(bids) \cup InBook(asks))
<1> DEFINE e == Clearing(MatchTable(bids, asks))
           ratio == ProRata(e)
           recip == Recip(ratio)
           high == Reverse(bids)
<1>0. Precision \in Nat \ {0}
  BY PrecisionAssumption
<1>1. e.price \in Nat /\ e.supply \in Nat /\ e.demand \in Nat \ {0}
  BY MatchTableMeets, ClearingIsWanted
<1>2. Match(bids, asks).price = e.price
  BY DEF Match, MatchAt
<1>3. Match(bids, asks).fills = IF ratio = 0 THEN <<>> ELSE FillsAt(bids, asks, e, ratio, recip)
  BY DEF Match, MatchAt
<1> HIDE DEF e
<1>4. ratio \in Nat
  BY <1>1, RatioIsNat DEF ProRata
<1> HIDE DEF ratio
<1>5. IsRule(BidRule(e, ratio, recip)) /\ IsRule(AskRule(e, ratio, recip))
  BY <1>1, <1>4, RulesAre
<1> HIDE DEF recip
<1>7. bids \in Seq(Offers) /\ asks \in Seq(Offers)
  BY DEF IsBook
<1>8. high \in Seq(Offers) /\ Len(high) = Len(bids) /\ Len(bids) \in Nat
      /\ \A i \in 1 .. Len(bids) : high[i] = bids[Len(bids) - i + 1]
  BY <1>7, Reversed
<1> HIDE DEF high
<1>9. Distinct(high) /\ InBook(high) = InBook(bids)
  <2> DEFINE n == Len(bids)
  <2>1. \A i \in 1 .. n : n - i + 1 \in 1 .. n /\ n - (n - i + 1) + 1 = i
    BY <1>8
  <2>2. \A i \in 1 .. n : high[i] = bids[n - i + 1] /\ bids[i] = high[n - i + 1]
    BY <1>8, <2>1, Zenon
  <2>3. \A i, j \in 1 .. n : i # j => n - i + 1 # n - j + 1
    BY <1>8
  <2>4. n = Len(high)
    BY <1>8
  <2> HIDE DEF n
  <2>5. Distinct(high)
    <3>1. \A i, j \in 1 .. n : i # j => bids[i].id # bids[j].id
      BY DEF Distinct, n
    <3>2. \A i, j \in 1 .. n : i # j => high[i].id # high[j].id
      BY <2>1, <2>2, <2>3, <3>1
    <3> QED BY <2>4, <3>2 DEF Distinct
  <2>6. InBook(high) = {high[i] : i \in 1 .. n} /\ InBook(bids) = {bids[i] : i \in 1 .. n}
    BY <2>4 DEF InBook, n
  <2>7. {high[i] : i \in 1 .. n} = {bids[i] : i \in 1 .. n}
    BY <2>1, <2>2
  <2> QED BY <2>5, <2>6, <2>7, Zenon
<1>10. FillsOf(FillsAt(bids, asks, e, ratio, recip), InBook(bids) \cup InBook(asks))
  <2> DEFINE a == FillSide(BidRule(e, ratio, recip), high)
             b == FillSide(AskRule(e, ratio, recip), asks)
  <2>1. FillsOf(a, InBook(bids))
    <3>1. FillsOf(a, InBook(high))
      BY <1>5, <1>8, <1>9, FillSideIs
    <3> QED BY <1>9, <3>1
  <2>2. FillsOf(b, InBook(asks))
    BY <1>5, <1>7, FillSideIs
  <2>3. FillsAt(bids, asks, e, ratio, recip) = a \o b
    BY DEF FillsAt, HighestFirst, high
  <2> HIDE DEF a, b
  <2> QED BY <2>1, <2>2, <2>3, JoinedFills
<1>11. FillsOf(<<>>, InBook(bids) \cup InBook(asks))
  BY DEF FillsOf
<1> QED BY <1>1, <1>2, <1>3, <1>10, <1>11

-----------------------------------------------------------------------------
(***************************************************************************)
(* The books, as orders are enqueued.                                      *)
(***************************************************************************)

\* A book, sorted by price.
ByPrice(q) ==
    /\ q \in Seq(Offers)
    /\ \A i, j \in 1 .. Len(q) : i < j => q[i].price <= q[j].price

\* Among orders of one price the last to come is the first of the book.
InOrder(q) == \A i, j \in 1 .. Len(q) : i < j => Follows(q[j], q[i])

\* Every order follows the orders before it, one way or the other.
LEMMA OneFollows ==
  ASSUME NEW a \in Offers, NEW b \in Offers, NEW c \in Offers
  PROVE  /\ a.id # b.id => (Follows(a, b) <=> ~ Follows(b, a))
         /\ Follows(a, b) /\ Follows(b, c) => Follows(a, c)
<1>1. /\ a.id \in Nat /\ b.id \in Nat /\ c.id \in Nat
      /\ a.price \in Nat /\ b.price \in Nat /\ c.price \in Nat
  BY DEF Offers
<1> QED BY <1>1 DEF Follows

\* The new order is in the book, which stays sorted.
LEMMA Enqueued ==
  ASSUME NEW q, ByPrice(q), Distinct(q), NEW o \in Offers, \A p \in InBook(q) : p.id # o.id
  PROVE  /\ ByPrice(Enqueue(q, o))
         /\ Distinct(Enqueue(q, o))
         /\ InBook(Enqueue(q, o)) = InBook(q) \cup {o}
         /\ InOrder(q) => InOrder(Enqueue(q, o))
<1> DEFINE n == Len(q)
           I == {i \in 1 .. n : Follows(q[i], o)}
           at == SelectInSeq(q, LAMBDA t : Follows(t, o))
           j == IF at = 0 THEN n + 1 ELSE at
           u == InsertAt(q, j, o)
<1>0. Enqueue(q, o) = u
  BY DEF Enqueue
<1>1. q \in Seq(Offers) /\ n \in Nat /\ DOMAIN q = 1 .. n
  BY DEF ByPrice
<1>2. \A i \in 1 .. n : q[i] \in Offers /\ q[i].price \in Nat
  <2>1. \A i \in 1 .. n : q[i] \in Offers
    BY <1>1
  <2> QED BY <2>1 DEF Offers
<1>3. o.price \in Nat
  BY DEF Offers
<1>4. at = IF I # {} THEN Min(I) ELSE 0
  BY <1>1 DEF SelectInSeq
<1>5. /\ j \in 1 .. n + 1
      /\ \A i \in 1 .. n : i < j => q[i].price <= o.price
      /\ \A i \in 1 .. n : j <= i => o.price <= q[i].price
      /\ \A i \in 1 .. n : i < j => ~ Follows(q[i], o)
      /\ j \in 1 .. n => Follows(q[j], o)
  <2>1. CASE I = {}
    <3>1. j = n + 1
      BY <1>4, <2>1
    <3>2. \A i \in 1 .. n : q[i].price <= o.price
      BY <1>2, <1>3, <2>1 DEF Follows
    <3>3. \A i \in 1 .. n : ~ Follows(q[i], o)
      BY <2>1
    <3> HIDE DEF j, n
    <3> QED BY <1>1, <3>1, <3>2, <3>3
  <2>2. CASE I # {}
    <3>1. Min(I) \in I /\ \A i \in I : Min(I) <= i
      <4>1. I \in SUBSET Nat
        OBVIOUS
      <4> HIDE DEF I
      <4> QED BY <2>2, <4>1, MinIs
    <3> DEFINE k == Min(I)
    <3>2. k \in 1 .. n /\ Follows(q[k], o) /\ \A i \in 1 .. n : Follows(q[i], o) => k <= i
      BY <3>1
    <3>3. at = k
      BY <1>4, <2>2
    <3> HIDE DEF k, at, I, n
    <3>4. j = k
      BY <3>2, <3>3
    <3> HIDE DEF j
    <3>5. \A i \in 1 .. n : i < k => q[i].price <= o.price
      <4> SUFFICES ASSUME NEW i \in 1 .. n, i < k PROVE q[i].price <= o.price
        OBVIOUS
      <4>1. ~ Follows(q[i], o)
        BY <1>1, <3>2
      <4> QED BY <1>2, <1>3, <4>1 DEF Follows
    <3>6. o.price <= q[k].price
      BY <1>2, <1>3, <3>2 DEF Follows
    <3>7. \A i \in 1 .. n : k <= i => o.price <= q[i].price
      <4> SUFFICES ASSUME NEW i \in 1 .. n, k <= i PROVE o.price <= q[i].price
        OBVIOUS
      <4>1. i = k \/ q[k].price <= q[i].price
        BY <3>2 DEF ByPrice, n
      <4> QED BY <1>2, <1>3, <3>2, <3>6, <4>1
    <3>8. \A i \in 1 .. n : i < k => ~ Follows(q[i], o)
      BY <1>1, <3>2
    <3> QED BY <1>1, <3>2, <3>4, <3>5, <3>7, <3>8
  <2> QED BY <2>1, <2>2, Zenon
<1> HIDE DEF j, at, I
<1>6. /\ u \in Seq(Offers) /\ Len(u) = n + 1
      /\ \A i \in 1 .. n + 1 : u[i] = IF i < j THEN q[i] ELSE IF i = j THEN o ELSE q[i - 1]
  BY <1>1, <1>5, Inserted
<1>7. \A i, k \in 1 .. n : i < k => q[i].price <= q[k].price
  BY DEF ByPrice
<1>8. \A i, k \in 1 .. n : i # k => q[i].id # q[k].id
  BY DEF Distinct
<1>9. \A i \in 1 .. n : q[i].id # o.id
  BY DEF InBook
<1>10. InBook(q) = {q[i] : i \in 1 .. n} /\ InBook(u) = {u[i] : i \in 1 .. n + 1}
  BY <1>6 DEF InBook
<1> HIDE DEF u, n
<1>11. ASSUME NEW i \in 1 .. n + 1
       PROVE  \/ i < j /\ i \in 1 .. n /\ u[i] = q[i]
              \/ i = j /\ u[i] = o
              \/ j < i /\ i - 1 \in 1 .. n /\ j <= i - 1 /\ u[i] = q[i - 1]
  BY <1>1, <1>5, <1>6
<1>12. ASSUME NEW i \in 1 .. n + 1, NEW k \in 1 .. n + 1, i < k
       PROVE  u[i].price <= u[k].price /\ u[i].id # u[k].id
  <2>0. i \in Int /\ k \in Int /\ j \in Int
    BY <1>5
  <2>1. CASE k < j
    <3>1. i \in 1 .. n /\ k \in 1 .. n /\ u[i] = q[i] /\ u[k] = q[k] /\ i # k
      BY <1>11, <1>12, <2>0, <2>1
    <3> QED BY <1>7, <1>8, <1>12, <3>1
  <2>2. CASE k = j
    <3>1. i \in 1 .. n /\ i < j /\ u[i] = q[i] /\ u[k] = o
      BY <1>11, <1>12, <2>0, <2>2
    <3> QED BY <1>5, <1>9, <3>1
  <2>3. CASE j < k /\ i < j
    <3>1. i \in 1 .. n /\ k - 1 \in 1 .. n /\ u[i] = q[i] /\ u[k] = q[k - 1] /\ i < k - 1 /\ i # k - 1
      BY <1>11, <2>0, <2>3
    <3> QED BY <1>7, <1>8, <3>1
  <2>4. CASE j < k /\ i = j
    <3>1. k - 1 \in 1 .. n /\ j <= k - 1 /\ u[i] = o /\ u[k] = q[k - 1]
      BY <1>11, <2>0, <2>4
    <3> QED BY <1>5, <1>9, <3>1
  <2>5. CASE j < i
    <3>1. i - 1 \in 1 .. n /\ k - 1 \in 1 .. n /\ u[i] = q[i - 1] /\ u[k] = q[k - 1] /\ i - 1 < k - 1
      BY <1>11, <1>12, <2>0, <2>5
    <3>2. i - 1 # k - 1
      BY <1>12
    <3> QED BY <1>7, <1>8, <3>1, <3>2
  <2> QED BY <2>0, <2>1, <2>2, <2>3, <2>4, <2>5
<1>13. ByPrice(u)
  BY <1>6, <1>12 DEF ByPrice
<1>14. Distinct(u)
  <2> SUFFICES ASSUME NEW i \in 1 .. n + 1, NEW k \in 1 .. n + 1, i # k PROVE u[i].id # u[k].id
    BY <1>6 DEF Distinct
  <2>1. i < k \/ k < i
    BY <1>1
  <2> QED BY <1>12, <2>1
<1>15. {u[i] : i \in 1 .. n + 1} = {q[i] : i \in 1 .. n} \cup {o}
  <2>1. \A i \in 1 .. n + 1 : u[i] \in {q[k] : k \in 1 .. n} \cup {o}
    BY <1>11
  <2>2. \A i \in 1 .. n : \E k \in 1 .. n + 1 : u[k] = q[i]
    <3> SUFFICES ASSUME NEW i \in 1 .. n PROVE \E k \in 1 .. n + 1 : u[k] = q[i]
      OBVIOUS
    <3>1. CASE i < j
      <4>1. i \in 1 .. n + 1 /\ u[i] = q[i]
        BY <1>1, <1>6, <3>1
      <4> QED BY <4>1
    <3>2. CASE ~ (i < j)
      <4>1. i + 1 \in 1 .. n + 1 /\ ~ (i + 1 < j) /\ i + 1 # j /\ (i + 1) - 1 = i
        BY <1>1, <1>5, <3>2
      <4>2. u[i + 1] = q[i]
        BY <1>6, <4>1
      <4> QED BY <4>1, <4>2
    <3> QED BY <3>1, <3>2
  <2>3. u[j] = o
    BY <1>5, <1>6
  <2> QED BY <1>5, <2>1, <2>2, <2>3
<1>16. ASSUME InOrder(q) PROVE InOrder(u)
  <2>1. \A i, k \in 1 .. n : i < k => Follows(q[k], q[i])
    BY <1>16 DEF InOrder, n
  <2>2. \A i \in 1 .. n : i < j => Follows(o, q[i])
    BY <1>2, <1>5, <1>9, OneFollows
  <2>3. \A i \in 1 .. n : j <= i => Follows(q[i], o)
    <3> SUFFICES ASSUME NEW i \in 1 .. n, j <= i PROVE Follows(q[i], o)
      OBVIOUS
    <3>1. j \in 1 .. n /\ Follows(q[j], o)
      BY <1>1, <1>5
    <3>2. i = j \/ Follows(q[i], q[j])
      BY <1>1, <2>1, <3>1
    <3> QED BY <1>2, <3>1, <3>2, OneFollows
  <2>4. ASSUME NEW i \in 1 .. n + 1, NEW k \in 1 .. n + 1, i < k
        PROVE  Follows(u[k], u[i])
    <3>0. i \in Int /\ k \in Int /\ j \in Int /\ n \in Nat
      BY <1>1, <1>5
    <3>1. CASE k < j
      <4>1. i \in 1 .. n /\ k \in 1 .. n /\ u[i] = q[i] /\ u[k] = q[k]
        BY <1>11, <2>4, <3>0, <3>1
      <4> QED BY <2>1, <2>4, <4>1
    <3>2. CASE k = j
      <4>1. i \in 1 .. n /\ i < j /\ u[i] = q[i] /\ u[k] = o
        BY <1>11, <2>4, <3>0, <3>2
      <4> QED BY <2>2, <4>1
    <3>3. CASE j < k /\ i < j
      <4>1. i \in 1 .. n /\ k - 1 \in 1 .. n /\ u[i] = q[i] /\ u[k] = q[k - 1] /\ i < k - 1
        BY <1>11, <3>0, <3>3
      <4> QED BY <2>1, <4>1
    <3>4. CASE j < k /\ i = j
      <4>1. k - 1 \in 1 .. n /\ j <= k - 1 /\ u[i] = o /\ u[k] = q[k - 1]
        BY <1>11, <3>0, <3>4
      <4> QED BY <2>3, <4>1
    <3>5. CASE j < i
      <4>1. i - 1 \in 1 .. n /\ k - 1 \in 1 .. n /\ u[i] = q[i - 1] /\ u[k] = q[k - 1] /\ i - 1 < k - 1
        BY <1>11, <2>4, <3>0, <3>5
      <4> QED BY <2>1, <4>1
    <3> QED BY <3>0, <3>1, <3>2, <3>3, <3>4, <3>5
  <2> QED BY <1>6, <2>4 DEF InOrder
<1> QED BY <1>0, <1>10, <1>13, <1>14, <1>15, <1>16
-----------------------------------------------------------------------------
(***************************************************************************)
(* Quantities of sets of orders.                                           *)
(***************************************************************************)

\* w weighs the orders X, which are finite in number, by their ids.
Weighs(w, X) ==
    /\ IsFiniteSet(X)
    /\ X \subseteq Offers
    /\ \A o \in X : w[o.id] = o.qty
    /\ \A o, p \in X : o.id = p.id => o = p

IdsOf(X)       == {o.id : o \in X}
Quantity(w, X) == SumFunctionOnSet(w, IdsOf(X))

\* The orders of X at the price p or below, and at p or above.
Cheap(X, p) == {o \in X : o.price <= p}
Dear(X, p)  == {o \in X : o.price >= p}

\* Some of the orders are weighed too.
LEMMA WeighsSome ==
  ASSUME NEW w, NEW X, Weighs(w, X), NEW Y \in SUBSET X
  PROVE  Weighs(w, Y)
<1>1. IsFiniteSet(Y)
  BY FS_Subset DEF Weighs
<1> QED BY <1>1 DEF Weighs

\* The ids are as finite, and weighed by natural numbers.
LEMMA IdsAre ==
  ASSUME NEW w, NEW X, Weighs(w, X)
  PROVE  IsFiniteSet(IdsOf(X)) /\ \A i \in IdsOf(X) : w[i] \in Nat \ {0}
<1>1. IsFiniteSet(X)
  BY DEF Weighs
<1>2. IsFiniteSet(IdsOf(X))
  <2> DEFINE f == [o \in X |-> o.id]
  <2>1. f \in Surjection(X, IdsOf(X))
    BY DEF Surjection, IdsOf
  <2> HIDE DEF f
  <2> QED BY <1>1, <2>1, FS_Surjection, Zenon
<1>3. \A o \in X : w[o.id] \in Nat \ {0}
  BY DEF Weighs, Offers
<1> QED BY <1>2, <1>3 DEF IdsOf

\* The quantity of some orders is a natural number.
LEMMA QuantityNat ==
  ASSUME NEW w, NEW X, Weighs(w, X)
  PROVE  Quantity(w, X) \in Nat
BY IdsAre, SumNat DEF Quantity

\* Fewer orders have no greater a quantity.
LEMMA QuantityUpTo ==
  ASSUME NEW w, NEW X, Weighs(w, X), NEW Y \in SUBSET X
  PROVE  Quantity(w, Y) <= Quantity(w, X)
<1>1. IsFiniteSet(IdsOf(X)) /\ \A i \in IdsOf(X) : w[i] \in Nat
  BY IdsAre
<1>2. IdsOf(Y) \in SUBSET IdsOf(X)
  BY DEF IdsOf
<1>3. \A i \in IdsOf(Y) : w[i] \in Nat /\ w[i] <= w[i]
  BY <1>1, <1>2
<1> QED BY <1>1, <1>2, <1>3, SumUpTo DEF Quantity

\* No orders, no quantity.
LEMMA QuantityEmpty == ASSUME NEW w PROVE Quantity(w, {}) = 0
<1>1. IdsOf({}) = {}
  BY DEF IdsOf
<1> QED BY <1>1, SumEmpty DEF Quantity

\* One more order adds its quantity.
LEMMA QuantityMore ==
  ASSUME NEW w, NEW X, NEW o, o \notin X, Weighs(w, X \cup {o})
  PROVE  Quantity(w, X \cup {o}) = o.qty + Quantity(w, X)
<1>1. IdsOf(X \cup {o}) = IdsOf(X) \cup {o.id}
  BY DEF IdsOf
<1>2. o.id \notin IdsOf(X)
  BY DEF IdsOf, Weighs
<1>3. Weighs(w, X)
  BY WeighsSome
<1>4. IsFiniteSet(IdsOf(X))
  BY <1>3, IdsAre
<1>5. \A i \in IdsOf(X) \cup {o.id} : w[i] \in Int
  BY <1>1, IdsAre
<1>6. w[o.id] = o.qty
  BY DEF Weighs
<1>7. SumFunctionOnSet(w, IdsOf(X) \cup {o.id}) = w[o.id] + SumFunctionOnSet(w, IdsOf(X))
  BY <1>2, <1>4, <1>5, SumAdd, Zenon
<1> QED BY <1>1, <1>6, <1>7, Zenon DEF Quantity

\* What one more order adds at the price p or below: its quantity, or nothing.
CheapMoreBy(w, X, o, p) == Quantity(w, Cheap(X \cup {o}, p)) = o.qty + Quantity(w, Cheap(X, p))
CheapStays(w, X, o, p)  == Quantity(w, Cheap(X \cup {o}, p)) = Quantity(w, Cheap(X, p))

LEMMA CheapMore ==
  ASSUME NEW w, NEW X, NEW o, o \notin X, Weighs(w, X \cup {o}), NEW p, o \in Cheap({o}, p)
  PROVE  CheapMoreBy(w, X, o, p)
<1>1. Cheap(X \cup {o}, p) = Cheap(X, p) \cup {o} /\ o \notin Cheap(X, p)
  BY DEF Cheap
<1>2. Weighs(w, Cheap(X, p) \cup {o})
  BY <1>1, WeighsSome DEF Cheap
<1> QED BY <1>1, <1>2, QuantityMore, Zenon DEF CheapMoreBy

LEMMA CheapSame ==
  ASSUME NEW w, NEW X, NEW o, NEW p, o \notin Cheap({o}, p)
  PROVE  CheapStays(w, X, o, p)
<1>1. Cheap(X \cup {o}, p) = Cheap(X, p)
  BY DEF Cheap
<1> QED BY <1>1, Zenon DEF CheapStays

\* What one more order adds at the price p or above: its quantity, or nothing.
DearMoreBy(w, X, o, p) == Quantity(w, Dear(X \cup {o}, p)) = o.qty + Quantity(w, Dear(X, p))
DearStays(w, X, o, p)  == Quantity(w, Dear(X \cup {o}, p)) = Quantity(w, Dear(X, p))

LEMMA DearMore ==
  ASSUME NEW w, NEW X, NEW o, o \notin X, Weighs(w, X \cup {o}), NEW p, o \in Dear({o}, p)
  PROVE  DearMoreBy(w, X, o, p)
<1>1. Dear(X \cup {o}, p) = Dear(X, p) \cup {o} /\ o \notin Dear(X, p)
  BY DEF Dear
<1>2. Weighs(w, Dear(X, p) \cup {o})
  BY <1>1, WeighsSome DEF Dear
<1> QED BY <1>1, <1>2, QuantityMore, Zenon DEF DearMoreBy

LEMMA DearSame ==
  ASSUME NEW w, NEW X, NEW o, NEW p, o \notin Dear({o}, p)
  PROVE  DearStays(w, X, o, p)
<1>1. Dear(X \cup {o}, p) = Dear(X, p)
  BY DEF Dear
<1> QED BY <1>1, Zenon DEF DearStays

-----------------------------------------------------------------------------
(***************************************************************************)
(* The two sides of the table, before the merge.                           *)
(***************************************************************************)

PricesIn(X)    == {o.price : o \in X}
TablePrices(t) == {t[k].price : k \in 1 .. Len(t)}

\* The table t of the asks X, and the aggregates g of the bids X.
SupplyIs(t, w, X) ==
    /\ TablePrices(t) = PricesIn(X)
    /\ \A k \in 1 .. Len(t) : t[k].supply = Quantity(w, Cheap(X, t[k].price))

WantedIs(g, w, X) ==
    /\ TablePrices(g) = PricesIn(X)
    /\ \A k \in 1 .. Len(g) : g[k].qty = Quantity(w, Dear(X, g[k].price))

\* The table u is t and an ask on top, or added to the last entry.
AskOnTop(u, t, ask) ==
    /\ Len(u) \in Nat \ {0}
    /\ u[Len(u)].price = ask.price
    /\ u[Len(u)].supply = t[Len(t)].supply + ask.qty
    /\ \A k \in 1 .. Len(u) - 1 : k \in 1 .. Len(t) /\ u[k] = t[k] /\ t[k].price < ask.price
    /\ TablePrices(u) = TablePrices(t) \cup {ask.price}

LEMMA AskAdded ==
  ASSUME NEW t, NEW low, NEW high, IsAskTable(t, low, high),
         NEW ask \in Offers, high <= ask.price
  PROVE  AskOnTop(AddAsk(t, ask), t, ask)
<1> DEFINE n == Len(t)
<1>1. /\ n \in Nat \ {0} /\ t \in Seq(Entries) /\ t # <<>> /\ Last(t) = t[n] /\ t[n] \in Entries
      /\ t[n].price = high
  BY DEF IsAskTable, Last
<1>2. \A k \in 1 .. n : t[k] \in Entries /\ t[k].price \in Nat
  <2>1. \A k \in 1 .. n : t[k] \in Entries
    BY <1>1
  <2> QED BY <2>1 DEF Entries
<1>3. \A k \in 1 .. n - 1 : t[k].price < t[n].price
  BY <1>1 DEF IsAskTable
<1>4. ask.price \in Nat /\ ask.qty \in Nat /\ t[n].supply \in Nat
  BY <1>1 DEF Offers, Entries
<1>5. CASE high = ask.price
  <2> DEFINE s == t[n].supply + ask.qty
             e == [t[n] EXCEPT !.supply = s]
             u == [t EXCEPT ![n] = e]
  <2>1. AddAsk(t, ask) = u
    BY <1>1, <1>5 DEF AddAsk
  <2>2. s \in Nat
    BY <1>4
  <2>3. e \in Entries /\ e.price = t[n].price /\ e.supply = s
    BY <1>1, <2>2, Zenon DEF Entries
  <2> HIDE DEF e, s
  <2>4. Len(u) = n /\ \A k \in 1 .. n : u[k] = IF k = n THEN e ELSE t[k]
    BY <1>1, <2>3
  <2> HIDE DEF u
  <2>5. \A k \in 1 .. n : u[k].price = t[k].price
    BY <2>3, <2>4
  <2>6. TablePrices(u) = TablePrices(t)
    BY <2>4, <2>5 DEF TablePrices
  <2>7. ask.price \in TablePrices(t)
    BY <1>1, <1>5 DEF TablePrices
  <2>8. u[n].price = ask.price /\ u[n].supply = t[n].supply + ask.qty
    <3>1. u[n] = e
      BY <1>1, <2>4
    <3> QED BY <1>1, <1>5, <2>3, <3>1 DEF s
  <2>9. \A k \in 1 .. n - 1 : k \in 1 .. n /\ u[k] = t[k] /\ t[k].price < ask.price
    BY <1>1, <1>3, <1>5, <2>4
  <2>10. TablePrices(u) = TablePrices(t) \cup {ask.price}
    BY <2>6, <2>7
  <2> QED BY <1>1, <2>1, <2>4, <2>8, <2>9, <2>10 DEF AskOnTop
<1>6. CASE high # ask.price
  <2> DEFINE s == ask.qty + t[n].supply
             e == [price |-> ask.price, supply |-> s, demand |-> 0]
             u == Append(t, e)
  <2>1. AddAsk(t, ask) = u
    BY <1>1, <1>6 DEF AddAsk
  <2>2. s = t[n].supply + ask.qty /\ s \in Nat
    BY <1>4
  <2>3. e \in Entries /\ e.price = ask.price /\ e.supply = s
    BY <1>4, <2>2, Zenon DEF Entries
  <2> HIDE DEF e, s
  <2>4. Len(u) = n + 1 /\ \A k \in 1 .. n + 1 : u[k] = IF k = n + 1 THEN e ELSE t[k]
    BY <1>1, <2>3
  <2> HIDE DEF u
  <2>5. u[n + 1].price = ask.price /\ u[n + 1].supply = t[n].supply + ask.qty
    <3>1. u[n + 1] = e
      BY <1>1, <2>4
    <3> QED BY <2>2, <2>3, <3>1
  <2>6. \A k \in 1 .. n : u[k] = t[k]
    BY <1>1, <2>4
  <2>7. \A k \in 1 .. n : t[k].price < ask.price
    BY <1>1, <1>2, <1>3, <1>4, <1>6
  <2>8. TablePrices(u) = TablePrices(t) \cup {ask.price}
    <3>1. 1 .. n + 1 = (1 .. n) \cup {n + 1}
      BY <1>1
    <3>2. TablePrices(u) = {u[k].price : k \in (1 .. n) \cup {n + 1}}
      BY <2>4, <3>1 DEF TablePrices
    <3>3. TablePrices(t) = {u[k].price : k \in 1 .. n}
      BY <2>6 DEF TablePrices
    <3> HIDE DEF n
    <3> QED BY <2>5, <3>2, <3>3
  <2>9. (n + 1) - 1 = n /\ n + 1 \in Nat \ {0}
    BY <1>1
  <2> QED BY <2>1, <2>4, <2>5, <2>6, <2>7, <2>8, <2>9 DEF AskOnTop
<1> QED BY <1>5, <1>6

\* The table of one ask shows its supply.
LEMMA FirstSupply ==
  ASSUME NEW w, NEW ask \in Offers, Weighs(w, {ask})
  PROVE  SupplyIs(AddAsk(<<>>, ask), w, {ask})
<1> DEFINE u == AddAsk(<<>>, ask)
           e == [price |-> ask.price, supply |-> ask.qty, demand |-> 0]
<1>1. u = <<e>>
  BY DEF AddAsk, Offers
<1>2. e.price = ask.price /\ e.supply = ask.qty
  OBVIOUS
<1> HIDE DEF e
<1>3. Len(u) = 1 /\ u[1].price = ask.price /\ u[1].supply = ask.qty
  BY <1>1, <1>2
<1> HIDE DEF u
<1>4. ask.price \in Nat /\ ask.qty \in Nat
  BY DEF Offers
<1>5. Cheap({}, ask.price) = {} /\ {} \cup {ask} = {ask}
  BY DEF Cheap
<1>6. Quantity(w, Cheap({ask}, ask.price)) = ask.qty
  <2>1. Quantity(w, Cheap({} \cup {ask}, ask.price)) = ask.qty + Quantity(w, Cheap({}, ask.price))
    <3>1. ask \notin {} /\ Weighs(w, {} \cup {ask}) /\ ask \in Cheap({ask}, ask.price)
      BY <1>4, <1>5 DEF Cheap
    <3>2. CheapMoreBy(w, {}, ask, ask.price)
      BY <3>1, CheapMore, Zenon
    <3> QED BY <3>2, Zenon DEF CheapMoreBy
  <2>2. Quantity(w, Cheap({}, ask.price)) = 0
    BY <1>5, QuantityEmpty, Zenon
  <2>3. Quantity(w, Cheap({ask}, ask.price)) = ask.qty + 0
    BY <1>5, <2>1, <2>2, Zenon
  <2> QED BY <1>4, <2>3
<1>7. TablePrices(u) = PricesIn({ask})
  <2>1. 1 .. 1 = {1}
    OBVIOUS
  <2> QED BY <1>3, <2>1 DEF TablePrices, PricesIn
<1>8. \A k \in 1 .. Len(u) : u[k].supply = Quantity(w, Cheap({ask}, u[k].price))
  <2>1. \A k \in 1 .. Len(u) : k = 1
    BY <1>3
  <2> QED BY <1>3, <1>6, <2>1, Zenon
<1> QED BY <1>7, <1>8, Zenon DEF SupplyIs, u

\* The next ask, which is no cheaper, adds its supply.
LEMMA NextSupply ==
  ASSUME NEW w, NEW X, NEW t, NEW low, NEW high, IsAskTable(t, low, high), SupplyIs(t, w, X),
         NEW ask \in Offers, high <= ask.price, ask \notin X, Weighs(w, X \cup {ask})
  PROVE  SupplyIs(AddAsk(t, ask), w, X \cup {ask})
<1> DEFINE u == AddAsk(t, ask)
           n == Len(t)
           m == Len(u)
           Y == X \cup {ask}
<1>1. AskOnTop(u, t, ask)
  BY AskAdded
<1>2. n \in 1 .. n /\ t[n].price = high /\ \A k \in 1 .. n : t[k] \in Entries
  BY DEF IsAskTable
<1>3. ask.price \in Nat /\ ask.qty \in Nat /\ high \in Nat
  BY <1>2 DEF Offers, Entries
<1>4. \A o \in X : o.price <= high
  <2> SUFFICES ASSUME NEW o \in X PROVE o.price <= high
    OBVIOUS
  <2>1. PICK k \in 1 .. n : o.price = t[k].price
    <3>1. o.price \in TablePrices(t)
      BY DEF SupplyIs, PricesIn
    <3> QED BY <3>1 DEF TablePrices
  <2>2. k = n \/ t[k].price < t[n].price
    BY <1>2 DEF IsAskTable
  <2> QED BY <1>2, <1>3, <2>1, <2>2 DEF Entries
<1>5. \A o \in X : o.price \in Nat
  BY DEF Weighs, Offers
<1>6. Cheap(X, ask.price) = Cheap(X, high)
  BY <1>3, <1>4, <1>5 DEF Cheap
<1>7. t[n].supply = Quantity(w, Cheap(X, high))
  BY <1>2 DEF SupplyIs
<1> HIDE DEF u
<1>8. \A k \in 1 .. n : t[k].price \in Nat /\ t[k].supply \in Nat
  BY <1>2 DEF Entries
<1>9. m \in Nat \ {0}
  BY <1>1 DEF AskOnTop
<1>10. ASSUME NEW k \in 1 .. m PROVE u[k].supply = Quantity(w, Cheap(Y, u[k].price))
  <2>1. CASE k = m
    <3>1. u[k].price = ask.price /\ u[k].supply = t[n].supply + ask.qty
      BY <1>1, <2>1 DEF AskOnTop
    <3>2. Quantity(w, Cheap(Y, ask.price)) = ask.qty + Quantity(w, Cheap(X, ask.price))
      <4>1. ask \in Cheap({ask}, ask.price)
        BY <1>3 DEF Cheap
      <4>2. CheapMoreBy(w, X, ask, ask.price)
        BY <4>1, CheapMore, Zenon
      <4> QED BY <4>2, Zenon DEF CheapMoreBy
    <3>3. Quantity(w, Cheap(Y, ask.price)) = ask.qty + t[n].supply
      BY <1>6, <1>7, <3>2, Zenon
    <3>4. ask.qty + t[n].supply = t[n].supply + ask.qty
      BY <1>2, <1>3, <1>8
    <3> QED BY <3>1, <3>3, <3>4, Zenon
  <2>2. CASE k # m
    <3>1. k \in 1 .. n /\ u[k] = t[k] /\ t[k].price < ask.price
      <4>1. k \in 1 .. m - 1
        BY <1>9, <2>2
      <4> QED BY <1>1, <4>1 DEF AskOnTop
    <3>2. t[k].price \in Nat /\ t[k].supply \in Nat /\ t[k].supply = Quantity(w, Cheap(X, t[k].price))
      BY <1>8, <3>1 DEF SupplyIs
    <3>3. ask \notin Cheap({ask}, t[k].price)
      BY <1>3, <3>1, <3>2 DEF Cheap
    <3>4. Quantity(w, Cheap(Y, t[k].price)) = Quantity(w, Cheap(X, t[k].price))
      <4>1. CheapStays(w, X, ask, t[k].price)
        BY <3>3, CheapSame, Zenon
      <4> QED BY <4>1, Zenon DEF CheapStays
    <3> QED BY <3>1, <3>2, <3>4, Zenon
  <2> QED BY <2>1, <2>2
<1>11. TablePrices(u) = PricesIn(Y)
  <2>1. TablePrices(u) = PricesIn(X) \cup {ask.price}
    BY <1>1 DEF AskOnTop, SupplyIs
  <2>2. PricesIn(Y) = PricesIn(X) \cup {ask.price}
    BY DEF PricesIn
  <2> QED BY <2>1, <2>2
<1> HIDE DEF Y
<1>12. SupplyIs(u, w, Y)
  BY <1>10, <1>11 DEF SupplyIs
<1> QED BY <1>12 DEF u, Y

\* The aggregates u are g and a bid in front, or added to the first entry.
BidInFront(u, g, bid) ==
    /\ Len(u) \in Nat \ {0}
    /\ u[1].price = bid.price
    /\ u[1].qty = g[1].qty + bid.qty
    /\ \A k \in 2 .. Len(u) : \E l \in 1 .. Len(g) : u[k] = g[l] /\ bid.price < g[l].price
    /\ TablePrices(u) = TablePrices(g) \cup {bid.price}

LEMMA BidAdded ==
  ASSUME NEW g, NEW low, NEW high, IsAggregates(g, low, high),
         NEW bid \in Offers, bid.price <= low
  PROVE  BidInFront(AddBid(g, bid), g, bid)
<1> DEFINE n == Len(g)
<1>1. n \in Nat \ {0} /\ g \in Seq(Wants) /\ g # <<>> /\ Head(g) = g[1] /\ g[1].price = low
  BY DEF IsAggregates
<1>2. \A k \in 1 .. n : g[k] \in Wants /\ g[k].price \in Nat /\ g[k].qty \in Nat
  <2>1. \A k \in 1 .. n : g[k] \in Wants
    BY <1>1
  <2> QED BY <2>1 DEF Wants
<1>3. \A k \in 2 .. n : k \in 1 .. n /\ g[1].price < g[k].price
  BY <1>1 DEF IsAggregates
<1>4. bid.price \in Nat /\ bid.qty \in Nat \ {0} /\ 1 \in 1 .. n
  BY <1>1 DEF Offers
<1>5. CASE low = bid.price
  <2> DEFINE s == g[1].qty + bid.qty
             e == [g[1] EXCEPT !.qty = s]
             u == [g EXCEPT ![1] = e]
  <2>1. AddBid(g, bid) = u
    BY <1>1, <1>5 DEF AddBid
  <2>2. s \in Nat \ {0}
    BY <1>2, <1>4
  <2>3. e \in Wants /\ e.price = g[1].price /\ e.qty = s
    BY <1>2, <1>4, <2>2, Zenon DEF Wants
  <2> HIDE DEF e, s
  <2>4. Len(u) = n /\ \A k \in 1 .. n : u[k] = IF k = 1 THEN e ELSE g[k]
    BY <1>1, <2>3
  <2> HIDE DEF u
  <2>5. \A k \in 1 .. n : u[k].price = g[k].price
    BY <2>3, <2>4
  <2>6. TablePrices(u) = TablePrices(g)
    BY <2>4, <2>5 DEF TablePrices
  <2>7. bid.price \in TablePrices(g)
    BY <1>1, <1>4, <1>5 DEF TablePrices
  <2>8. u[1].price = bid.price /\ u[1].qty = g[1].qty + bid.qty
    <3>1. u[1] = e
      BY <1>4, <2>4
    <3> QED BY <1>1, <1>5, <2>3, <3>1 DEF s
  <2>9. ASSUME NEW k \in 2 .. n
        PROVE  \E l \in 1 .. n : u[k] = g[l] /\ bid.price < g[l].price
    <3>1. k \in 1 .. n /\ k # 1 /\ bid.price < g[k].price
      BY <1>1, <1>3, <1>5
    <3>2. u[k] = g[k]
      BY <2>4, <3>1
    <3> QED BY <3>1, <3>2
  <2>10. TablePrices(u) = TablePrices(g) \cup {bid.price}
    BY <2>6, <2>7
  <2> QED BY <1>1, <2>1, <2>4, <2>8, <2>9, <2>10 DEF BidInFront
<1>6. CASE low # bid.price
  <2> DEFINE s == bid.qty + g[1].qty
             e == [price |-> bid.price, qty |-> s]
             u == Cons(e, g)
  <2>1. AddBid(g, bid) = u
    BY <1>1, <1>6 DEF AddBid
  <2>2. s = g[1].qty + bid.qty /\ s \in Nat \ {0}
    BY <1>2, <1>4
  <2>3. e \in Wants /\ e.price = bid.price /\ e.qty = s
    BY <1>4, <2>2, Zenon DEF Wants
  <2> HIDE DEF e, s
  <2>4. Len(u) = n + 1 /\ \A k \in 1 .. n + 1 : u[k] = IF k = 1 THEN e ELSE g[k - 1]
    BY <1>1, <2>3, InFront
  <2> HIDE DEF u
  <2>5. u[1].price = bid.price /\ u[1].qty = g[1].qty + bid.qty
    <3>1. u[1] = e
      BY <1>1, <2>4
    <3> QED BY <2>2, <2>3, <3>1
  <2>6. \A k \in 2 .. n + 1 : u[k] = g[k - 1] /\ k - 1 \in 1 .. n
    BY <1>1, <2>4
  <2>7. \A k \in 1 .. n : bid.price < g[k].price
    BY <1>1, <1>2, <1>3, <1>4, <1>6
  <2>8. TablePrices(u) = TablePrices(g) \cup {bid.price}
    <3>1. ASSUME NEW k \in 1 .. n + 1 PROVE u[k].price \in TablePrices(g) \cup {bid.price}
      <4>1. CASE k = 1
        BY <2>5, <4>1
      <4>2. CASE k # 1
        <5>1. u[k] = g[k - 1] /\ k - 1 \in 1 .. n
          BY <1>1, <2>6, <4>2
        <5>2. u[k].price \in TablePrices(g)
          BY <5>1 DEF TablePrices
        <5> QED BY <5>2
      <4> QED BY <4>1, <4>2
    <3>2. ASSUME NEW k \in 1 .. n PROVE g[k].price \in TablePrices(u)
      <4>1. k + 1 \in 2 .. n + 1 /\ (k + 1) - 1 = k /\ k + 1 \in 1 .. Len(u)
        BY <1>1, <2>4
      <4>2. u[k + 1] = g[k]
        BY <2>6, <4>1
      <4>3. u[k + 1].price \in TablePrices(u)
        BY <4>1 DEF TablePrices
      <4> QED BY <4>2, <4>3
    <3>3. bid.price \in TablePrices(u)
      <4>1. 1 \in 1 .. Len(u)
        BY <1>1, <2>4
      <4> QED BY <2>5, <4>1 DEF TablePrices
    <3>4. TablePrices(u) \subseteq TablePrices(g) \cup {bid.price}
      BY <2>4, <3>1 DEF TablePrices
    <3>5. TablePrices(g) \subseteq TablePrices(u)
      <4>1. TablePrices(g) = {g[k].price : k \in 1 .. n}
        BY DEF TablePrices
      <4> QED BY <3>2, <4>1
    <3> QED BY <3>3, <3>4, <3>5
  <2>9. \A k \in 2 .. n + 1 : \E l \in 1 .. n : u[k] = g[l] /\ bid.price < g[l].price
    BY <2>6, <2>7
  <2>10. n + 1 \in Nat \ {0}
    BY <1>1
  <2> QED BY <2>1, <2>4, <2>5, <2>8, <2>9, <2>10 DEF BidInFront
<1> QED BY <1>5, <1>6

\* The aggregates of one bid show what it wants.
LEMMA FirstWanted ==
  ASSUME NEW w, NEW bid \in Offers, Weighs(w, {bid})
  PROVE  WantedIs(AddBid(<<>>, bid), w, {bid})
<1> DEFINE u == AddBid(<<>>, bid)
           e == [price |-> bid.price, qty |-> bid.qty + 0]
<1>1. u = <<e>>
  <2>1. u = <<e>> \o <<>>
    BY DEF AddBid, Cons
  <2> HIDE DEF e, u
  <2> QED BY <2>1
<1>2. e.price = bid.price /\ e.qty = bid.qty
  BY DEF Offers
<1> HIDE DEF e
<1>3. Len(u) = 1 /\ u[1].price = bid.price /\ u[1].qty = bid.qty
  BY <1>1, <1>2
<1> HIDE DEF u
<1>4. bid.price \in Nat /\ bid.qty \in Nat
  BY DEF Offers
<1>5. Dear({}, bid.price) = {} /\ {} \cup {bid} = {bid}
  BY DEF Dear
<1>6. Quantity(w, Dear({bid}, bid.price)) = bid.qty
  <2>1. Quantity(w, Dear({} \cup {bid}, bid.price)) = bid.qty + Quantity(w, Dear({}, bid.price))
    <3>1. bid \notin {} /\ Weighs(w, {} \cup {bid}) /\ bid \in Dear({bid}, bid.price)
      BY <1>4, <1>5 DEF Dear
    <3>2. DearMoreBy(w, {}, bid, bid.price)
      BY <3>1, DearMore, Zenon
    <3> QED BY <3>2, Zenon DEF DearMoreBy
  <2>2. Quantity(w, Dear({}, bid.price)) = 0
    BY <1>5, QuantityEmpty, Zenon
  <2>3. Quantity(w, Dear({bid}, bid.price)) = bid.qty + 0
    BY <1>5, <2>1, <2>2, Zenon
  <2> QED BY <1>4, <2>3
<1>7. TablePrices(u) = PricesIn({bid})
  <2>1. 1 .. 1 = {1}
    OBVIOUS
  <2> QED BY <1>3, <2>1 DEF TablePrices, PricesIn
<1>8. \A k \in 1 .. Len(u) : u[k].qty = Quantity(w, Dear({bid}, u[k].price))
  <2>1. \A k \in 1 .. Len(u) : k = 1
    BY <1>3
  <2> QED BY <1>3, <1>6, <2>1, Zenon
<1> QED BY <1>7, <1>8, Zenon DEF WantedIs, u

\* The next bid, which offers no more, adds what it wants.
LEMMA NextWanted ==
  ASSUME NEW w, NEW X, NEW g, NEW low, NEW high, IsAggregates(g, low, high), WantedIs(g, w, X),
         NEW bid \in Offers, bid.price <= low, bid \notin X, Weighs(w, X \cup {bid})
  PROVE  WantedIs(AddBid(g, bid), w, X \cup {bid})
<1> DEFINE u == AddBid(g, bid)
           n == Len(g)
           m == Len(u)
           Y == X \cup {bid}
<1>1. BidInFront(u, g, bid)
  BY BidAdded
<1>2. 1 \in 1 .. n /\ g[1].price = low /\ \A k \in 1 .. n : g[k] \in Wants
  BY DEF IsAggregates
<1>3. bid.price \in Nat /\ bid.qty \in Nat /\ low \in Nat
  BY <1>2 DEF Offers, Wants
<1>4. \A o \in X : low <= o.price
  <2> SUFFICES ASSUME NEW o \in X PROVE low <= o.price
    OBVIOUS
  <2>1. PICK k \in 1 .. n : o.price = g[k].price
    <3>1. o.price \in TablePrices(g)
      BY DEF WantedIs, PricesIn
    <3> QED BY <3>1 DEF TablePrices
  <2>2. k = 1 \/ g[1].price < g[k].price
    BY <1>2 DEF IsAggregates
  <2> QED BY <1>2, <1>3, <2>1, <2>2 DEF Wants
<1>5. \A o \in X : o.price \in Nat
  BY DEF Weighs, Offers
<1>6. Dear(X, bid.price) = Dear(X, low)
  BY <1>3, <1>4, <1>5 DEF Dear
<1>7. g[1].qty = Quantity(w, Dear(X, low))
  BY <1>2 DEF WantedIs
<1> HIDE DEF u
<1>8. \A k \in 1 .. n : g[k].price \in Nat /\ g[k].qty \in Nat
  BY <1>2 DEF Wants
<1>9. m \in Nat \ {0}
  BY <1>1 DEF BidInFront
<1>10. ASSUME NEW k \in 1 .. m PROVE u[k].qty = Quantity(w, Dear(Y, u[k].price))
  <2>1. CASE k = 1
    <3>1. u[k].price = bid.price /\ u[k].qty = g[1].qty + bid.qty
      BY <1>1, <2>1 DEF BidInFront
    <3>2. Quantity(w, Dear(Y, bid.price)) = bid.qty + Quantity(w, Dear(X, bid.price))
      <4>1. bid \in Dear({bid}, bid.price)
        BY <1>3 DEF Dear
      <4>2. DearMoreBy(w, X, bid, bid.price)
        BY <4>1, DearMore, Zenon
      <4> QED BY <4>2, Zenon DEF DearMoreBy
    <3>3. Quantity(w, Dear(Y, bid.price)) = bid.qty + g[1].qty
      BY <1>6, <1>7, <3>2, Zenon
    <3>4. bid.qty + g[1].qty = g[1].qty + bid.qty
      BY <1>2, <1>3, <1>8
    <3> QED BY <3>1, <3>3, <3>4, Zenon
  <2>2. CASE k # 1
    <3>1. PICK l \in 1 .. n : u[k] = g[l] /\ bid.price < g[l].price
      <4>1. k \in 2 .. m
        BY <1>9, <2>2
      <4> QED BY <1>1, <4>1 DEF BidInFront
    <3>2. g[l].price \in Nat /\ g[l].qty = Quantity(w, Dear(X, g[l].price))
      BY <1>8 DEF WantedIs
    <3>3. bid \notin Dear({bid}, g[l].price)
      BY <1>3, <3>1, <3>2 DEF Dear
    <3>4. Quantity(w, Dear(Y, g[l].price)) = Quantity(w, Dear(X, g[l].price))
      <4>1. DearStays(w, X, bid, g[l].price)
        BY <3>3, DearSame, Zenon
      <4> QED BY <4>1, Zenon DEF DearStays
    <3> QED BY <3>1, <3>2, <3>4, Zenon
  <2> QED BY <2>1, <2>2
<1>11. TablePrices(u) = PricesIn(Y)
  <2>1. TablePrices(u) = PricesIn(X) \cup {bid.price}
    BY <1>1 DEF BidInFront, WantedIs
  <2>2. PricesIn(Y) = PricesIn(X) \cup {bid.price}
    BY DEF PricesIn
  <2> QED BY <2>1, <2>2
<1> HIDE DEF Y
<1>12. WantedIs(u, w, Y)
  BY <1>10, <1>11 DEF WantedIs
<1> QED BY <1>12 DEF u, Y

\* The first i orders of q, and the next one, which is another.
FirstOf(q, i) == {q[k] : k \in 1 .. i}

LEMMA OneMore ==
  ASSUME NEW q \in Seq(Offers), Distinct(q), NEW i \in 0 .. Len(q) - 1
  PROVE  /\ q[i + 1] \notin FirstOf(q, i)
         /\ FirstOf(q, i + 1) = FirstOf(q, i) \cup {q[i + 1]}
         /\ FirstOf(q, i + 1) \subseteq InBook(q)
<1>1. Len(q) \in Nat /\ i + 1 \in 1 .. Len(q) /\ i \in Nat
  OBVIOUS
<1>2. \A k \in 1 .. i : k \in 1 .. Len(q) /\ k # i + 1
  BY <1>1
<1>3. \A k \in 1 .. i : q[k].id # q[i + 1].id
  BY <1>1, <1>2 DEF Distinct
<1>4. 1 .. i + 1 = (1 .. i) \cup {i + 1}
  BY <1>1
<1>5. FirstOf(q, i + 1) = FirstOf(q, i) \cup {q[i + 1]}
  BY <1>4 DEF FirstOf
<1>6. FirstOf(q, i + 1) \subseteq InBook(q)
  BY <1>1 DEF FirstOf, InBook
<1> QED BY <1>3, <1>5, <1>6 DEF FirstOf

\* The ask table shows what the asks of a book supply.
LEMMA AskTableShows ==
  ASSUME NEW q, IsBook(q), Distinct(q), NEW w, Weighs(w, InBook(q))
  PROVE  SupplyIs(AskTable(q), w, InBook(q))
<1> DEFINE n == Len(q)
<1>1. /\ n \in Nat \ {0} /\ DOMAIN q = 1 .. n /\ q \in Seq(Offers)
      /\ \A i \in 1 .. n : q[i] \in Offers
  BY DEF IsBook
<1>0. IsBook(q) /\ Len(q) = n
  OBVIOUS
<1>2. \A i \in 0 .. n - 1 : /\ q[i + 1] \notin FirstOf(q, i)
                            /\ FirstOf(q, i + 1) = FirstOf(q, i) \cup {q[i + 1]}
                            /\ Weighs(w, FirstOf(q, i + 1))
  <2> SUFFICES ASSUME NEW i \in 0 .. n - 1
               PROVE  /\ q[i + 1] \notin FirstOf(q, i)
                      /\ FirstOf(q, i + 1) = FirstOf(q, i) \cup {q[i + 1]}
                      /\ Weighs(w, FirstOf(q, i + 1))
    BY Zenon
  <2>1. /\ q[i + 1] \notin FirstOf(q, i)
        /\ FirstOf(q, i + 1) = FirstOf(q, i) \cup {q[i + 1]}
        /\ FirstOf(q, i + 1) \subseteq InBook(q)
    BY <1>1, OneMore
  <2>2. Weighs(w, FirstOf(q, i + 1))
    BY <2>1, WeighsSome
  <2> QED BY <2>1, <2>2, Zenon
<1> HIDE DEF n
<1>3. PICK r : /\ r[0] = <<>>
               /\ \A i \in 1 .. n : r[i] = AddAsk(r[i - 1], q[i])
               /\ r[n] = AskTable(q)
  <2>1. PICK r : Asking!Runs(r, 0, <<>>, q, n)
    BY <1>1, Asking!FoldRuns, Zenon
  <2> QED BY <2>1, AskTableIsFold DEF Asking!Runs, AskStep
<1> DEFINE T == {i \in 0 .. n : i > 0 => /\ IsAskTable(r[i], q[1].price, q[i].price)
                                        /\ SupplyIs(r[i], w, FirstOf(q, i))}
<1>4. 0 \in T
  BY <1>1
<1>5. ASSUME NEW i \in 0 .. n - 1, i \in T PROVE i + 1 \in T
  <2>1. r[i + 1] = AddAsk(r[i], q[i + 1]) /\ i + 1 \in 1 .. n /\ q[i + 1] \in Offers
    <3>1. i + 1 \in 1 .. n
      BY <1>1
    <3>2. r[i + 1] = AddAsk(r[(i + 1) - 1], q[i + 1])
      BY <1>3, <3>1
    <3>3. (i + 1) - 1 = i
      OBVIOUS
    <3> QED BY <1>1, <3>1, <3>2, <3>3
  <2>2. CASE i = 0
    <3>1. FirstOf(q, 0) = {}
      BY DEF FirstOf
    <3>2. FirstOf(q, 0 + 1) = {q[0 + 1]} /\ Weighs(w, FirstOf(q, 0 + 1))
      <4>1. 0 \in 0 .. n - 1
        BY <2>2
      <4>2. FirstOf(q, 0 + 1) = FirstOf(q, 0) \cup {q[0 + 1]} /\ Weighs(w, FirstOf(q, 0 + 1))
        BY <1>2, <4>1, Zenon
      <4> QED BY <3>1, <4>2
    <3>3. 0 + 1 = 1 /\ i + 1 = 1
      BY <2>2
    <3>4. FirstOf(q, 1) = {q[1]} /\ Weighs(w, {q[1]})
      BY <3>2, <3>3
    <3>5. r[1] = AddAsk(<<>>, q[1]) /\ q[1] \in Offers
      BY <1>3, <2>1, <2>2, <3>3
    <3>6. IsAskTable(r[1], q[1].price, q[1].price)
      BY <3>5, FirstAsk
    <3>7. SupplyIs(r[1], w, FirstOf(q, 1))
      BY <3>4, <3>5, FirstSupply, Zenon
    <3> QED BY <2>1, <3>3, <3>6, <3>7
  <2>3. CASE i # 0
    <3>1. IsAskTable(r[i], q[1].price, q[i].price) /\ SupplyIs(r[i], w, FirstOf(q, i))
      BY <1>5, <2>3
    <3>2. q[i].price <= q[i + 1].price
      BY <1>0, <1>1, <2>1, <2>3 DEF IsBook
    <3>3. IsAskTable(r[i + 1], q[1].price, q[i + 1].price)
      BY <2>1, <3>1, <3>2, NextAsk
    <3>4. SupplyIs(AddAsk(r[i], q[i + 1]), w, FirstOf(q, i) \cup {q[i + 1]})
      <4>1. q[i + 1] \notin FirstOf(q, i) /\ Weighs(w, FirstOf(q, i) \cup {q[i + 1]})
        BY <1>2
      <4> QED BY <2>1, <3>1, <3>2, <4>1, NextSupply
    <3>5. FirstOf(q, i + 1) = FirstOf(q, i) \cup {q[i + 1]}
      BY <1>2
    <3>6. SupplyIs(r[i + 1], w, FirstOf(q, i + 1))
      BY <2>1, <3>4, <3>5, Zenon
    <3> QED BY <2>1, <3>3, <3>6
  <2> QED BY <2>2, <2>3
<1>6. n \in T
  <2> HIDE DEF T
  <2>1. 0 .. n \subseteq T
    BY <1>1, <1>4, <1>5, UpToEnd, Zenon
  <2> QED BY <1>1, <2>1
<1>7. SupplyIs(r[n], w, FirstOf(q, n))
  BY <1>1, <1>6
<1>8. FirstOf(q, n) = InBook(q)
  BY <1>0 DEF FirstOf, InBook
<1> QED BY <1>3, <1>7, <1>8, Zenon

\* A book from its end.
LEMMA HighestFirstIs ==
  ASSUME NEW q \in Seq(Offers), Distinct(q)
  PROVE  /\ Reverse(q) \in Seq(Offers)
         /\ Len(Reverse(q)) = Len(q)
         /\ Distinct(Reverse(q))
         /\ InBook(Reverse(q)) = InBook(q)
<1> DEFINE n == Len(q)
           b == Reverse(q)
<1>1. n \in Nat
  OBVIOUS
<1>2. b \in Seq(Offers) /\ Len(b) = n /\ \A i \in 1 .. n : b[i] = q[n - i + 1]
  BY Reversed
<1>3. \A i \in 1 .. n : n - i + 1 \in 1 .. n /\ n - (n - i + 1) + 1 = i
  BY <1>1
<1> HIDE DEF b
<1>4. \A i \in 1 .. n : b[i] = q[n - i + 1] /\ q[i] = b[n - i + 1]
  BY <1>2, <1>3, Zenon
<1>5. \A i, j \in 1 .. n : i # j => n - i + 1 # n - j + 1
  BY <1>1
<1>6. Distinct(b)
  <2>1. \A i, j \in 1 .. n : i # j => q[i].id # q[j].id
    BY DEF Distinct
  <2> HIDE DEF n
  <2>2. \A i, j \in 1 .. n : i # j => b[i].id # b[j].id
    BY <1>3, <1>4, <1>5, <2>1
  <2> QED BY <1>2, <2>2 DEF Distinct
<1>7. InBook(b) = InBook(q)
  <2>1. InBook(b) = {b[i] : i \in 1 .. n} /\ InBook(q) = {q[i] : i \in 1 .. n}
    BY <1>2 DEF InBook
  <2> HIDE DEF n
  <2>2. {b[i] : i \in 1 .. n} = {q[i] : i \in 1 .. n}
    BY <1>3, <1>4
  <2> QED BY <2>1, <2>2
<1> QED BY <1>2, <1>6, <1>7 DEF b

\* The bid aggregates show what the bids of a book want.
LEMMA BidAggregatesShow ==
  ASSUME NEW q, IsBook(q), Distinct(q), NEW w, Weighs(w, InBook(q))
  PROVE  WantedIs(BidAggregates(q), w, InBook(q))
<1> DEFINE n == Len(q)
           b == Reverse(q)
<1>1. n \in Nat \ {0} /\ q \in Seq(Offers)
  BY DEF IsBook
<1>2. /\ b \in Seq(Offers) /\ Len(b) = n /\ Distinct(b) /\ InBook(b) = InBook(q)
      /\ DOMAIN b = 1 .. n /\ \A i \in 1 .. n : b[i] = q[n - i + 1] /\ b[i] \in Offers
  <2>1. b \in Seq(Offers) /\ Len(b) = n /\ Distinct(b) /\ InBook(b) = InBook(q)
    BY <1>1, HighestFirstIs
  <2>2. \A i \in 1 .. n : b[i] = q[n - i + 1]
    BY <1>1, Reversed
  <2> HIDE DEF b
  <2> QED BY <2>1, <2>2
<1>3. \A i \in 1 .. n - 1 : b[i + 1].price <= b[i].price
  <2> SUFFICES ASSUME NEW i \in 1 .. n - 1 PROVE b[i + 1].price <= b[i].price
    OBVIOUS
  <2>1. i \in 1 .. n /\ i + 1 \in 1 .. n
    BY <1>1
  <2>2. b[i] = q[n - i + 1] /\ b[i + 1] = q[n - (i + 1) + 1]
    BY <1>2, <2>1
  <2>3. n - (i + 1) + 1 < n - i + 1 /\ n - (i + 1) + 1 \in 1 .. n /\ n - i + 1 \in 1 .. n
    BY <1>1, <2>1
  <2> QED BY <2>2, <2>3 DEF IsBook
<1>4. BidAggregates(q) = Bidding!Fold(0, <<>>, b)
  BY BidAggregatesIsFold
<1> HIDE DEF b
<1>5. \A i \in 0 .. n - 1 : /\ b[i + 1] \notin FirstOf(b, i)
                            /\ FirstOf(b, i + 1) = FirstOf(b, i) \cup {b[i + 1]}
                            /\ Weighs(w, FirstOf(b, i + 1))
  <2> SUFFICES ASSUME NEW i \in 0 .. n - 1
               PROVE  /\ b[i + 1] \notin FirstOf(b, i)
                      /\ FirstOf(b, i + 1) = FirstOf(b, i) \cup {b[i + 1]}
                      /\ Weighs(w, FirstOf(b, i + 1))
    BY Zenon
  <2>1. /\ b[i + 1] \notin FirstOf(b, i)
        /\ FirstOf(b, i + 1) = FirstOf(b, i) \cup {b[i + 1]}
        /\ FirstOf(b, i + 1) \subseteq InBook(b)
    BY <1>2, OneMore
  <2>2. Weighs(w, FirstOf(b, i + 1))
    BY <1>2, <2>1, WeighsSome
  <2> QED BY <2>1, <2>2, Zenon
<1> HIDE DEF n
<1>6. PICK r : /\ r[0] = <<>>
               /\ \A i \in 1 .. n : r[i] = AddBid(r[i - 1], b[i])
               /\ r[n] = BidAggregates(q)
  <2>1. PICK r : Bidding!Runs(r, 0, <<>>, b, n)
    BY <1>1, <1>2, Bidding!FoldRuns, Zenon
  <2> QED BY <1>4, <2>1 DEF Bidding!Runs, BidStep
<1> DEFINE T == {i \in 0 .. n : i > 0 => /\ IsAggregates(r[i], b[i].price, b[1].price)
                                        /\ WantedIs(r[i], w, FirstOf(b, i))}
<1>7. 0 \in T
  BY <1>1
<1>8. ASSUME NEW i \in 0 .. n - 1, i \in T PROVE i + 1 \in T
  <2>1. r[i + 1] = AddBid(r[i], b[i + 1]) /\ i + 1 \in 1 .. n /\ b[i + 1] \in Offers
    <3>1. i + 1 \in 1 .. n
      BY <1>1
    <3>2. r[i + 1] = AddBid(r[(i + 1) - 1], b[i + 1])
      BY <1>6, <3>1
    <3>3. (i + 1) - 1 = i
      OBVIOUS
    <3> QED BY <1>2, <3>1, <3>2, <3>3
  <2>2. CASE i = 0
    <3>1. FirstOf(b, 0) = {}
      BY DEF FirstOf
    <3>2. FirstOf(b, 0 + 1) = {b[0 + 1]} /\ Weighs(w, FirstOf(b, 0 + 1))
      <4>1. 0 \in 0 .. n - 1
        BY <2>2
      <4>2. FirstOf(b, 0 + 1) = FirstOf(b, 0) \cup {b[0 + 1]} /\ Weighs(w, FirstOf(b, 0 + 1))
        BY <1>5, <4>1, Zenon
      <4> QED BY <3>1, <4>2
    <3>3. 0 + 1 = 1 /\ i + 1 = 1
      BY <2>2
    <3>4. FirstOf(b, 1) = {b[1]} /\ Weighs(w, {b[1]})
      BY <3>2, <3>3
    <3>5. r[1] = AddBid(<<>>, b[1]) /\ b[1] \in Offers
      BY <1>6, <2>1, <2>2, <3>3
    <3>6. IsAggregates(r[1], b[1].price, b[1].price)
      BY <3>5, FirstBid
    <3>7. WantedIs(r[1], w, FirstOf(b, 1))
      BY <3>4, <3>5, FirstWanted, Zenon
    <3> QED BY <2>1, <3>3, <3>6, <3>7
  <2>3. CASE i # 0
    <3>1. IsAggregates(r[i], b[i].price, b[1].price) /\ WantedIs(r[i], w, FirstOf(b, i))
      BY <1>8, <2>3
    <3>2. b[i + 1].price <= b[i].price
      BY <1>1, <1>3, <2>3
    <3>3. IsAggregates(r[i + 1], b[i + 1].price, b[1].price)
      BY <2>1, <3>1, <3>2, NextBid
    <3>4. WantedIs(AddBid(r[i], b[i + 1]), w, FirstOf(b, i) \cup {b[i + 1]})
      <4>1. b[i + 1] \notin FirstOf(b, i) /\ Weighs(w, FirstOf(b, i) \cup {b[i + 1]})
        BY <1>5
      <4> QED BY <2>1, <3>1, <3>2, <4>1, NextWanted
    <3>5. FirstOf(b, i + 1) = FirstOf(b, i) \cup {b[i + 1]}
      BY <1>5
    <3>6. WantedIs(r[i + 1], w, FirstOf(b, i + 1))
      BY <2>1, <3>4, <3>5, Zenon
    <3> QED BY <2>1, <3>3, <3>6
  <2> QED BY <2>2, <2>3
<1>9. n \in T
  <2> HIDE DEF T
  <2>1. 0 .. n \subseteq T
    BY <1>1, <1>7, <1>8, UpToEnd, Zenon
  <2> QED BY <1>1, <2>1
<1>10. WantedIs(r[n], w, FirstOf(b, n))
  BY <1>1, <1>9
<1>11. FirstOf(b, n) = InBook(q)
  BY <1>2 DEF FirstOf, InBook
<1> QED BY <1>6, <1>10, <1>11, Zenon

-----------------------------------------------------------------------------
(***************************************************************************)
(* The merge.                                                              *)
(***************************************************************************)

\* Every entry of t shows the supply of the asks A at its price, the entries
\* before next show the demand of the bids B.
ShowsSupply(t, w, A) == \A k \in 1 .. Len(t) : t[k].supply = Quantity(w, Cheap(A, t[k].price))

ShowsDemand(t, next, w, B) ==
  \A k \in 1 .. Len(t) : k < next => t[k].demand = Quantity(w, Dear(B, t[k].price))

\* At a price that is not in the table, as much is offered as below it.
LEMMA SupplyBelowIs ==
  ASSUME NEW t, NEW next, NEW low, NEW price, NEW qty, IsMerged(t, next, low, price, qty),
         NEW w, NEW A, Weighs(w, A), PricesIn(A) \subseteq TablePrices(t), ShowsSupply(t, w, A),
         NEW agg \in Wants, NEW j \in 1 .. Len(t) + 1,
         \A i \in 1 .. Len(t) : i < j => t[i].price < agg.price,
         \A i \in 1 .. Len(t) : j <= i => agg.price < t[i].price
  PROVE  SupplyBelow(t, j) = Quantity(w, Cheap(A, agg.price))
<1> DEFINE n == Len(t)
<1>1. t \in Seq(Entries) /\ n \in Nat /\ j \in Nat /\ agg.price \in Nat
  BY DEF IsMerged, Wants
<1>2. \A i \in 1 .. n : t[i].price \in Nat
  <2>1. \A i \in 1 .. n : t[i] \in Entries
    BY <1>1
  <2> QED BY <2>1 DEF Entries
<1>3. \A o \in A : o.price \in Nat /\ \E i \in 1 .. n : o.price = t[i].price
  <2> SUFFICES ASSUME NEW o \in A PROVE o.price \in Nat /\ \E i \in 1 .. n : o.price = t[i].price
    OBVIOUS
  <2>1. o.price \in TablePrices(t)
    BY DEF PricesIn
  <2> QED BY <1>2, <2>1 DEF TablePrices
<1>4. CASE j = 1
  <2>1. \A o \in A : ~ (o.price <= agg.price)
    <3> SUFFICES ASSUME NEW o \in A PROVE ~ (o.price <= agg.price)
      OBVIOUS
    <3>1. PICK i \in 1 .. n : o.price = t[i].price
      BY <1>3
    <3>2. agg.price < t[i].price
      BY <1>4
    <3> QED BY <1>1, <1>2, <3>1, <3>2
  <2>2. Cheap(A, agg.price) = {}
    BY <2>1 DEF Cheap
  <2>3. SupplyBelow(t, j) = 0
    BY <1>4 DEF SupplyBelow
  <2> QED BY <2>2, <2>3, QuantityEmpty, Zenon
<1>5. CASE j # 1
  <2>1. j - 1 \in 1 .. n /\ j - 1 < j
    BY <1>1, <1>5
  <2> DEFINE p == t[j - 1].price
  <2>2. p \in Nat /\ p < agg.price
    BY <1>2, <2>1
  <2>3. \A o \in A : o.price <= p <=> o.price <= agg.price
    <3> SUFFICES ASSUME NEW o \in A PROVE o.price <= p <=> o.price <= agg.price
      OBVIOUS
    <3>1. PICK i \in 1 .. n : o.price = t[i].price
      BY <1>3
    <3>2. CASE j <= i
      <4>1. agg.price < t[i].price
        BY <3>2
      <4> HIDE DEF p
      <4> QED BY <1>1, <1>2, <2>2, <3>1, <4>1
    <3>3. CASE ~ (j <= i)
      <4>1. i = j - 1 \/ i < j - 1
        BY <1>1, <3>3
      <4>2. t[i].price <= p
        <5>1. i < j - 1 => t[i].price < t[j - 1].price
          BY <2>1, Zenon DEF IsMerged
        <5> QED BY <1>2, <2>1, <4>1, <5>1
      <4> HIDE DEF p
      <4> QED BY <1>1, <1>2, <2>2, <3>1, <4>2
    <3> QED BY <3>2, <3>3
  <2>4. Cheap(A, p) = Cheap(A, agg.price)
    BY <2>3 DEF Cheap
  <2>5. SupplyBelow(t, j) = t[j - 1].supply
    BY <1>5 DEF SupplyBelow
  <2>6. t[j - 1].supply = Quantity(w, Cheap(A, p))
    BY <2>1 DEF ShowsSupply
  <2> QED BY <2>4, <2>5, <2>6, Zenon
<1> QED BY <1>4, <1>5

\* Between the last merged aggregate and the next, demand does not change.
LEMMA DemandBetween ==
  ASSUME NEW w, NEW B, Weighs(w, B), NEW p \in Nat, NEW q \in Nat, p <= q,
         \A b \in B : b.price < q => b.price < p
  PROVE  Quantity(w, Dear(B, p)) = Quantity(w, Dear(B, q))
<1>1. \A b \in B : b.price \in Nat
  BY DEF Weighs, Offers
<1>2. \A b \in B : b.price >= p <=> b.price >= q
  BY <1>1
<1>3. Dear(B, p) = Dear(B, q)
  BY <1>2 DEF Dear
<1> QED BY <1>3, Zenon

\* r is m with agg merged.
MergeShown(r, m, agg, w, A, B) ==
    /\ ShowsSupply(r.table, w, A)
    /\ ShowsDemand(r.table, r.next, w, B)
    /\ TablePrices(r.table) = TablePrices(m.table) \cup {agg.price}

\* Merging an aggregate keeps the supply shown and shows its demand.
LEMMA MergeShows ==
  ASSUME NEW m, NEW low, NEW price \in Int, NEW qty \in Int,
         IsMerged(m.table, m.next, low, price, qty),
         NEW agg \in Wants, price < agg.price, agg.qty < qty,
         NEW w, NEW A, NEW B, Weighs(w, A), Weighs(w, B),
         PricesIn(A) \subseteq TablePrices(m.table),
         ShowsSupply(m.table, w, A), ShowsDemand(m.table, m.next, w, B),
         agg.qty = Quantity(w, Dear(B, agg.price)),
         \A b \in B : b.price < agg.price => m.next > 1 /\ b.price <= price
  PROVE  MergeShown(MergeBid(m, agg), m, agg, w, A, B)
<1> DEFINE t == m.table
           next == m.next
           n == Len(t)
           j == Place(t, agg)
           u == MergeBid(m, agg).table
           l == Len(u)
<1>1. MergedInto(u, t, next, agg, j) /\ MergeBid(m, agg).next = j + 1 /\ next <= j
  BY BidMergedInto, Zenon
<1>0. /\ IsMerged(t, next, low, price, qty) /\ PricesIn(A) \subseteq TablePrices(t)
      /\ ShowsSupply(t, w, A) /\ ShowsDemand(t, next, w, B)
      /\ \A b \in B : b.price < agg.price => next > 1 /\ b.price <= price
  OBVIOUS
<1> HIDE DEF t, next, u
<1>2. /\ t \in Seq(Entries) /\ n \in Nat \ {0} /\ next \in 1 .. n + 1 /\ next \in Nat
      /\ agg.price \in Nat /\ agg.qty \in Nat
  BY <1>0 DEF IsMerged, Wants
<1>3. \A i \in 1 .. n : t[i].price \in Nat
  <2>1. \A i \in 1 .. n : t[i] \in Entries
    BY <1>2
  <2> QED BY <2>1 DEF Entries
<1>4. /\ j \in 1 .. n + 1
      /\ \A i \in 1 .. n : i < j => t[i].price < agg.price
      /\ j <= n => agg.price <= t[j].price
  BY <1>2, PlaceIs
<1>5. \A i, k \in 1 .. n : i < k => t[i].price < t[k].price
  BY <1>0, Zenon DEF IsMerged
<1>6. \A b \in B : b.price \in Nat
  BY DEF Weighs, Offers
<1> HIDE DEF j
<1>7. next > 1 => next - 1 \in 1 .. n /\ t[next - 1].price = price
  BY <1>0, <1>2 DEF IsMerged
<1>8. \A i \in 1 .. l : u[i].demand = MergedDemand(t, next, agg, j, i)
  BY <1>1 DEF MergedInto
\* An entry from next up to j has a price above the merged bids.
<1>9. ASSUME NEW i \in 1 .. n, next <= i, i < j
      PROVE  Quantity(w, Dear(B, t[i].price)) = agg.qty
  <2>1. t[i].price \in Nat /\ t[i].price <= agg.price
    BY <1>2, <1>3, <1>4, <1>9
  <2>2. ASSUME NEW b \in B, b.price < agg.price PROVE b.price < t[i].price
    <3>1. next > 1 /\ b.price <= price
      BY <1>0, <2>2
    <3>2. next - 1 \in 1 .. n /\ t[next - 1].price = price /\ next - 1 < i
      BY <1>2, <1>7, <1>9, <3>1
    <3>3. t[next - 1].price < t[i].price
      BY <1>5, <3>2
    <3> QED BY <1>3, <1>6, <2>1, <3>1, <3>2, <3>3
  <2>3. Quantity(w, Dear(B, t[i].price)) = Quantity(w, Dear(B, agg.price))
    BY <1>2, <2>1, <2>2, DemandBetween
  <2> QED BY <2>3, Zenon
<1>10. CASE j <= n /\ t[j].price = agg.price
  <2>1. l = n /\ \A i \in 1 .. n : u[i].price = t[i].price /\ u[i].supply = t[i].supply
    BY <1>1, <1>10 DEF MergedInto, SameAsks
  <2>2. ShowsSupply(u, w, A)
    BY <1>0, <2>1 DEF ShowsSupply
  <2>3. ASSUME NEW i \in 1 .. l, i < j + 1
        PROVE  u[i].demand = Quantity(w, Dear(B, u[i].price))
    <3>0. u[i].price = t[i].price /\ u[i].demand = MergedDemand(t, next, agg, j, i) /\ i \in 1 .. n
      BY <1>8, <2>1
    <3>1. CASE i < next
      <4>1. u[i].demand = t[i].demand
        BY <3>0, <3>1 DEF MergedDemand
      <4>2. t[i].demand = Quantity(w, Dear(B, t[i].price))
        BY <1>0, <3>0, <3>1 DEF ShowsDemand
      <4> QED BY <3>0, <4>1, <4>2, Zenon
    <3>2. CASE next <= i
      <4>1. u[i].demand = agg.qty
        <5>1. ~ (i < next) /\ i <= j
          BY <1>2, <1>4, <2>3, <3>2
        <5> QED BY <3>0, <5>1 DEF MergedDemand
      <4>2. CASE i = j
        <5>1. u[i].price = agg.price
          BY <1>10, <3>0, <4>2
        <5> QED BY <4>1, <5>1, Zenon
      <4>3. CASE i # j
        <5>1. i < j
          BY <1>2, <1>4, <2>3, <4>3
        <5>2. Quantity(w, Dear(B, t[i].price)) = agg.qty
          BY <1>9, <3>0, <3>2, <5>1
        <5> QED BY <3>0, <4>1, <5>2, Zenon
      <4> QED BY <4>2, <4>3
    <3> QED BY <1>2, <3>1, <3>2
  <2>4. ShowsDemand(u, j + 1, w, B)
    BY <2>3 DEF ShowsDemand
  <2>5. TablePrices(u) = TablePrices(t) \cup {agg.price}
    <3>1. TablePrices(u) = TablePrices(t)
      BY <2>1 DEF TablePrices
    <3>2. agg.price \in TablePrices(t)
      BY <1>2, <1>4, <1>10 DEF TablePrices
    <3> QED BY <3>1, <3>2
  <2> QED BY <1>1, <2>2, <2>4, <2>5 DEF u, t, MergeShown
<1>11. CASE ~ (j <= n /\ t[j].price = agg.price)
  <2>0. OneMoreAt(u, t, j, agg.price) /\ l = n + 1
    BY <1>1, <1>11 DEF MergedInto, OneMoreAt
  <2>1. ASSUME NEW i \in 1 .. l
        PROVE  /\ i < j => i \in 1 .. n /\ u[i].price = t[i].price /\ u[i].supply = t[i].supply
               /\ i = j => u[i].price = agg.price /\ u[i].supply = SupplyBelow(t, j)
               /\ j < i => /\ i - 1 \in 1 .. n
                           /\ u[i].price = t[i - 1].price /\ u[i].supply = t[i - 1].supply
    BY <2>0, Zenon DEF OneMoreAt
  <2>2. \A i \in 1 .. n : j <= i => agg.price < t[i].price
    <3> SUFFICES ASSUME NEW i \in 1 .. n, j <= i PROVE agg.price < t[i].price
      OBVIOUS
    <3>1. j \in 1 .. n /\ agg.price < t[j].price
      BY <1>2, <1>3, <1>4, <1>11
    <3>2. i = j \/ t[j].price < t[i].price
      BY <1>5, <3>1
    <3> QED BY <1>2, <1>3, <3>1, <3>2
  <2>3. SupplyBelow(t, j) = Quantity(w, Cheap(A, agg.price))
    BY <1>0, <1>4, <2>2, SupplyBelowIs
  <2>4. ASSUME NEW i \in 1 .. l PROVE u[i].supply = Quantity(w, Cheap(A, u[i].price))
    <3>0. i \in Int /\ j \in Int
      BY <1>4
    <3>1. CASE i < j
      <4>1. i \in 1 .. n /\ u[i].price = t[i].price /\ u[i].supply = t[i].supply
        BY <2>1, <3>1
      <4>2. t[i].supply = Quantity(w, Cheap(A, t[i].price))
        BY <1>0, <4>1 DEF ShowsSupply
      <4> QED BY <4>1, <4>2, Zenon
    <3>2. CASE i = j
      BY <2>1, <2>3, <3>2, Zenon
    <3>3. CASE j < i
      <4>1. i - 1 \in 1 .. n /\ u[i].price = t[i - 1].price /\ u[i].supply = t[i - 1].supply
        BY <2>1, <3>3
      <4>2. t[i - 1].supply = Quantity(w, Cheap(A, t[i - 1].price))
        BY <1>0, <4>1 DEF ShowsSupply
      <4> QED BY <4>1, <4>2, Zenon
    <3> QED BY <3>0, <3>1, <3>2, <3>3
  <2>5. ASSUME NEW i \in 1 .. l, i < j + 1
        PROVE  u[i].demand = Quantity(w, Dear(B, u[i].price))
    <3>0. u[i].demand = MergedDemand(t, next, agg, j, i) /\ (i < j \/ i = j)
      BY <1>4, <1>8, <2>5
    <3>1. CASE i < next
      <4>1. u[i].demand = t[i].demand
        BY <3>0, <3>1 DEF MergedDemand
      <4>2. i < j
        BY <1>1, <1>2, <1>4, <3>1
      <4>3. i \in 1 .. n /\ u[i].price = t[i].price
        BY <2>1, <4>2
      <4>4. t[i].demand = Quantity(w, Dear(B, t[i].price))
        BY <1>0, <3>1, <4>3 DEF ShowsDemand
      <4> QED BY <4>1, <4>3, <4>4, Zenon
    <3>2. CASE next <= i
      <4>1. u[i].demand = agg.qty
        <5>1. ~ (i < next) /\ i <= j
          BY <1>2, <1>4, <2>5, <3>2
        <5> QED BY <3>0, <5>1 DEF MergedDemand
      <4>2. CASE i = j
        <5>1. u[i].price = agg.price
          BY <2>1, <4>2
        <5> QED BY <4>1, <5>1, Zenon
      <4>3. CASE i < j
        <5>1. i \in 1 .. n /\ u[i].price = t[i].price
          BY <2>1, <4>3
        <5>2. Quantity(w, Dear(B, t[i].price)) = agg.qty
          BY <1>9, <3>2, <4>3, <5>1
        <5> QED BY <4>1, <5>1, <5>2, Zenon
      <4> QED BY <3>0, <4>2, <4>3
    <3> QED BY <1>2, <3>1, <3>2
  <2>6. TablePrices(u) = TablePrices(t) \cup {agg.price}
    <3>1. ASSUME NEW i \in 1 .. l PROVE u[i].price \in TablePrices(t) \cup {agg.price}
      <4>1. i < j \/ i = j \/ j < i
        BY <1>4
      <4>2. i < j => u[i].price \in TablePrices(t)
        BY <2>1 DEF TablePrices
      <4>3. j < i => u[i].price \in TablePrices(t)
        BY <2>1 DEF TablePrices
      <4> QED BY <2>1, <4>1, <4>2, <4>3
    <3>2. ASSUME NEW i \in 1 .. n PROVE t[i].price \in TablePrices(u)
      <4>1. CASE i < j
        <5>1. i \in 1 .. l /\ u[i].price = t[i].price
          BY <1>2, <2>0, <2>1, <4>1
        <5> QED BY <5>1 DEF TablePrices
      <4>2. CASE j <= i
        <5>1. i + 1 \in 1 .. l /\ j < i + 1 /\ (i + 1) - 1 = i
          BY <1>2, <1>4, <2>0, <4>2
        <5>2. u[i + 1].price = t[i].price
          BY <2>1, <5>1
        <5> QED BY <5>1, <5>2 DEF TablePrices
      <4> QED BY <1>4, <4>1, <4>2
    <3>3. agg.price \in TablePrices(u)
      <4>1. j \in 1 .. l
        BY <1>4, <2>0
      <4> QED BY <2>1, <4>1 DEF TablePrices
    <3>4. TablePrices(u) \subseteq TablePrices(t) \cup {agg.price}
      <4>1. TablePrices(u) = {u[i].price : i \in 1 .. l}
        BY DEF TablePrices
      <4> QED BY <3>1, <4>1
    <3>5. TablePrices(t) \subseteq TablePrices(u)
      <4>1. TablePrices(t) = {t[i].price : i \in 1 .. n}
        BY DEF TablePrices
      <4> QED BY <3>2, <4>1
    <3> QED BY <3>3, <3>4, <3>5
  <2>7. ShowsSupply(u, w, A) /\ ShowsDemand(u, j + 1, w, B)
    BY <2>4, <2>5 DEF ShowsSupply, ShowsDemand
  <2> QED BY <1>1, <2>6, <2>7 DEF u, t, MergeShown
<1> QED BY <1>10, <1>11

\* t is the pair of curves of the bids B and the asks A.
Curves(t, w, B, A) ==
    /\ t \in Seq(Entries)
    /\ \A i, j \in 1 .. Len(t) : i < j => t[i].price < t[j].price
    /\ TablePrices(t) = PricesIn(A) \cup PricesIn(B)
    /\ ShowsSupply(t, w, A)
    /\ \A k \in 1 .. Len(t) : t[k].demand = Quantity(w, Dear(B, t[k].price))

\* A merged table shows the demand where nothing was merged, too: none.
LEMMA MergedShows ==
  ASSUME NEW t, NEW next, NEW low, NEW price \in Nat, NEW qty,
         IsMerged(t, next, low, price, qty), next > 1,
         NEW w, NEW A, NEW B, Weighs(w, B), \A o \in B : o.price <= price,
         TablePrices(t) = PricesIn(A) \cup PricesIn(B),
         ShowsSupply(t, w, A), ShowsDemand(t, next, w, B)
  PROVE  Curves(t, w, B, A)
<1> DEFINE n == Len(t)
<1>1. t \in Seq(Entries) /\ n \in Nat /\ next \in 1 .. n + 1 /\ next - 1 \in 1 .. n
  BY DEF IsMerged
<1>2. \A i \in 1 .. n : t[i].price \in Nat
  <2>1. \A i \in 1 .. n : t[i] \in Entries
    BY <1>1
  <2> QED BY <2>1 DEF Entries
<1>3. \A i, j \in 1 .. n : i < j => t[i].price < t[j].price
  BY Zenon DEF IsMerged
<1>4. t[next - 1].price = price
  BY DEF IsMerged
<1>5. ASSUME NEW k \in 1 .. n, next <= k
      PROVE  t[k].demand = Quantity(w, Dear(B, t[k].price))
  <2>1. t[k].demand = 0
    BY <1>5 DEF IsMerged
  <2>2. price < t[k].price
    <3>1. next - 1 < k
      BY <1>1, <1>5
    <3>2. t[next - 1].price < t[k].price
      BY <1>1, <1>3, <3>1
    <3> QED BY <1>4, <3>2
  <2>3. \A o \in B : o.price \in Nat /\ o.price <= price
    BY DEF Weighs, Offers
  <2>4. Dear(B, t[k].price) = {}
    BY <1>2, <2>2, <2>3 DEF Dear
  <2> QED BY <2>1, <2>4, QuantityEmpty, Zenon
<1>6. ASSUME NEW k \in 1 .. n
      PROVE  t[k].demand = Quantity(w, Dear(B, t[k].price))
  <2>1. CASE k < next
    BY <2>1, Zenon DEF ShowsDemand
  <2>2. CASE ~ (k < next)
    <3>1. next <= k
      BY <1>1, <2>2
    <3> QED BY <1>5, <3>1
  <2> QED BY <2>1, <2>2
<1> QED BY <1>1, <1>3, <1>6 DEF Curves

\* The match table of two books that overlap is their curves.
LEMMA MatchTableShows ==
  ASSUME NEW b, NEW a, IsBook(b), IsBook(a), Distinct(b), Distinct(a),
         NEW w, Weighs(w, InBook(b)), Weighs(w, InBook(a))
  PROVE  Curves(MatchTable(b, a), w, InBook(b), InBook(a))
<1> DEFINE g == BidAggregates(b)
           n == Len(g)
           low == a[1].price
           high == b[Len(b)].price
           base == [table |-> AskTable(a), next |-> 1]
           A == InBook(a)
           B == InBook(b)
<1>1. IsAggregates(g, b[1].price, high) /\ IsAskTable(AskTable(a), low, a[Len(a)].price)
  BY BidAggregatesAre, AskTableIs
<1>2. WantedIs(g, w, B) /\ SupplyIs(AskTable(a), w, A)
  BY BidAggregatesShow, AskTableShows
<1>3. MatchTable(b, a) = Merging!Fold(0, base, g).table
  BY MatchTableIsFold
<1>4. Weighs(w, A) /\ Weighs(w, B)
  OBVIOUS
<1> HIDE DEF g, A, B
<1>5. /\ n \in Nat \ {0} /\ DOMAIN g = 1 .. n
      /\ \A i \in 1 .. n : g[i] \in Wants /\ g[i].price \in Nat /\ g[i].qty \in Nat \ {0}
      /\ \A i, j \in 1 .. n : i < j => g[i].price < g[j].price /\ g[j].qty < g[i].qty
  <2>1. n \in Nat \ {0} /\ DOMAIN g = 1 .. n /\ \A i \in 1 .. n : g[i] \in Wants
    BY <1>1 DEF IsAggregates
  <2> QED BY <1>1, <2>1 DEF IsAggregates, Wants
<1>6. \A k \in 1 .. n : g[k].qty = Quantity(w, Dear(B, g[k].price))
  BY <1>2, Zenon DEF WantedIs
<1>7. PricesIn(B) = {g[k].price : k \in 1 .. n}
  BY <1>2 DEF WantedIs, TablePrices
<1>8. \A o \in B : \E k \in 1 .. n : o.price = g[k].price
  BY <1>7 DEF PricesIn
<1>9. base.table = AskTable(a) /\ base.next = 1
  OBVIOUS
<1> HIDE DEF n, base, low, high
<1>10. PICK r : /\ r[0] = base
                /\ \A i \in 1 .. n : r[i] = MergeBid(r[i - 1], g[i])
                /\ r[n].table = MatchTable(b, a)
  <2>1. PICK r : Merging!Runs(r, 0, base, g, n)
    BY <1>5, Merging!FoldRuns, Zenon
  <2> QED BY <1>3, <2>1 DEF Merging!Runs, MergeStep
<1> DEFINE price(i) == IF i = 0 THEN g[1].price - 1 ELSE g[i].price
           qty(i)   == IF i = 0 THEN g[1].qty + 1 ELSE g[i].qty
           Merged(i) == {g[k].price : k \in 1 .. i}
           Good(i) == /\ IsMerged(r[i].table, r[i].next, low, price(i), qty(i))
                      /\ ShowsSupply(r[i].table, w, A)
                      /\ ShowsDemand(r[i].table, r[i].next, w, B)
                      /\ TablePrices(r[i].table) = PricesIn(A) \cup Merged(i)
                      /\ i > 0 => r[i].next > 1
           T == {i \in 0 .. n : Good(i)}
<1>11. 0 \in T
  <2>1. IsMerged(r[0].table, r[0].next, low, price(0), qty(0))
    BY <1>1, <1>9, <1>10, NothingMerged
  <2>2. r[0].table = AskTable(a) /\ r[0].next = 1
    BY <1>9, <1>10
  <2>3. ShowsSupply(r[0].table, w, A) /\ TablePrices(r[0].table) = PricesIn(A)
    BY <1>2, <2>2 DEF SupplyIs, ShowsSupply
  <2>4. ShowsDemand(r[0].table, r[0].next, w, B)
    <3>1. \A k \in 1 .. Len(r[0].table) : ~ (k < 1)
      OBVIOUS
    <3> QED BY <2>2, <3>1 DEF ShowsDemand
  <2>5. Merged(0) = {} /\ ~ (0 > 0) /\ 0 \in 0 .. n
    BY <1>5
  <2> HIDE DEF Merged, price, qty
  <2> QED BY <2>1, <2>3, <2>4, <2>5
<1>12. ASSUME NEW i \in 0 .. n - 1, i \in T PROVE i + 1 \in T
  <2>1. r[i + 1] = MergeBid(r[i], g[i + 1]) /\ i + 1 \in 1 .. n /\ i + 1 \in 0 .. n /\ i + 1 > 0
    <3>1. i + 1 \in 1 .. n /\ i + 1 \in 0 .. n /\ i + 1 > 0
      BY <1>5
    <3>2. r[i + 1] = MergeBid(r[(i + 1) - 1], g[i + 1])
      BY <1>10, <3>1
    <3>3. (i + 1) - 1 = i
      OBVIOUS
    <3> QED BY <3>1, <3>2, <3>3
  <2>2. price(i) < g[i + 1].price /\ g[i + 1].qty < qty(i) /\ price(i) \in Int /\ qty(i) \in Int
    <3>1. CASE i = 0
      BY <1>5, <2>1, <3>1
    <3>2. CASE i # 0
      <4>1. i \in 1 .. n /\ i < i + 1
        BY <1>5, <3>2
      <4> QED BY <1>5, <2>1, <3>2, <4>1
    <3> QED BY <3>1, <3>2
  <2>3. price(i + 1) = g[i + 1].price /\ qty(i + 1) = g[i + 1].qty
    BY <2>1
  <2>4. Good(i)
    BY <1>12
  <2>5. Merged(i + 1) = Merged(i) \cup {g[i + 1].price}
    <3>1. 1 .. i + 1 = (1 .. i) \cup {i + 1}
      OBVIOUS
    <3> QED BY <3>1
  <2>6. ASSUME NEW o \in B, o.price < g[i + 1].price PROVE r[i].next > 1 /\ o.price <= price(i)
    <3>1. PICK k \in 1 .. n : o.price = g[k].price
      BY <1>8
    <3>2. k <= i
      <4> SUFFICES ASSUME ~ (k <= i) PROVE FALSE
        OBVIOUS
      <4>1. k = i + 1 \/ i + 1 < k
        OBVIOUS
      <4>2. g[i + 1].price <= g[k].price
        BY <1>5, <2>1, <4>1
      <4> QED BY <1>5, <2>1, <2>6, <3>1, <4>2
    <3>3. i > 0 /\ i \in 1 .. n
      BY <1>5, <3>2
    <3>4. price(i) = g[i].price
      BY <3>3
    <3>5. g[k].price <= g[i].price
      <4>1. k = i \/ k < i
        BY <3>2
      <4> QED BY <1>5, <3>3, <4>1
    <3> QED BY <2>4, <3>1, <3>3, <3>4, <3>5
  <2> DEFINE m == r[i]
             agg == g[i + 1]
             next == MergeBid(m, agg).next
             t == MergeBid(m, agg).table
  <2>7. IsMerged(m.table, m.next, low, price(i), qty(i)) /\ ShowsSupply(m.table, w, A)
        /\ ShowsDemand(m.table, m.next, w, B) /\ TablePrices(m.table) = PricesIn(A) \cup Merged(i)
    BY <2>4
  <2>8. agg \in Wants /\ agg.qty = Quantity(w, Dear(B, agg.price)) /\ price(i) < agg.price /\ agg.qty < qty(i)
    BY <1>5, <1>6, <2>1, <2>2
  <2>9. \A o \in B : o.price < agg.price => m.next > 1 /\ o.price <= price(i)
    BY <2>6
  <2>10. PricesIn(A) \subseteq TablePrices(m.table)
    <3> HIDE DEF Merged, m
    <3> QED BY <2>7
  <2> HIDE DEF price, qty, m, agg, Merged
  <2>11. IsMerged(t, next, low, agg.price, agg.qty)
    BY <2>2, <2>7, <2>8, BidIsMerged, Zenon
  <2>12. ShowsSupply(t, w, A) /\ ShowsDemand(t, next, w, B) /\ TablePrices(t) = TablePrices(m.table) \cup {agg.price}
    <3>1. MergeShown(MergeBid(m, agg), m, agg, w, A, B)
      BY <1>4, <2>2, <2>7, <2>8, <2>9, <2>10, MergeShows, Zenon
    <3> QED BY <3>1, Zenon DEF MergeShown, t, next
  <2>13. next > 1
    <3>1. next = Place(m.table, agg) + 1
      BY DEF MergeBid
    <3>2. m.table \in Seq(Entries) /\ Len(m.table) \in Nat
      BY <2>7 DEF IsMerged
    <3>3. Place(m.table, agg) \in 1 .. Len(m.table) + 1
      BY <2>8, <3>2, PlaceIs, Zenon
    <3> QED BY <3>1, <3>2, <3>3
  <2>14. TablePrices(t) = PricesIn(A) \cup Merged(i + 1)
    <3>1. Merged(i + 1) = Merged(i) \cup {agg.price}
      BY <2>5 DEF agg
    <3> QED BY <2>7, <2>12, <3>1
  <2>15. r[i + 1].table = t /\ r[i + 1].next = next
    BY <2>1 DEF m, agg
  <2>16. price(i + 1) = agg.price /\ qty(i + 1) = agg.qty
    BY <2>3 DEF agg
  <2> HIDE DEF t, next
  <2>17. Good(i + 1)
    BY <2>1, <2>11, <2>12, <2>13, <2>14, <2>15, <2>16, Zenon
  <2> QED BY <2>1, <2>17
<1>13. n \in T
  <2> HIDE DEF T
  <2>1. 0 .. n \subseteq T
    BY <1>5, <1>11, <1>12, UpToEnd, Zenon
  <2> QED BY <1>5, <2>1
<1>14. Good(n) /\ n > 0 /\ price(n) = g[n].price
  BY <1>5, <1>13
<1>15. Merged(n) = PricesIn(B)
  BY <1>7
<1>16. \A o \in B : o.price <= g[n].price
  <2> SUFFICES ASSUME NEW o \in B PROVE o.price <= g[n].price
    OBVIOUS
  <2>1. PICK k \in 1 .. n : o.price = g[k].price
    BY <1>8
  <2>2. n \in 1 .. n /\ (k = n \/ k < n)
    BY <1>5
  <2> QED BY <1>5, <2>1, <2>2
<1>17. g[n].price \in Nat
  BY <1>5
<1> DEFINE t == r[n].table
           next == r[n].next
<1>18. IsMerged(t, next, low, g[n].price, qty(n)) /\ next > 1
  BY <1>14
<1>19. ShowsSupply(t, w, A) /\ ShowsDemand(t, next, w, B) /\ TablePrices(t) = PricesIn(A) \cup PricesIn(B)
  BY <1>14, <1>15
<1> HIDE DEF t, next, qty
<1>20. Curves(t, w, B, A)
  BY <1>4, <1>16, <1>17, <1>18, <1>19, MergedShows, Zenon
<1> QED BY <1>10, <1>20, Zenon DEF t, A, B

-----------------------------------------------------------------------------
(***************************************************************************)
(* What the fills of a side add up to.                                     *)
(***************************************************************************)

\* The fills of a sequence, and the quantity that some fills fill.
Given(fills) == {fills[k] : k \in 1 .. Len(fills)}
TotalOf(F)   == SumFunctionOnSet([f \in F |-> f.filled], F)

\* One more fill adds what it fills.
TotalMoreBy(F, f) == TotalOf(F \cup {f}) = TotalOf(F) + f.filled

LEMMA TotalMore ==
  ASSUME NEW F, IsFiniteSet(F), F \subseteq Fillings, NEW f \in Fillings, f \notin F
  PROVE  TotalOf(F) \in Nat /\ TotalMoreBy(F, f)
<1> DEFINE g == [x \in F |-> x.filled]
           h == [x \in F \cup {f} |-> x.filled]
<1>1. \A x \in F \cup {f} : x.filled \in Nat
  BY DEF Fillings
<1>2. /\ \A x \in F : g[x] = h[x] /\ g[x] \in Nat
      /\ \A x \in F \cup {f} : h[x] \in Int
      /\ h[f] = f.filled /\ f.filled \in Nat
  BY <1>1
<1>3. TotalOf(F) = SumFunctionOnSet(g, F) /\ TotalOf(F \cup {f}) = SumFunctionOnSet(h, F \cup {f})
  BY DEF TotalOf
<1> HIDE DEF g, h
<1>4. SumFunctionOnSet(g, F) = SumFunctionOnSet(h, F) /\ SumFunctionOnSet(g, F) \in Nat
  BY <1>2, SumSame, SumNat
<1>5. SumFunctionOnSet(h, F \cup {f}) = h[f] + SumFunctionOnSet(h, F)
  BY <1>2, SumAdd
<1>6. \A a, b \in Nat : a + b = b + a
  OBVIOUS
<1>7. TotalOf(F \cup {f}) = f.filled + TotalOf(F) /\ TotalOf(F) \in Nat
  BY <1>2, <1>3, <1>4, <1>5, Zenon
<1> QED BY <1>2, <1>6, <1>7, Zenon DEF TotalMoreBy

\* No fill, no quantity.
LEMMA TotalEmpty == TotalOf({}) = 0
BY SumEmpty DEF TotalOf

\* The orders among O that the rule lets trade.
OpenTo(O, rule) == {o \in O : InMarket(o, rule)}

\* The fill f is of the order o, for some of its quantity, and accounts for
\* all of it.
AccountsFor(f, o) ==
    /\ f.id = o.id
    /\ f.filled \in 1 .. o.qty
    /\ f.unfilled = o.qty - f.filled

\* The rule does not stop before its limit, or before an order is served.
Ample(rule) ==
    IF rule.rationed THEN rule.stop \in Nat /\ rule.limit <= rule.stop ELSE rule.stop # 0

\* Products keep the order, and can be divided away.
LEMMA Times ==
  ASSUME NEW k \in Nat, NEW a \in Int, NEW b \in Int, a <= b
  PROVE  k * a <= k * b
<1>1. k * (b - a) >= 0
  OBVIOUS
<1>2. k * (b - a) = k * b - k * a /\ k * b \in Int /\ k * a \in Int
  OBVIOUS
<1> QED BY <1>1, <1>2

LEMMA Cancel ==
  ASSUME NEW k \in Nat \ {0}, NEW a \in Int, NEW b \in Int, k * a < k * b
  PROVE  a < b
<1> SUFFICES ASSUME b <= a PROVE FALSE
  OBVIOUS
<1>1. k * b <= k * a
  BY Times
<1>2. k * a \in Int /\ k * b \in Int
  OBVIOUS
<1> QED BY <1>1, <1>2

\* A share, rounded up, is no less than the share, by less than one unit.
LEMMA CeilCovers ==
  ASSUME NEW n \in Nat
  PROVE  /\ CeilInt(n) \in Nat
         /\ Precision * CeilInt(n) >= n
         /\ Precision * CeilInt(n) < n + Precision
<1>0. Precision \in Nat \ {0}
  BY PrecisionAssumption
<1> DEFINE a == n + Precision - 1
           q == a \div Precision
<1>1. a \in Nat
  BY <1>0
<1>2. q \in Nat /\ a < Precision * q + Precision /\ Precision * q <= a
  BY <1>0, <1>1, Quotient, Zenon
<1>3. CeilInt(n) = q
  BY DEF CeilInt
<1> HIDE DEF q
<1>4. Precision * q \in Int
  BY <1>0, <1>2
<1> QED BY <1>0, <1>2, <1>3, <1>4

\* What serving an order does: it is passed over, or gets a fill.
Skips(rule, s, o) ==
    \/ ~ InMarket(o, rule)
    \/ s.matched = rule.stop
    \/ rule.rationed /\ (s.matched = rule.limit \/ o.qty * rule.share = 0)

Gives(rule, s, o, r, q) ==
    /\ InMarket(o, rule)
    /\ q \in 1 .. o.qty
    /\ r.fills = Append(s.fills, [id |-> o.id, filled |-> q, unfilled |-> o.qty - q])
    /\ IF rule.rationed
       THEN /\ s.matched # rule.stop /\ s.matched # rule.limit
            /\ r.matched = s.matched + q
            /\ r.matched = rule.limit \/ Precision * q >= o.qty * rule.share
            /\ Precision * q < o.qty * rule.share + Precision
       ELSE q = o.qty /\ r.matched = s.matched

LEMMA ServeIs ==
  ASSUME NEW rule, IsRule(rule), NEW s, NEW O, Served(rule, s, O), NEW o \in Offers
  PROVE  \/ Serve(rule, s, o) = s /\ Skips(rule, s, o)
         \/ \E q \in Nat : Gives(rule, s, o, Serve(rule, s, o), q)
<1> DEFINE want == IF rule.rationed THEN CeilInt(o.qty * rule.share) ELSE o.qty
           qty  == IF rule.rationed /\ s.matched + want > rule.limit
                   THEN rule.limit - s.matched ELSE want
           sum  == s.matched + (IF rule.rationed THEN qty ELSE 0)
           f    == [id |-> o.id, filled |-> qty, unfilled |-> o.qty - qty]
           skip == ~InMarket(o, rule) \/ s.matched = rule.stop \/ (rule.rationed /\ qty = 0)
           r    == Serve(rule, s, o)
<1>1. r = IF skip THEN s ELSE [matched |-> sum, fills |-> Append(s.fills, f)]
  BY DEF Serve
<1>2. o.qty \in Nat \ {0} /\ s.matched \in Nat
  BY DEF Offers, Served
<1> HIDE DEF r
<1>3. CASE rule.rationed = FALSE
  <2>1. qty = o.qty /\ sum = s.matched
    BY <1>2, <1>3
  <2>2. CASE skip
    BY <1>1, <1>3, <2>2 DEF Skips, r
  <2>3. CASE ~ skip
    <3>1. r.fills = Append(s.fills, f) /\ r.matched = sum /\ InMarket(o, rule)
      BY <1>1, <2>3
    <3>2. f = [id |-> o.id, filled |-> o.qty, unfilled |-> o.qty - o.qty]
      BY <2>1
    <3>3. o.qty \in 1 .. o.qty
      BY <1>2
    <3> HIDE DEF f, sum
    <3>4. Gives(rule, s, o, r, o.qty)
      BY <1>3, <2>1, <3>1, <3>2, <3>3 DEF Gives
    <3> QED BY <1>2, <3>4 DEF r
  <2> QED BY <2>2, <2>3
<1>4. CASE rule.rationed = TRUE /\ rule.share \in Nat /\ rule.share <= Precision /\ rule.limit \in Nat
  <2>1. /\ want \in Nat /\ want <= o.qty
        /\ Precision * want >= o.qty * rule.share
        /\ Precision * want < o.qty * rule.share + Precision
    <3>1. want = CeilInt(o.qty * rule.share) /\ o.qty * rule.share \in Nat
      BY <1>2, <1>4
    <3> HIDE DEF want
    <3> QED BY <1>2, <1>4, <3>1, ShareUpTo, CeilCovers
  <2>2. s.matched <= rule.limit
    BY <1>4 DEF Served
  <2>3. rule.rationed
    BY <1>4
  <2> HIDE DEF want
  <2>4. qty = (IF s.matched + want > rule.limit THEN rule.limit - s.matched ELSE want)
        /\ sum = s.matched + qty
    BY <2>3
  <2> HIDE DEF qty, sum
  <2>5. qty \in Nat /\ qty <= o.qty /\ (sum = rule.limit \/ qty = want)
    BY <1>2, <1>4, <2>1, <2>2, <2>4
  <2>6. CASE skip
    <3>1. CASE ~ InMarket(o, rule) \/ s.matched = rule.stop
      BY <1>1, <2>6, <3>1 DEF Skips, r
    <3>2. CASE qty = 0
      <4>1. s.matched = rule.limit \/ want = 0
        BY <1>2, <1>4, <2>4, <2>5, <3>2
      <4>2. want = 0 => o.qty * rule.share = 0
        <5>1. Precision * 0 = 0 /\ o.qty * rule.share \in Nat
          BY <1>2, <1>4, PrecisionAssumption
        <5> QED BY <2>1, <5>1
      <4> QED BY <1>1, <2>3, <2>6, <4>1, <4>2 DEF Skips, r
    <3> QED BY <2>6, <3>1, <3>2
  <2>7. CASE ~ skip
    <3>1. r.fills = Append(s.fills, f) /\ r.matched = sum /\ InMarket(o, rule) /\ qty # 0
      BY <1>1, <2>3, <2>7
    <3>2. qty \in 1 .. o.qty
      BY <1>2, <2>5, <3>1
    <3>3. r.matched = rule.limit \/ Precision * qty >= o.qty * rule.share
      BY <2>1, <2>5, <3>1
    <3>4. r.matched = s.matched + qty
      BY <2>4, <3>1
    <3>5. s.matched # rule.stop /\ s.matched # rule.limit
      BY <1>2, <1>4, <2>1, <2>4, <2>7, <3>1
    <3>6. Precision * qty < o.qty * rule.share + Precision
      <4>1. qty <= want
        BY <1>2, <1>4, <2>1, <2>2, <2>4
      <4>2. Precision * qty <= Precision * want
        BY <2>1, <2>5, <4>1, PrecisionAssumption, Times
      <4>3. /\ Precision * qty \in Int /\ Precision * want \in Int
            /\ o.qty * rule.share + Precision \in Int
        BY <1>2, <1>4, <2>1, <2>5, PrecisionAssumption
      <4> QED BY <2>1, <4>2, <4>3
    <3>7. Gives(rule, s, o, r, qty)
      BY <2>3, <3>1, <3>2, <3>3, <3>4, <3>5, <3>6, Zenon DEF Gives
    <3> QED BY <2>5, <3>7 DEF r
  <2> QED BY <2>6, <2>7
<1> QED BY <1>3, <1>4, Zenon DEF IsRule

\* There are finitely many fills in a sequence of them.
LEMMA GivenFinite ==
  ASSUME NEW fills \in Seq(Fillings)
  PROVE  IsFiniteSet(Given(fills)) /\ Given(fills) \subseteq Fillings
<1> DEFINE n == Len(fills)
           g == [k \in 1 .. n |-> fills[k]]
<1>1. n \in Nat /\ \A k \in 1 .. n : fills[k] \in Fillings
  OBVIOUS
<1>2. IsFiniteSet(1 .. n)
  BY <1>1, FS_Interval
<1>3. g \in Surjection(1 .. n, Given(fills))
  BY DEF Surjection, Given
<1> HIDE DEF g
<1>4. IsFiniteSet(Given(fills))
  BY <1>2, <1>3, FS_Surjection, Zenon
<1> QED BY <1>1, <1>4 DEF Given

\* One more fill.
LEMMA GivenMore ==
  ASSUME NEW fills \in Seq(Fillings), NEW f \in Fillings
  PROVE  Given(Append(fills, f)) = Given(fills) \cup {f}
<1> DEFINE n == Len(fills)
           u == Append(fills, f)
<1>1. n \in Nat /\ Len(u) = n + 1 /\ \A k \in 1 .. n + 1 : u[k] = IF k = n + 1 THEN f ELSE fills[k]
  OBVIOUS
<1> HIDE DEF n, u
<1>2. 1 .. n + 1 = (1 .. n) \cup {n + 1} /\ n + 1 \notin 1 .. n
  BY <1>1
<1>3. u[n + 1] = f /\ \A k \in 1 .. n : u[k] = fills[k]
  BY <1>1, <1>2
<1>4. Given(u) = {u[k] : k \in (1 .. n) \cup {n + 1}}
  BY <1>1, <1>2 DEF Given
<1>5. Given(fills) = {u[k] : k \in 1 .. n}
  BY <1>3 DEF Given, n
<1> QED BY <1>3, <1>4, <1>5 DEF u

\* Under a rule that is ample, what was given so far is what the orders O ask
\* for, or at least their shares, or all there is.
AddsTo(rule, s, O, w) ==
    IF rule.rationed
    THEN /\ s.matched = TotalOf(Given(s.fills))
         /\ \/ s.matched = rule.limit
            \/ Precision * s.matched >= Quantity(w, OpenTo(O, rule)) * rule.share
    ELSE s.matched = 0 /\ TotalOf(Given(s.fills)) = Quantity(w, OpenTo(O, rule))

ServesWell(rule, s, O, w) ==
    /\ Served(rule, s, O)
    /\ \A f \in Given(s.fills) : \E o \in O : InMarket(o, rule) /\ AccountsFor(f, o)
    /\ Ample(rule) => AddsTo(rule, s, O, w)

\* An order that trades adds its quantity to what the open orders ask for.
LEMMA OpenMore ==
  ASSUME NEW rule, NEW w, NEW O, NEW o, o \notin O, Weighs(w, O \cup {o})
  PROVE  /\ Weighs(w, OpenTo(O, rule))
         /\ IF InMarket(o, rule)
            THEN Quantity(w, OpenTo(O \cup {o}, rule)) = o.qty + Quantity(w, OpenTo(O, rule))
            ELSE Quantity(w, OpenTo(O \cup {o}, rule)) = Quantity(w, OpenTo(O, rule))
<1>1. Weighs(w, OpenTo(O, rule))
  <2>1. OpenTo(O, rule) \in SUBSET (O \cup {o})
    BY DEF OpenTo
  <2> QED BY <2>1, WeighsSome
<1>2. CASE InMarket(o, rule)
  <2>1. OpenTo(O \cup {o}, rule) = OpenTo(O, rule) \cup {o} /\ o \notin OpenTo(O, rule)
    BY <1>2 DEF OpenTo
  <2>2. Weighs(w, OpenTo(O, rule) \cup {o})
    <3>1. OpenTo(O, rule) \cup {o} \in SUBSET (O \cup {o})
      BY DEF OpenTo
    <3> QED BY <3>1, WeighsSome
  <2>3. Quantity(w, OpenTo(O, rule) \cup {o}) = o.qty + Quantity(w, OpenTo(O, rule))
    BY <2>1, <2>2, QuantityMore, Zenon
  <2> QED BY <1>1, <1>2, <2>1, <2>3, Zenon
<1>3. CASE ~ InMarket(o, rule)
  <2>1. OpenTo(O \cup {o}, rule) = OpenTo(O, rule)
    BY <1>3 DEF OpenTo
  <2> QED BY <1>1, <1>3, <2>1, Zenon
<1> QED BY <1>2, <1>3

\* One more order is served well.
LEMMA ServesNext ==
  ASSUME NEW rule, IsRule(rule), NEW s, NEW O, NEW w, ServesWell(rule, s, O, w),
         NEW o \in Offers, \A p \in O : p.id # o.id, Weighs(w, O \cup {o})
  PROVE  ServesWell(rule, Serve(rule, s, o), O \cup {o}, w)
<1> DEFINE r == Serve(rule, s, o)
           P == O \cup {o}
           M == Quantity(w, OpenTo(O, rule))
           N == Quantity(w, OpenTo(P, rule))
<1>1. Served(rule, s, O) /\ Served(rule, r, P)
  BY ServedNext DEF ServesWell
<1>2. IF InMarket(o, rule) THEN N = o.qty + M ELSE N = M
  <2>1. o \notin O
    OBVIOUS
  <2> QED BY <2>1, OpenMore
<1>3. M \in Nat /\ o.qty \in Nat
  <2>1. o \notin O
    OBVIOUS
  <2>2. Weighs(w, OpenTo(O, rule))
    BY <2>1, OpenMore
  <2> QED BY <2>2, QuantityNat DEF Offers
<1>4. \/ r = s /\ Skips(rule, s, o)
      \/ \E q \in Nat : Gives(rule, s, o, r, q)
  BY <1>1, ServeIs
<1>5. s.matched \in Nat /\ (rule.rationed => s.matched <= rule.limit) /\ s.fills \in Seq(Fillings)
  BY <1>1 DEF Served, FillsOf
<1>6. \A f \in Given(s.fills) : \E p \in O : InMarket(p, rule) /\ AccountsFor(f, p)
  BY DEF ServesWell
<1>7. Ample(rule) => AddsTo(rule, s, O, w)
  BY DEF ServesWell
<1>8. rule.rationed => rule.share \in Nat /\ rule.limit \in Nat
  BY DEF IsRule
<1>0. Precision \in Nat
  BY PrecisionAssumption
<1>01. P = O \cup {o}
  OBVIOUS
<1> HIDE DEF r, M, N, P
<1>9. CASE r = s /\ Skips(rule, s, o)
  <2>1. \A f \in Given(r.fills) : \E p \in P : InMarket(p, rule) /\ AccountsFor(f, p)
    BY <1>01, <1>6, <1>9
  <2>2. ASSUME Ample(rule) PROVE AddsTo(rule, r, P, w)
    <3>1. CASE ~ InMarket(o, rule)
      <4>1. N = M
        BY <1>2, <3>1
      <4> QED BY <1>7, <1>9, <2>2, <4>1 DEF AddsTo, M, N
    <3>2. CASE InMarket(o, rule) /\ rule.rationed
      <4>1. s.matched = rule.limit \/ o.qty * rule.share = 0
        <5>1. s.matched = rule.stop => s.matched = rule.limit
          BY <1>5, <1>8, <2>2, <3>2 DEF Ample
        <5> QED BY <1>9, <3>2, <5>1 DEF Skips
      <4>2. s.matched = TotalOf(Given(s.fills))
            /\ (s.matched = rule.limit \/ Precision * s.matched >= M * rule.share)
        BY <1>7, <2>2, <3>2, Zenon DEF AddsTo, M
      <4>3. o.qty * rule.share = 0 => N * rule.share = M * rule.share
        <5>1. N = o.qty + M
          BY <1>2, <3>2
        <5>2. \A a, b, c \in Nat : (a + b) * c = a * c + b * c
          OBVIOUS
        <5>3. N * rule.share = o.qty * rule.share + M * rule.share /\ M * rule.share \in Nat
          BY <1>3, <1>8, <3>2, <5>1, <5>2
        <5> QED BY <5>3
      <4>4. s.matched = rule.limit \/ Precision * s.matched >= N * rule.share
        BY <4>1, <4>2, <4>3
      <4> QED BY <1>9, <3>2, <4>2, <4>4, Zenon DEF AddsTo, N
    <3>3. CASE InMarket(o, rule) /\ ~ rule.rationed
      <4>1. s.matched = 0 /\ rule.stop # 0
        BY <1>7, <2>2, <3>3, Zenon DEF AddsTo, Ample
      <4> QED BY <1>9, <3>3, <4>1 DEF Skips
    <3> QED BY <3>1, <3>2, <3>3
  <2>3. ServesWell(rule, r, P, w)
    BY <1>1, <2>1, <2>2 DEF ServesWell
  <2> QED BY <2>3 DEF r, P
<1>10. ASSUME NEW q \in Nat, Gives(rule, s, o, r, q)
       PROVE  ServesWell(rule, r, P, w)
  <2> DEFINE f == [id |-> o.id, filled |-> q, unfilled |-> o.qty - q]
             G == Given(s.fills)
  <2>1. InMarket(o, rule) /\ q \in 1 .. o.qty /\ r.fills = Append(s.fills, f)
    BY <1>10 DEF Gives
  <2>2. f \in Fillings /\ f.id = o.id /\ f.filled = q /\ AccountsFor(f, o)
    BY <1>3, <2>1 DEF Fillings, AccountsFor, Offers
  <2> HIDE DEF f
  <2>3. Given(r.fills) = G \cup {f}
    BY <1>5, <2>1, <2>2, GivenMore
  <2>4. f \notin G
    <3>1. \A g \in G : \E p \in O : g.id = p.id
      BY <1>6 DEF AccountsFor
    <3> HIDE DEF G
    <3> QED BY <2>2, <3>1
  <2>5. IsFiniteSet(G) /\ G \subseteq Fillings
    BY <1>5, GivenFinite
  <2>6. \A g \in Given(r.fills) : \E p \in P : InMarket(p, rule) /\ AccountsFor(g, p)
    BY <1>01, <1>6, <2>1, <2>2, <2>3
  <2>7. TotalOf(G) \in Nat /\ TotalOf(Given(r.fills)) = TotalOf(G) + q
    <3> HIDE DEF G
    <3>1. TotalOf(G) \in Nat /\ TotalMoreBy(G, f)
      BY <2>2, <2>4, <2>5, TotalMore
    <3> QED BY <2>2, <2>3, <3>1, Zenon DEF TotalMoreBy
  <2>8. N = o.qty + M
    BY <1>2, <2>1
  <2>9. ASSUME Ample(rule) PROVE AddsTo(rule, r, P, w)
    <3>1. CASE rule.rationed
      <4>1. s.matched = TotalOf(G)
            /\ (s.matched = rule.limit \/ Precision * s.matched >= M * rule.share)
        BY <1>7, <2>9, <3>1, Zenon DEF AddsTo, M
      <4>2. r.matched = s.matched + q
            /\ (r.matched = rule.limit \/ Precision * q >= o.qty * rule.share)
        BY <1>10, <3>1, Zenon DEF Gives
      <4>3. r.matched = TotalOf(Given(r.fills))
        BY <2>7, <4>1, <4>2, Zenon
      <4>4. r.matched = rule.limit \/ Precision * r.matched >= N * rule.share
        <5>1. CASE s.matched = rule.limit
          <6>1. r.matched <= rule.limit /\ q > 0
            BY <1>1, <2>1, <3>1 DEF Served
          <6> QED BY <1>5, <1>8, <3>1, <4>2, <5>1, <6>1
        <5>2. CASE Precision * s.matched >= M * rule.share /\ Precision * q >= o.qty * rule.share
          <6>1. \A a, b, c \in Nat : (a + b) * c = a * c + b * c /\ c * (a + b) = c * a + c * b /\ a * c \in Nat /\ c * a \in Nat
            OBVIOUS
          <6>2. N * rule.share = o.qty * rule.share + M * rule.share
            BY <1>3, <1>8, <2>8, <3>1, <6>1
          <6>3. Precision * r.matched = Precision * s.matched + Precision * q
            BY <1>0, <1>5, <4>2, <6>1
          <6>4. /\ o.qty * rule.share \in Nat /\ M * rule.share \in Nat
                /\ Precision * s.matched \in Nat /\ Precision * q \in Nat
            BY <1>0, <1>3, <1>5, <1>8, <3>1, <6>1
          <6> QED BY <5>2, <6>2, <6>3, <6>4
        <5> QED BY <4>1, <4>2, <5>1, <5>2
      <4> QED BY <3>1, <4>3, <4>4, Zenon DEF AddsTo, N
    <3>2. CASE ~ rule.rationed
      <4>1. s.matched = 0 /\ TotalOf(G) = M
        BY <1>7, <2>9, <3>2, Zenon DEF AddsTo, M
      <4>2. q = o.qty /\ r.matched = s.matched
        BY <1>10, <3>2, Zenon DEF Gives
      <4>3. TotalOf(Given(r.fills)) = N
        <5>1. \A a, b \in Nat : a + b = b + a
          OBVIOUS
        <5>2. TotalOf(Given(r.fills)) = M + o.qty
          BY <2>7, <4>1, <4>2, Zenon
        <5> QED BY <1>3, <2>8, <5>1, <5>2, Zenon
      <4> QED BY <3>2, <4>1, <4>2, <4>3, Zenon DEF AddsTo, N
    <3> QED BY <3>1, <3>2
  <2> QED BY <1>1, <2>6, <2>9 DEF ServesWell
<1> QED BY <1>4, <1>9, <1>10 DEF r, P

\* What is known of the fills of a side.
SideFills(rule, fills, O, w) ==
    /\ fills \in Seq(Fillings)
    /\ \A k, l \in 1 .. Len(fills) : k # l => fills[k].id # fills[l].id
    /\ \A f \in Given(fills) : \E o \in O : InMarket(o, rule) /\ AccountsFor(f, o)
    /\ Ample(rule) =>
         IF rule.rationed
         THEN \/ TotalOf(Given(fills)) = rule.limit
              \/ /\ TotalOf(Given(fills)) \in Nat
                 /\ TotalOf(Given(fills)) <= rule.limit
                 /\ Precision * TotalOf(Given(fills)) >= Quantity(w, OpenTo(O, rule)) * rule.share
         ELSE TotalOf(Given(fills)) = Quantity(w, OpenTo(O, rule))

\* The orders of a side are served well, to the last one.
LEMMA SideServed ==
  ASSUME NEW rule, IsRule(rule), NEW q \in Seq(Offers), Distinct(q), NEW w, Weighs(w, InBook(q))
  PROVE  SideFills(rule, FillSide(rule, q), InBook(q), w)
<1> DEFINE n == Len(q)
           base == [matched |-> 0, fills |-> <<>>]
<1>1. n \in Nat /\ DOMAIN q = 1 .. n /\ \A i \in 1 .. n : q[i] \in Offers
  OBVIOUS
<1>2. ServesWell(rule, base, {}, w)
  <2>1. FillsOf(<<>>, {}) /\ Given(<<>>) = {}
    BY DEF FillsOf, Given
  <2>2. rule.rationed => 0 <= rule.limit /\ rule.share \in Nat
    BY DEF IsRule
  <2>3. Served(rule, base, {})
    BY <2>1, <2>2 DEF Served
  <2>4. OpenTo({}, rule) = {}
    BY DEF OpenTo
  <2>5. Quantity(w, OpenTo({}, rule)) = 0 /\ TotalOf(Given(<<>>)) = 0
    BY <2>1, <2>4, QuantityEmpty, TotalEmpty, Zenon
  <2>6. rule.rationed => Precision * 0 >= 0 * rule.share
    BY <2>2, PrecisionAssumption
  <2>7. base.matched = 0 /\ base.fills = <<>>
    OBVIOUS
  <2> HIDE DEF base
  <2>8. AddsTo(rule, base, {}, w)
    BY <2>5, <2>6, <2>7, Zenon DEF AddsTo
  <2> QED BY <2>1, <2>3, <2>7, <2>8 DEF ServesWell
<1>3. FillSide(rule, q) = Serving!Fold(rule, base, q).fills
  BY FillSideIsFold
<1>4. \A i \in 0 .. n - 1 : /\ q[i + 1] \notin FirstOf(q, i)
                            /\ FirstOf(q, i + 1) = FirstOf(q, i) \cup {q[i + 1]}
                            /\ Weighs(w, FirstOf(q, i + 1))
  <2> SUFFICES ASSUME NEW i \in 0 .. n - 1
               PROVE  /\ q[i + 1] \notin FirstOf(q, i)
                      /\ FirstOf(q, i + 1) = FirstOf(q, i) \cup {q[i + 1]}
                      /\ Weighs(w, FirstOf(q, i + 1))
    BY Zenon
  <2>1. /\ q[i + 1] \notin FirstOf(q, i)
        /\ FirstOf(q, i + 1) = FirstOf(q, i) \cup {q[i + 1]}
        /\ FirstOf(q, i + 1) \subseteq InBook(q)
    BY OneMore
  <2>2. Weighs(w, FirstOf(q, i + 1))
    BY <2>1, WeighsSome
  <2> QED BY <2>1, <2>2, Zenon
<1>5. Distinct(q) /\ n = Len(q)
  OBVIOUS
<1> HIDE DEF n, base
<1>6. PICK r : Serving!Runs(r, rule, base, q, n)
  BY <1>1, Serving!FoldRuns
<1>7. /\ r[0] = base
      /\ \A i \in 1 .. n : r[i] = Serve(rule, r[i - 1], q[i])
      /\ r[n].fills = FillSide(rule, q)
  BY <1>3, <1>6 DEF Serving!Runs
<1> DEFINE T == {i \in 0 .. n : ServesWell(rule, r[i], FirstOf(q, i), w)}
<1>8. 0 \in T
  <2>1. FirstOf(q, 0) = {} /\ 0 \in 0 .. n
    BY <1>1 DEF FirstOf
  <2> QED BY <1>2, <1>7, <2>1, Zenon
<1>9. ASSUME NEW i \in 0 .. n - 1, i \in T PROVE i + 1 \in T
  <2>1. i + 1 \in 1 .. n /\ (i + 1) - 1 = i /\ i + 1 \in 0 .. n
    BY <1>1
  <2>2. r[i + 1] = Serve(rule, r[i], q[i + 1])
    <3>1. r[i + 1] = Serve(rule, r[(i + 1) - 1], q[i + 1])
      BY <1>7, <2>1
    <3> QED BY <2>1, <3>1
  <2>3. FirstOf(q, i + 1) = FirstOf(q, i) \cup {q[i + 1]} /\ Weighs(w, FirstOf(q, i) \cup {q[i + 1]})
    BY <1>4
  <2>4. \A p \in FirstOf(q, i) : p.id # q[i + 1].id
    BY <1>1, <1>5, <2>1 DEF Distinct, FirstOf
  <2>5. ServesWell(rule, r[i], FirstOf(q, i), w) /\ q[i + 1] \in Offers
    BY <1>1, <1>9, <2>1
  <2>6. ServesWell(rule, r[i + 1], FirstOf(q, i + 1), w)
    <3>1. ServesWell(rule, Serve(rule, r[i], q[i + 1]), FirstOf(q, i) \cup {q[i + 1]}, w)
      BY <2>3, <2>4, <2>5, ServesNext, Zenon
    <3> QED BY <2>2, <2>3, <3>1, Zenon
  <2> QED BY <2>1, <2>6
<1>10. n \in T
  <2> HIDE DEF T
  <2>1. 0 .. n \subseteq T
    BY <1>1, <1>8, <1>9, UpToEnd, Zenon
  <2> QED BY <1>1, <2>1
<1>11. ServesWell(rule, r[n], InBook(q), w)
  <2>1. FirstOf(q, n) = InBook(q)
    BY <1>5 DEF FirstOf, InBook
  <2> QED BY <1>10, <2>1
<1> DEFINE s == r[n]
<1>12. s.fills = FillSide(rule, q) /\ ServesWell(rule, s, InBook(q), w)
  BY <1>7, <1>11
<1> HIDE DEF s
<1>13. SideFills(rule, s.fills, InBook(q), w)
  <2>1. Served(rule, s, InBook(q)) /\ (Ample(rule) => AddsTo(rule, s, InBook(q), w))
        /\ \A f \in Given(s.fills) : \E o \in InBook(q) : InMarket(o, rule) /\ AccountsFor(f, o)
    BY <1>12 DEF ServesWell
  <2>2. /\ s.fills \in Seq(Fillings) /\ s.matched \in Nat /\ (rule.rationed => s.matched <= rule.limit)
        /\ \A k, l \in 1 .. Len(s.fills) : k # l => s.fills[k].id # s.fills[l].id
    BY <2>1 DEF Served, FillsOf
  <2> QED BY <2>1, <2>2, Zenon DEF SideFills, AddsTo
<1> QED BY <1>12, <1>13, Zenon

\* The share of an order is among the fills F.
HasShare(rule, F, o) == \E f \in F : f.id = o.id /\ Precision * f.filled >= o.qty * rule.share

\* A rule that rations shares out to the first n orders of q: nobody gets a
\* unit more than the share, and where one gets less, nobody after does.
Rations(rule, F, q, n) ==
    /\ \A f \in F : \E k \in 1 .. n :
         f.id = q[k].id /\ Precision * f.filled < q[k].qty * rule.share + Precision
    /\ \A k, l \in 1 .. n :
         k < l /\ InMarket(q[k], rule) /\ ~ HasShare(rule, F, q[k]) => \A f \in F : f.id # q[l].id

RationsWell(rule, s, q, i) ==
    /\ Served(rule, s, FirstOf(q, i))
    /\ Rations(rule, Given(s.fills), q, i)
    /\ \/ s.matched = rule.stop \/ s.matched = rule.limit
       \/ \A k \in 1 .. i : InMarket(q[k], rule) => HasShare(rule, Given(s.fills), q[k])

\* One more order gets its share, or what is left.
LEMMA RationsNext ==
  ASSUME NEW rule, IsRule(rule), rule.rationed, rule.share # 0,
         NEW q \in Seq(Offers), Distinct(q), NEW i \in 0 .. Len(q) - 1,
         NEW s, RationsWell(rule, s, q, i)
  PROVE  RationsWell(rule, Serve(rule, s, q[i + 1]), q, i + 1)
<1> DEFINE n == Len(q)
           m == i + 1
           o == q[m]
           r == Serve(rule, s, o)
           F == Given(s.fills)
           G == Given(r.fills)
<1>1. /\ n \in Nat /\ i \in Nat /\ m \in 1 .. n /\ m = i + 1
      /\ \A k \in 1 .. m : k \in 1 .. n /\ (k = m \/ k \in 1 .. i)
      /\ \A k \in 1 .. i : k \in 1 .. m /\ k \in 1 .. n /\ k # m /\ k < m /\ ~ (m < k)
  OBVIOUS
<1>2. o \in Offers /\ \A k, l \in 1 .. n : k # l => q[k].id # q[l].id
  BY <1>1 DEF Distinct
<1>3. /\ Served(rule, s, FirstOf(q, i))
      /\ Rations(rule, F, q, i)
      /\ \/ s.matched = rule.stop \/ s.matched = rule.limit
         \/ \A k \in 1 .. i : InMarket(q[k], rule) => HasShare(rule, F, q[k])
  BY DEF RationsWell
<1>4. Served(rule, r, FirstOf(q, m))
  <2>1. FirstOf(q, m) = FirstOf(q, i) \cup {o}
    BY OneMore
  <2>2. \A p \in FirstOf(q, i) : p.id # o.id
    BY <1>1, <1>2 DEF FirstOf
  <2> HIDE DEF m, o
  <2> QED BY <1>2, <1>3, <2>1, <2>2, ServedNext
<1>5. \/ r = s /\ Skips(rule, s, o)
      \/ \E a \in Nat : Gives(rule, s, o, r, a)
  <2> HIDE DEF m, o
  <2> QED BY <1>2, <1>3, ServeIs
<1>6. /\ \A f \in F : \E k \in 1 .. i :
           f.id = q[k].id /\ Precision * f.filled < q[k].qty * rule.share + Precision
      /\ \A k, l \in 1 .. i :
           k < l /\ InMarket(q[k], rule) /\ ~ HasShare(rule, F, q[k]) => \A f \in F : f.id # q[l].id
  BY <1>3 DEF Rations
<1>7. \A f \in F : f.id # o.id
  BY <1>1, <1>2, <1>6
<1>8. s.fills \in Seq(Fillings)
  BY <1>3 DEF Served, FillsOf
<1>9. o.qty * rule.share # 0
  <2>1. o.qty \in Nat \ {0} /\ rule.share \in Nat \ {0}
    BY <1>2 DEF Offers, IsRule
  <2> QED BY <2>1
<1> HIDE DEF m, o, r
<1>10. CASE r = s /\ Skips(rule, s, o)
  <2>1. G = F
    BY <1>10
  <2>2. InMarket(o, rule) => s.matched = rule.stop \/ s.matched = rule.limit
    BY <1>9, <1>10 DEF Skips
  <2>3. \/ r.matched = rule.stop \/ r.matched = rule.limit
        \/ \A k \in 1 .. m : InMarket(q[k], rule) => HasShare(rule, F, q[k])
    BY <1>1, <1>3, <1>10, <2>2 DEF o
  <2>4. Rations(rule, F, q, m)
    <3>1. \A f \in F : \E k \in 1 .. m :
            f.id = q[k].id /\ Precision * f.filled < q[k].qty * rule.share + Precision
      BY <1>1, <1>6
    <3>2. ASSUME NEW k \in 1 .. m, NEW l \in 1 .. m, k < l, InMarket(q[k], rule),
                 ~ HasShare(rule, F, q[k]), NEW f \in F
          PROVE  f.id # q[l].id
      <4>1. l = m \/ (l \in 1 .. i /\ k \in 1 .. i)
        BY <1>1, <3>2
      <4> QED BY <1>6, <1>7, <3>2, <4>1 DEF o
    <3> QED BY <3>1, <3>2 DEF Rations
  <2> QED BY <1>4, <2>1, <2>3, <2>4 DEF RationsWell, r, o, m
<1>11. ASSUME NEW a \in Nat, Gives(rule, s, o, r, a)
       PROVE  RationsWell(rule, r, q, m)
  <2> DEFINE g == [id |-> o.id, filled |-> a, unfilled |-> o.qty - a]
  <2>1. /\ a \in 1 .. o.qty /\ r.fills = Append(s.fills, g)
        /\ s.matched # rule.stop /\ s.matched # rule.limit
        /\ r.matched = rule.limit \/ Precision * a >= o.qty * rule.share
        /\ Precision * a < o.qty * rule.share + Precision
    BY <1>11 DEF Gives
  <2>2. g \in Fillings /\ g.id = o.id /\ g.filled = a
    <3>1. o.id \in Nat /\ o.qty \in Nat
      BY <1>2 DEF Offers
    <3>2. o.qty - a \in Nat
      BY <2>1, <3>1
    <3> QED BY <3>1, <3>2 DEF Fillings
  <2> HIDE DEF g
  <2>3. G = F \cup {g}
    BY <1>8, <2>1, <2>2, GivenMore
  <2>4. \A k \in 1 .. i : InMarket(q[k], rule) => HasShare(rule, F, q[k])
    BY <1>3, <2>1
  <2> HIDE DEF F, G
  <2>5. \A k \in 1 .. i : InMarket(q[k], rule) => HasShare(rule, G, q[k])
    BY <2>3, <2>4 DEF HasShare
  <2>6. r.matched = rule.limit \/ HasShare(rule, G, o)
    BY <2>1, <2>2, <2>3 DEF HasShare
  <2>7. \/ r.matched = rule.stop \/ r.matched = rule.limit
        \/ \A k \in 1 .. m : InMarket(q[k], rule) => HasShare(rule, G, q[k])
    BY <1>1, <2>5, <2>6 DEF o
  <2>8. Rations(rule, G, q, m)
    <3>1. \A f \in G : \E k \in 1 .. m :
            f.id = q[k].id /\ Precision * f.filled < q[k].qty * rule.share + Precision
      <4>1. g.id = q[m].id /\ Precision * g.filled < q[m].qty * rule.share + Precision /\ m \in 1 .. m
        BY <1>1, <2>1, <2>2 DEF o
      <4> QED BY <1>1, <1>6, <2>3, <4>1
    <3>2. \A k, l \in 1 .. m : k < l /\ InMarket(q[k], rule) => HasShare(rule, G, q[k])
      <4>1. \A k, l \in 1 .. m : k < l => k \in 1 .. i
        BY <1>1
      <4> QED BY <2>5, <4>1
    <3> QED BY <3>1, <3>2 DEF Rations
  <2> QED BY <1>4, <2>7, <2>8 DEF RationsWell, G
<1> QED BY <1>5, <1>10, <1>11 DEF r, o, m

\* The orders of a side are rationed to the last one.
LEMMA SideRations ==
  ASSUME NEW rule, IsRule(rule), rule.rationed, rule.share # 0,
         NEW q \in Seq(Offers), Distinct(q)
  PROVE  Rations(rule, Given(FillSide(rule, q)), q, Len(q))
<1> DEFINE n == Len(q)
           base == [matched |-> 0, fills |-> <<>>]
<1>1. n \in Nat /\ DOMAIN q = 1 .. n
  OBVIOUS
<1>2. RationsWell(rule, base, q, 0)
  <2>1. FillsOf(<<>>, {}) /\ Given(<<>>) = {} /\ FirstOf(q, 0) = {}
    BY DEF FillsOf, Given, FirstOf
  <2>2. 0 <= rule.limit
    BY DEF IsRule
  <2>3. Served(rule, base, {})
    BY <2>1, <2>2 DEF Served
  <2>4. Rations(rule, {}, q, 0)
    BY DEF Rations
  <2>5. base.matched = 0 /\ base.fills = <<>>
    OBVIOUS
  <2> HIDE DEF base
  <2>6. 1 .. 0 = {}
    OBVIOUS
  <2>7. \A k \in 1 .. 0 : InMarket(q[k], rule) => HasShare(rule, Given(base.fills), q[k])
    BY <2>6
  <2> QED BY <2>1, <2>3, <2>4, <2>5, <2>7, Zenon DEF RationsWell
<1>3. FillSide(rule, q) = Serving!Fold(rule, base, q).fills
  BY FillSideIsFold
<1>4. \A i \in 0 .. n - 1 : \A s :
        RationsWell(rule, s, q, i) => RationsWell(rule, Serve(rule, s, q[i + 1]), q, i + 1)
  BY RationsNext
<1>5. n = Len(q)
  OBVIOUS
<1> HIDE DEF n, base
<1>6. PICK r : Serving!Runs(r, rule, base, q, n)
  BY <1>1, Serving!FoldRuns
<1>7. /\ r[0] = base
      /\ \A i \in 1 .. n : r[i] = Serve(rule, r[i - 1], q[i])
      /\ r[n].fills = FillSide(rule, q)
  BY <1>3, <1>6 DEF Serving!Runs
<1> DEFINE T == {i \in 0 .. n : RationsWell(rule, r[i], q, i)}
<1>8. 0 \in T
  BY <1>1, <1>2, <1>7
<1>9. ASSUME NEW i \in 0 .. n - 1, i \in T PROVE i + 1 \in T
  <2>1. i + 1 \in 1 .. n /\ (i + 1) - 1 = i /\ i + 1 \in 0 .. n
    BY <1>1
  <2>2. r[i + 1] = Serve(rule, r[i], q[i + 1])
    <3>1. r[i + 1] = Serve(rule, r[(i + 1) - 1], q[i + 1])
      BY <1>7, <2>1
    <3> QED BY <2>1, <3>1
  <2>3. RationsWell(rule, r[i + 1], q, i + 1)
    BY <1>4, <1>9, <2>2
  <2> QED BY <2>1, <2>3
<1>10. n \in T
  <2> HIDE DEF T
  <2>1. 0 .. n \subseteq T
    BY <1>1, <1>8, <1>9, UpToEnd, Zenon
  <2> QED BY <1>1, <2>1
<1>11. RationsWell(rule, r[n], q, n)
  BY <1>10
<1> QED BY <1>5, <1>7, <1>11 DEF RationsWell

-----------------------------------------------------------------------------
(***************************************************************************)
(* The clearing price.                                                     *)
(***************************************************************************)

\* e is between two entries of t that agree with it.
OnTable(t, e) ==
    /\ e.supply > 0
    /\ \E i, j \in 1 .. Len(t) :
         /\ t[i].price <= e.price /\ t[i].supply = e.supply /\ t[i].demand = e.demand
         /\ e.price <= t[j].price /\ t[j].supply = e.supply /\ t[j].demand = e.demand

\* The clearing entry is one of the table, or the midpoint of a flat part.
LEMMA ClearingIsOn ==
  ASSUME NEW t, Meets(t)
  PROVE  OnTable(t, Clearing(t))
<1> DEFINE n == Len(t)
           x == Exit(t)
           Stops == {i \in Crossings(t) : FlatTop(t, i) # 0 \/ t[i - 1].supply > 0}
<1>1. n \in Nat \ {0} /\ t \in Seq(Entries) /\ DOMAIN t = 1 .. n
  BY DEF Meets
<1>2. \A i \in 1 .. n : t[i].price \in Nat /\ t[i].supply \in Nat /\ t[i].demand \in Nat
  <2>1. \A i \in 1 .. n : t[i] \in Entries
    BY <1>1
  <2> QED BY <2>1 DEF Entries
<1>3. \A i, j \in 1 .. n : i <= j => /\ t[i].price <= t[j].price
                                     /\ t[i].supply <= t[j].supply
                                     /\ t[j].demand <= t[i].demand
  <2> SUFFICES ASSUME NEW i \in 1 .. n, NEW j \in 1 .. n, i <= j
               PROVE  /\ t[i].price <= t[j].price
                      /\ t[i].supply <= t[j].supply
                      /\ t[j].demand <= t[i].demand
    OBVIOUS
  <2>1. i = j \/ i < j
    OBVIOUS
  <2> QED BY <1>2, <2>1, SMTT(30) DEF Meets
<1>4. PICK k \in 1 .. n : t[k].supply > 0 /\ t[k].demand > 0
  BY DEF Meets
<1>5. Crossings(t) \subseteq 2 .. n
  BY <1>1 DEF Crossings, Crossed
<1>6. x \in 2 .. n + 1 /\ (x = n + 1 \/ x \in Stops)
  <2>1. {n + 1} \cup Stops \in SUBSET Nat /\ {n + 1} \cup Stops # {}
    BY <1>1, <1>5
  <2>2. x = Min({n + 1} \cup Stops)
    BY DEF Exit
  <2> HIDE DEF Stops
  <2>3. x \in {n + 1} \cup Stops
    BY <2>1, <2>2, MinIs
  <2> USE DEF Stops
  <2> QED BY <1>1, <1>5, <2>3
<1> DEFINE f == Found(t, x)
           c == CrossPoint(t, x)
           h == HorizontalCross(t, f, c)
<1>7. Clearing(t) = h
  BY DEF Clearing, ClearingAt
<1>8. c \in 1 .. n
  <2> DEFINE C == {1} \cup {i \in Crossings(t) : i < x \/ (i = x /\ ~ Flat(t, x))}
  <2>1. C \in SUBSET (0 .. n) /\ C # {} /\ n \in Nat
    BY <1>1, <1>5
  <2>2. c = Max(C)
    BY DEF CrossPoint
  <2>3. C \subseteq 1 .. n
    BY <1>1, <1>5
  <2> HIDE DEF C, c
  <2>4. c \in C
    BY <2>1, <2>2, MaxIs, Zenon
  <2> QED BY <2>3, <2>4
<1> HIDE DEF x, c
<1>9. OnTable(t, f)
  <2>1. CASE Flat(t, x)
    <3> DEFINE top == FlatTop(t, x)
               Same(j) == t[j].supply = t[x].supply /\ t[j].demand = t[x].demand
               J == {0} \cup {j \in x + 1 .. n : \A l \in x + 1 .. j : Same(l)}
    <3>1. x \in 2 .. n /\ top # 0 /\ x \in Crossings(t) /\ x - 1 \in 1 .. n
      BY <1>1, <1>6, <2>1 DEF Flat
    <3>2. top \in x + 1 .. n /\ \A l \in x + 1 .. top : Same(l)
      <4>1. J \in SUBSET (0 .. n) /\ J # {} /\ top = Max(J)
        BY <1>6 DEF FlatTop
      <4> HIDE DEF J
      <4>2. top \in J
        BY <1>1, <4>1, MaxIs, Zenon
      <4> USE DEF J
      <4> HIDE DEF top
      <4> QED BY <3>1, <4>2
    <3> HIDE DEF top
    <3>3. x + 1 \in x + 1 .. top /\ x + 1 \in 2 .. n /\ (x + 1) - 1 = x /\ top \in x + 1 .. top
      BY <1>6, <3>2
    <3>4. Same(x + 1) /\ Same(top)
      BY <3>2, <3>3
    <3>5. t[x + 1].demand > 0 \/ t[x].supply < t[x + 1].supply
      <4>1. t[x + 1].demand > 0 \/ t[(x + 1) - 1].supply < t[x + 1].supply
        BY <3>3 DEF Meets
      <4> QED BY <3>3, <4>1
    <3>6. t[x].demand > 0 /\ t[x].supply \in Nat /\ t[x].demand \in Nat /\ t[x].price \in Nat
      BY <1>2, <3>1, <3>3, <3>4, <3>5
    <3>7. t[x].supply > 0
      <4>1. t[x - 1].supply <= t[x].supply /\ t[x].demand <= t[x - 1].demand
        BY <1>3, <3>1
      <4>2. CalcDir(t[x - 1]) # CalcDir(t[x])
        BY <3>1 DEF Crossings, Crossed
      <4> SUFFICES ASSUME t[x].supply = 0 PROVE FALSE
        BY <3>6
      <4>3. t[x - 1].supply = 0 /\ t[x - 1].demand > 0
        BY <1>2, <3>1, <3>6, <4>1
      <4>4. CalcDir(t[x]) = -1
        <5>1. ~ (t[x].supply > t[x].demand) /\ t[x].supply # t[x].demand
          BY <3>6
        <5> QED BY <5>1 DEF CalcDir
      <4>5. CalcDir(t[x - 1]) = -1
        <5>1. ~ (t[x - 1].supply > t[x - 1].demand) /\ t[x - 1].supply # t[x - 1].demand
          BY <1>2, <3>1, <4>3
        <5> QED BY <5>1 DEF CalcDir
      <4> QED BY <4>2, <4>4, <4>5
    <3>8. t[top].price \in Nat /\ t[x].price <= t[top].price
      BY <1>2, <1>3, <3>1, <3>2
    <3> DEFINE mid == t[x].price + (t[top].price - t[x].price) \div 2
    <3>9. t[x].price <= mid /\ mid <= t[top].price /\ mid \in Nat
      <4>1. \A a, b \in Nat : a <= b => /\ a <= a + (b - a) \div 2
                                        /\ a + (b - a) \div 2 <= b
                                        /\ a + (b - a) \div 2 \in Nat
        OBVIOUS
      <4> QED BY <3>6, <3>8, <4>1, Zenon
    <3>10. f = [t[x] EXCEPT !.price = mid] /\ t[x] \in Entries
      BY <1>1, <2>1, <3>1 DEF Found, top
    <3> HIDE DEF mid, f
    <3>11. f.price = mid /\ f.supply = t[x].supply /\ f.demand = t[x].demand
      BY <3>10 DEF Entries
    <3>12. x \in 1 .. n /\ top \in 1 .. n
      BY <3>1, <3>2
    <3> QED BY <3>4, <3>7, <3>9, <3>11, <3>12 DEF OnTable
  <2>2. CASE ~ Flat(t, x)
    <3>1. f = t[x - 1] /\ x - 1 \in 1 .. n
      BY <1>6, <2>2 DEF Found
    <3> HIDE DEF f
    <3>2. t[x - 1].supply > 0
      <4>1. CASE x = n + 1
        <5>1. t[k].supply <= t[n].supply /\ x - 1 = n /\ n \in 1 .. n
          BY <1>1, <1>3, <4>1
        <5> QED BY <1>2, <1>4, <5>1
      <4>2. CASE x # n + 1
        BY <1>5, <1>6, <2>2, <4>2 DEF Flat
      <4> QED BY <4>1, <4>2
    <3>3. t[x - 1].price <= t[x - 1].price
      BY <1>2, <3>1
    <3> QED BY <3>1, <3>2, <3>3 DEF OnTable
  <2> QED BY <2>1, <2>2
<1>10. h = f \/ (h = t[c] /\ t[c].supply > 0)
  BY DEF HorizontalCross
<1> HIDE DEF h, f
<1>11. CASE h = t[c] /\ t[c].supply > 0
  <2>1. t[c].price <= t[c].price
    BY <1>2, <1>8
  <2> QED BY <1>7, <1>8, <1>11, <2>1 DEF OnTable
<1> QED BY <1>7, <1>9, <1>10, <1>11

\* What the clearing entry says is supplied and wanted, is so at its price.
EntryIs(e, w, B, A) ==
    /\ e.supply = Quantity(w, Cheap(A, e.price))
    /\ e.demand = Quantity(w, Dear(B, e.price))

LEMMA ClearingShows ==
  ASSUME NEW t, NEW e, e.price \in Nat, OnTable(t, e),
         NEW w, NEW A, NEW B, Weighs(w, A), Weighs(w, B), Curves(t, w, B, A)
  PROVE  EntryIs(e, w, B, A)
<1>1. PICK i \in 1 .. Len(t), j \in 1 .. Len(t) :
         /\ t[i].price <= e.price /\ t[i].supply = e.supply /\ t[i].demand = e.demand
         /\ e.price <= t[j].price /\ t[j].supply = e.supply /\ t[j].demand = e.demand
  BY DEF OnTable
<1> DEFINE p == t[i].price
           q == t[j].price
           x == e.price
<1>2. p \in Nat /\ q \in Nat /\ x \in Nat /\ p <= x /\ x <= q
  <2>1. t[i] \in Entries /\ t[j] \in Entries
    BY DEF Curves
  <2> QED BY <1>1, <2>1 DEF Entries
<1>3. e.supply = Quantity(w, Cheap(A, p)) /\ e.supply = Quantity(w, Cheap(A, q))
      /\ e.demand = Quantity(w, Dear(B, p)) /\ e.demand = Quantity(w, Dear(B, q))
  BY <1>1, Zenon DEF Curves, ShowsSupply
<1> HIDE DEF p, q, x
<1>4. \A o \in A \cup B : o.price \in Nat
  BY DEF Weighs, Offers
<1>5. Cheap(A, p) \in SUBSET Cheap(A, x) /\ Cheap(A, x) \in SUBSET Cheap(A, q) /\ Cheap(A, q) \in SUBSET A
  BY <1>2, <1>4 DEF Cheap
<1>6. Dear(B, q) \in SUBSET Dear(B, x) /\ Dear(B, x) \in SUBSET Dear(B, p) /\ Dear(B, p) \in SUBSET B
  BY <1>2, <1>4 DEF Dear
<1>7. Weighs(w, Cheap(A, x)) /\ Weighs(w, Cheap(A, q)) /\ Weighs(w, Dear(B, x)) /\ Weighs(w, Dear(B, p))
  <2>1. Cheap(A, x) \in SUBSET A /\ Dear(B, x) \in SUBSET B
    BY DEF Cheap, Dear
  <2> QED BY <1>5, <1>6, <2>1, WeighsSome
<1>8. /\ Quantity(w, Cheap(A, p)) <= Quantity(w, Cheap(A, x))
      /\ Quantity(w, Cheap(A, x)) <= Quantity(w, Cheap(A, q))
      /\ Quantity(w, Cheap(A, x)) \in Nat /\ Quantity(w, Cheap(A, q)) \in Nat
  BY <1>5, <1>7, QuantityUpTo, QuantityNat
<1>9. /\ Quantity(w, Dear(B, q)) <= Quantity(w, Dear(B, x))
      /\ Quantity(w, Dear(B, x)) <= Quantity(w, Dear(B, p))
      /\ Quantity(w, Dear(B, x)) \in Nat /\ Quantity(w, Dear(B, p)) \in Nat
  BY <1>6, <1>7, QuantityUpTo, QuantityNat
<1>10. e.supply = Quantity(w, Cheap(A, x)) /\ e.demand = Quantity(w, Dear(B, x))
  BY <1>3, <1>8, <1>9
<1> QED BY <1>10 DEF EntryIs, x

-----------------------------------------------------------------------------
(***************************************************************************)
(* Rounding: when the precision is more than twice what is traded, limits  *)
(* are whole again.                                                        *)
(***************************************************************************)

\* The units c are no more than half a unit from n.
Near(n, c) ==
    /\ 2 * n <= 2 * (Precision * c) + Precision
    /\ 2 * (Precision * c) <= 2 * n + Precision

LEMMA RoundsNear ==
  ASSUME NEW n \in Nat
  PROVE  ChopRound(n) \in Nat /\ Near(n, ChopRound(n))
<1> DEFINE q == n \div Precision
           r == n % Precision
<1>0. Precision \in Nat \ {0}
  BY PrecisionAssumption
<1>1. /\ q \in Nat /\ Precision * q <= n /\ n < Precision * q + Precision
      /\ r = n - Precision * q
  BY <1>0, Quotient, Zenon
<1>2. ChopRound(n) = CASE 2 * r < Precision -> q
                       [] 2 * r > Precision -> q + 1
                       [] OTHER             -> IF q % 2 = 0 THEN q ELSE q + 1
  BY DEF ChopRound
<1> HIDE DEF q, r
<1>3. Precision * q \in Int /\ Precision * (q + 1) = Precision * q + Precision /\ r \in Int
  BY <1>0, <1>1
<1>4. CASE 2 * r < Precision
  <2>1. ~ (2 * r > Precision)
    BY <1>0, <1>3, <1>4
  <2>2. ChopRound(n) = q
    BY <1>2, <1>4, <2>1
  <2> QED BY <1>0, <1>1, <1>3, <1>4, <2>2 DEF Near
<1>5. CASE 2 * r > Precision
  <2>1. ~ (2 * r < Precision)
    BY <1>0, <1>3, <1>5
  <2>2. ChopRound(n) = q + 1
    BY <1>2, <1>5, <2>1
  <2>3. q + 1 \in Nat /\ Near(n, q + 1)
    BY <1>0, <1>1, <1>3, <1>5 DEF Near
  <2> QED BY <2>2, <2>3
<1>6. CASE 2 * r = Precision
  <2>1. ~ (2 * r < Precision) /\ ~ (2 * r > Precision)
    BY <1>0, <1>6
  <2>2. ChopRound(n) \in {q, q + 1}
    BY <1>2, <2>1
  <2>3. q \in Nat /\ q + 1 \in Nat /\ Near(n, q) /\ Near(n, q + 1)
    BY <1>0, <1>1, <1>3, <1>6 DEF Near
  <2> QED BY <2>2, <2>3
<1> QED BY <1>0, <1>3, <1>4, <1>5, <1>6

\* What is less than half a unit from a whole number rounds to it.
LEMMA Nearest ==
  ASSUME NEW n \in Nat, NEW c \in Nat,
         2 * n < 2 * (Precision * c) + Precision,
         2 * (Precision * c) < 2 * n + Precision
  PROVE  ChopRound(n) = c
<1> DEFINE k == ChopRound(n)
<1>0. Precision \in Nat \ {0}
  BY PrecisionAssumption
<1>1. k \in Nat /\ Near(n, k)
  BY RoundsNear
<1> HIDE DEF k
<1>2. Precision * k \in Int /\ Precision * c \in Int
  BY <1>0, <1>1
<1>3. Precision * k < Precision * c + Precision /\ Precision * c < Precision * k + Precision
  BY <1>0, <1>1, <1>2 DEF Near
<1>4. Precision * (c + 1) = Precision * c + Precision /\ Precision * (k + 1) = Precision * k + Precision
  BY <1>0, <1>1
<1>5. k < c + 1 /\ c < k + 1
  BY <1>0, <1>1, <1>3, <1>4, Cancel
<1> QED BY <1>1, <1>5 DEF k

\* The ratio of supply and demand, in units, times the demand: the supply, up
\* to half the demand.
IsRatio(s, d, ratio) ==
    /\ ratio \in Nat
    /\ 2 * (ratio * d) <= 2 * (s * Precision) + d
    /\ 2 * (s * Precision) <= 2 * (ratio * d) + d

LEMMA RatioIs ==
  ASSUME NEW s \in Nat, NEW d \in Nat \ {0}, 2 * d < Precision
  PROVE  IsRatio(s, d, QuoInts(s, d))
<1> DEFINE p == Precision
           x == s * Precision * Precision
           m == x \div d
           r == ChopRound(m)
<1>0. p \in Nat \ {0}
  BY PrecisionAssumption
<1>1. s * p \in Nat /\ x = (s * p) * p /\ x \in Nat
  BY <1>0
<1>2. QuoInts(s, d) = r
  BY DEF QuoInts
<1> HIDE DEF x
<1>3. m \in Nat /\ d * m <= x /\ x < d * m + d
  BY <1>1, Quotient
<1>4. r \in Nat /\ 2 * m <= 2 * (p * r) + p /\ 2 * (p * r) <= 2 * m + p
  <2> HIDE DEF m
  <2> QED BY <1>3, RoundsNear DEF Near
<1>5. 2 * d < p
  OBVIOUS
<1> HIDE DEF m, r, p
<1> DEFINE a == 2 * (r * d)
           b == 2 * (s * p)
<1>6. /\ p * r \in Int /\ d * m \in Int /\ p * d \in Int /\ d * (p * r) \in Int
      /\ a \in Int /\ b \in Int /\ p * a \in Int /\ p * b \in Int
  BY <1>0, <1>1, <1>3, <1>4
<1>7. p * a = 2 * (d * (p * r)) /\ p * b = 2 * x
  <2>1. p * a = 2 * (d * (p * r))
    BY <1>0, <1>4
  <2>2. p * b = 2 * ((s * p) * p)
    BY <1>0
  <2> QED BY <1>1, <2>1, <2>2
<1>8. d * (2 * (p * r)) <= d * (2 * m + p) /\ d * (2 * m) <= d * (2 * (p * r) + p)
  BY <1>0, <1>3, <1>4, <1>6, Times
<1>9. /\ d * (2 * (p * r)) = 2 * (d * (p * r)) /\ d * (2 * m + p) = 2 * (d * m) + p * d
      /\ d * (2 * m) = 2 * (d * m) /\ d * (2 * (p * r) + p) = 2 * (d * (p * r)) + p * d
  BY <1>0, <1>3, <1>4
<1>10. p * (b + d + 1) = p * b + p * d + p /\ p * (a + d + 1) = p * a + p * d + p
  BY <1>0, <1>6
<1> HIDE DEF a, b
<1>11. p * a < p * (b + d + 1) /\ p * b < p * (a + d + 1)
  <2>1. 2 * (d * (p * r)) <= 2 * (d * m) + p * d /\ 2 * (d * m) <= 2 * (d * (p * r)) + p * d
    BY <1>8, <1>9
  <2>2. d * m <= x /\ x < d * m + d /\ x \in Int
    BY <1>1, <1>3
  <2> DEFINE u == p * a
             v == p * b
             c == p * d
             y == d * m
             z == d * (p * r)
  <2>3. /\ u \in Int /\ v \in Int /\ c \in Int /\ y \in Int /\ z \in Int
        /\ u = 2 * z /\ v = 2 * x /\ 2 * z <= 2 * y + c /\ 2 * y <= 2 * z + c /\ y <= x /\ x < y + d
    BY <1>6, <1>7, <2>1, <2>2
  <2>4. p * (b + d + 1) = v + c + p /\ p * (a + d + 1) = u + c + p
    BY <1>10
  <2> HIDE DEF u, v, c, y, z
  <2>5. u < v + c + p /\ v < u + c + p
    BY <1>0, <1>5, <2>2, <2>3
  <2> QED BY <2>4, <2>5 DEF u, v
<1>12. a < b + d + 1 /\ b < a + d + 1
  BY <1>0, <1>6, <1>11, Cancel
<1>13. a <= b + d /\ b <= a + d
  BY <1>6, <1>12
<1>14. IsRatio(s, d, r)
  BY <1>4, <1>13 DEF IsRatio, a, b, p
<1> QED BY <1>2, <1>14

\* When no less is wanted than offered, the bids are rationed to the supply,
\* and nothing stops before it.
LEMMA BidsRationed ==
  ASSUME NEW s \in Nat \ {0}, NEW d \in Nat \ {0}, s <= d, 2 * d < Precision,
         NEW ratio, IsRatio(s, d, ratio)
  PROVE  /\ ratio > 0 /\ ratio <= Precision
         /\ RoundInt(d * ratio) = s
         /\ RoundInt(s * Recip(ratio)) \in Nat /\ s <= RoundInt(s * Recip(ratio))
<1> DEFINE p == Precision
<1>0. p \in Nat \ {0} /\ 2 * d < p
  BY PrecisionAssumption
<1>1. ratio \in Nat /\ 2 * (ratio * d) <= 2 * (s * p) + d /\ 2 * (s * p) <= 2 * (ratio * d) + d
  BY DEF IsRatio
<1> HIDE DEF p
<1>2. s * p \in Nat /\ ratio * d \in Nat /\ d * ratio = ratio * d /\ p * s = s * p
  BY <1>0, <1>1
<1>3. ratio > 0
  <2>1. p * 1 <= p * s
    BY <1>0, Times
  <2>2. ratio = 0 => ratio * d = 0
    BY <1>1
  <2> QED BY <1>0, <1>1, <1>2, <2>1, <2>2
<1>4. ratio <= p
  <2>1. p * s <= p * d
    BY <1>0, Times
  <2>2. p * d \in Nat /\ d * (p + 1) = p * d + d /\ d * ratio < d * (p + 1)
    BY <1>0, <1>1, <1>2, <2>1
  <2>3. ratio < p + 1
    BY <1>0, <1>1, <2>2, Cancel
  <2> QED BY <1>0, <1>1, <2>3
<1>5. RoundInt(d * ratio) = s
  <2>1. 2 * (d * ratio) < 2 * (p * s) + p /\ 2 * (p * s) < 2 * (d * ratio) + p
    BY <1>0, <1>1, <1>2
  <2>2. d * ratio \in Nat
    BY <1>2
  <2> QED BY <2>1, <2>2, Nearest DEF RoundInt, p
<1> DEFINE y == Precision * Precision * Precision
           m == y \div ratio
           q == ChopRound(m)
<1>6. p * p \in Nat /\ y = (p * p) * p /\ y \in Nat
  BY <1>0 DEF p
<1>7. Recip(ratio) = q
  BY DEF Recip
<1> HIDE DEF y
<1>8. m \in Nat /\ y < ratio * m + ratio
  <2>1. ratio \in Nat \ {0}
    BY <1>1, <1>3
  <2> QED BY <1>6, <2>1, Quotient, Zenon
<1> HIDE DEF m
<1>9. q \in Nat /\ 2 * m <= 2 * (p * q) + p
  BY <1>8, RoundsNear DEF Near, p
<1> HIDE DEF q
<1>10. p * p <= m
  <2>1. (p * p) * ratio <= (p * p) * p
    BY <1>0, <1>1, <1>4, <1>6, Times
  <2>2. (p * p) * ratio = ratio * (p * p) /\ ratio * (p * p) \in Int /\ ratio * m \in Int
        /\ ratio * (m + 1) = ratio * m + ratio
    BY <1>0, <1>1, <1>6, <1>8
  <2>3. ratio * (p * p) < ratio * (m + 1)
    BY <1>1, <1>6, <1>8, <2>1, <2>2
  <2>4. p * p < m + 1
    BY <1>1, <1>3, <1>6, <1>8, <2>3, Cancel
  <2> QED BY <1>6, <1>8, <2>4
<1>11. p <= q
  <2>1. p * p < p * q + p /\ p * (q + 1) = p * q + p /\ p * q \in Int
    BY <1>0, <1>6, <1>8, <1>9, <1>10
  <2>2. p < q + 1
    BY <1>0, <1>9, <2>1, Cancel
  <2> QED BY <1>0, <1>9, <2>2
<1> DEFINE c == ChopRound(s * q)
<1>12. s * q \in Nat /\ s * p <= s * q
  BY <1>0, <1>9, <1>11, Times
<1>13. c \in Nat /\ 2 * (s * q) <= 2 * (p * c) + p
  BY <1>12, RoundsNear DEF Near, p
<1> HIDE DEF c
<1>14. s <= c
  <2>1. p * s < p * c + p /\ p * (c + 1) = p * c + p
    BY <1>0, <1>2, <1>12, <1>13
  <2>2. s < c + 1
    BY <1>0, <1>13, <2>1, Cancel
  <2> QED BY <1>13, <2>2
<1> QED BY <1>3, <1>4, <1>5, <1>7, <1>13, <1>14 DEF RoundInt, p, c

\* The reciprocal of a ratio above one, from both sides: times the ratio, one,
\* up to half a unit and what the division drops.
IsRecip(s, ratio, recip) ==
    /\ recip \in Nat
    /\ 2 * (ratio * recip) <= 2 * (Precision * Precision) + ratio
    /\ 2 * (s * (Precision * Precision)) < 2 * (s * (ratio * recip)) + s * ratio + ratio

LEMMA RecipIs ==
  ASSUME NEW s \in Nat, 2 * s < Precision, NEW ratio \in Nat, Precision < ratio
  PROVE  IsRecip(s, ratio, Recip(ratio))
<1> DEFINE p == Precision
           W == p * p
           y == p * p * p
           m == y \div ratio
           q == ChopRound(m)
           z == ratio * q
<1>0. p \in Nat \ {0} /\ ratio \in Nat \ {0} /\ 2 * s < p
  BY PrecisionAssumption
<1>1. W \in Nat /\ y = W * p /\ y \in Nat
  BY <1>0
<1>2. Recip(ratio) = q
  BY DEF Recip
<1> HIDE DEF y
<1>3. m \in Nat /\ ratio * m <= y /\ y < ratio * m + ratio
  BY <1>0, <1>1, Quotient, Zenon
<1> HIDE DEF m
<1>4. q \in Nat /\ 2 * m <= 2 * (p * q) + p /\ 2 * (p * q) <= 2 * m + p
  BY <1>3, RoundsNear DEF Near
<1> HIDE DEF p, q
<1>5. z \in Nat /\ ratio * m \in Nat /\ p * ratio \in Nat /\ p * q \in Nat
  BY <1>0, <1>3, <1>4
<1>6. ratio * (2 * m) <= ratio * (2 * (p * q) + p) /\ ratio * (2 * (p * q)) <= ratio * (2 * m + p)
  BY <1>0, <1>3, <1>4, <1>5, Times
<1>7. /\ ratio * (2 * m) = 2 * (ratio * m)
      /\ ratio * (2 * (p * q) + p) = p * (2 * z + ratio)
      /\ ratio * (2 * (p * q)) = p * (2 * z)
      /\ ratio * (2 * m + p) = 2 * (ratio * m) + p * ratio
  BY <1>0, <1>3, <1>4
<1>8. 2 * y = p * (2 * W)
  <2> HIDE DEF W
  <2> QED BY <1>0, <1>1
<1> HIDE DEF W, z
<1>9. 2 * z <= 2 * W + ratio
  <2>1. p * (2 * W + ratio + 1) = p * (2 * W) + p * ratio + p
    BY <1>0, <1>1
  <2>2. p * (2 * z) <= 2 * (ratio * m) + p * ratio
    BY <1>6, <1>7
  <2>3. p * (2 * z) \in Int /\ p * (2 * W) \in Int
    BY <1>0, <1>1, <1>5
  <2>4. p * (2 * z) < p * (2 * W + ratio + 1)
    BY <1>0, <1>1, <1>3, <1>5, <1>8, <2>1, <2>2, <2>3
  <2>5. 2 * z < 2 * W + ratio + 1
    BY <1>0, <1>1, <1>5, <2>4, Cancel
  <2> QED BY <1>0, <1>1, <1>5, <2>5
<1>10. 2 * (s * W) < 2 * (s * z) + s * ratio + ratio
  <2>1. p * (2 * W) <= p * (2 * z + ratio) + 2 * ratio
    <3>1. p * (2 * z + ratio) \in Int /\ p * (2 * W) \in Int
      BY <1>0, <1>1, <1>5
    <3> QED BY <1>0, <1>1, <1>3, <1>5, <1>6, <1>7, <1>8, <3>1
  <2>2. s * (p * (2 * W)) <= s * (p * (2 * z + ratio) + 2 * ratio)
    <3>1. p * (2 * z + ratio) + 2 * ratio \in Int /\ p * (2 * W) \in Int
      BY <1>0, <1>1, <1>5
    <3> QED BY <2>1, <3>1, Times
  <2> DEFINE a == 2 * (s * W)
             b == 2 * (s * z) + s * ratio
  <2>3. a \in Int /\ b \in Int
    BY <1>0, <1>1, <1>5
  <2>4. s * (p * (2 * W)) = p * a
    BY <1>0, <1>1
  <2>5. s * (p * (2 * z + ratio) + 2 * ratio) = p * b + 2 * (s * ratio)
    BY <1>0, <1>5
  <2>6. 2 * (s * ratio) < p * ratio
    <3>1. ratio * (2 * s + 1) <= ratio * p
      BY <1>0, Times
    <3>2. ratio * (2 * s + 1) = 2 * (s * ratio) + ratio /\ ratio * p = p * ratio /\ s * ratio \in Int
      BY <1>0
    <3> QED BY <1>0, <1>5, <3>1, <3>2
  <2> HIDE DEF a, b
  <2>7. p * (b + ratio) = p * b + p * ratio /\ p * a \in Int /\ p * b \in Int
    BY <1>0, <2>3
  <2>8. s * ratio \in Int
    BY <1>0
  <2>9. p * a < p * (b + ratio)
    BY <1>5, <2>2, <2>4, <2>5, <2>6, <2>7, <2>8
  <2>10. a < b + ratio
    BY <1>0, <2>3, <2>9, Cancel
  <2> QED BY <2>10 DEF a, b
<1>11. IsRecip(s, ratio, q)
  BY <1>4, <1>9, <1>10 DEF IsRecip, W, z, p
<1> QED BY <1>2, <1>11

\* The share h of long units, in units of precision: short, up to half of
\* what is on both sides.
IsShare(h, long, short) ==
    /\ h \in Nat \ {0}
    /\ 2 * (long * h) <= 2 * (Precision * short) + (long + short)
    /\ 2 * (Precision * short) <= 2 * (long * h) + (long + short)

\* When more is offered than wanted, the asks are rationed to the demand.
LEMMA AsksRationed ==
  ASSUME NEW s \in Nat \ {0}, NEW d \in Nat \ {0}, d < s, 2 * (s + d) < Precision,
         NEW ratio, IsRatio(s, d, ratio)
  PROVE  /\ ratio > Precision /\ RoundInt(s * Recip(ratio)) = d
         /\ IsShare(Recip(ratio), s, d)
<1> DEFINE p == Precision
           q == Recip(ratio)
<1>0. p \in Nat \ {0} /\ 2 * (s + d) < p
  BY PrecisionAssumption
<1>1. ratio \in Nat /\ 2 * (ratio * d) <= 2 * (s * p) + d /\ 2 * (s * p) <= 2 * (ratio * d) + d
  BY DEF IsRatio
<1> HIDE DEF p
<1>2. s * p \in Nat /\ ratio * d \in Nat /\ p * d \in Nat
  BY <1>0, <1>1
<1>3. ratio > p
  <2>1. p * (d + 1) <= p * s
    BY <1>0, Times
  <2>2. p * (d + 1) = p * d + p /\ p * s = s * p /\ d * p = p * d /\ d * ratio = ratio * d
    BY <1>0, <1>1
  <2>3. d * p < d * ratio
    BY <1>0, <1>1, <1>2, <2>1, <2>2
  <2> QED BY <1>0, <1>1, <2>3, Cancel
<1>4. IsRecip(s, ratio, q)
  <2>1. 2 * s < Precision /\ Precision < ratio
    BY <1>0, <1>3 DEF p
  <2> QED BY <1>1, <2>1, RecipIs
<1> DEFINE z == ratio * q
           W == p * p
<1>5. q \in Nat /\ 2 * z <= 2 * W + ratio /\ 2 * (s * W) < 2 * (s * z) + s * ratio + ratio
  BY <1>4 DEF IsRecip, p
<1> HIDE DEF q
<1>6. z \in Nat /\ W \in Nat
  BY <1>0, <1>1, <1>5
<1> HIDE DEF z, W
<1> DEFINE e == s * W
           g == ratio * (p * d)
           u == ratio * (s * q)
           v == s * ratio
           x == ratio * d
<1>7. e \in Nat /\ g \in Nat /\ u \in Nat /\ v \in Nat /\ x \in Nat /\ s * z = u /\ s * q \in Nat
  <2>1. e \in Nat
    BY <1>6
  <2>2. g \in Nat /\ v \in Nat /\ x \in Nat
    BY <1>1, <1>2
  <2>3. s * q \in Nat
    BY <1>5
  <2>4. u \in Nat
    BY <1>1, <2>3
  <2>5. s * z = u
    BY <1>1, <1>5 DEF z
  <2> QED BY <2>1, <2>2, <2>3, <2>4, <2>5
<1>8. 2 * u <= 2 * e + v
  <2>1. s * (2 * z) <= s * (2 * W + ratio)
    BY <1>1, <1>5, <1>6, Times
  <2>2. s * (2 * z) = 2 * (s * z) /\ s * (2 * W + ratio) = 2 * e + v
    BY <1>1, <1>6
  <2> QED BY <1>7, <2>1, <2>2
<1>9. 2 * e < 2 * u + v + ratio
  BY <1>5, <1>7
<1>10. 2 * g <= 2 * e + p * d /\ 2 * e <= 2 * g + p * d
  <2>1. p * (2 * (ratio * d)) <= p * (2 * (s * p) + d) /\ p * (2 * (s * p)) <= p * (2 * (ratio * d) + d)
    BY <1>0, <1>1, <1>2, Times
  <2>2. p * (2 * (ratio * d)) = 2 * g /\ p * (2 * (ratio * d) + d) = 2 * g + p * d
    BY <1>0, <1>1
  <2>3. p * (2 * (s * p)) = 2 * e /\ p * (2 * (s * p) + d) = 2 * e + p * d
    BY <1>0 DEF W
  <2> QED BY <2>1, <2>2, <2>3
<1>11. p * d <= x
  <2>1. d * p <= d * ratio
    BY <1>0, <1>1, <1>3, Times
  <2>2. d * p = p * d /\ d * ratio = x
    BY <1>0, <1>1
  <2> QED BY <2>1, <2>2
<1>12. /\ ratio * (2 * (s * q)) = 2 * u
       /\ ratio * (2 * (p * d)) = 2 * g
       /\ ratio * (2 * (p * d) + d + s + 1) = 2 * g + x + v + ratio
       /\ ratio * (2 * (s * q) + d + s + 1) = 2 * u + x + v + ratio
  <2> DEFINE a == s * q
             b == p * d
  <2>1. a \in Int /\ b \in Int
    BY <1>2, <1>7
  <2> HIDE DEF a, b
  <2>2. /\ ratio * (2 * a) = 2 * (ratio * a) /\ ratio * (2 * b) = 2 * (ratio * b)
        /\ ratio * (2 * b + d + s + 1) = 2 * (ratio * b) + ratio * d + s * ratio + ratio
        /\ ratio * (2 * a + d + s + 1) = 2 * (ratio * a) + ratio * d + s * ratio + ratio
    BY <1>1, <2>1
  <2> QED BY <2>2 DEF a, b
<1> HIDE DEF e, g, u, v, x
<1>13. /\ ratio * (2 * (s * q)) < ratio * (2 * (p * d) + d + s + 1)
       /\ ratio * (2 * (p * d)) < ratio * (2 * (s * q) + d + s + 1)
  BY <1>0, <1>1, <1>2, <1>3, <1>7, <1>8, <1>9, <1>10, <1>11, <1>12
<1>14. 2 * (s * q) < 2 * (p * d) + d + s + 1 /\ 2 * (p * d) < 2 * (s * q) + d + s + 1
  <2>1. ratio \in Nat \ {0}
    BY <1>0, <1>1, <1>3
  <2>2. /\ 2 * (s * q) \in Int /\ 2 * (p * d) + d + s + 1 \in Int
        /\ 2 * (p * d) \in Int /\ 2 * (s * q) + d + s + 1 \in Int
    BY <1>2, <1>7
  <2> QED BY <1>13, <2>1, <2>2, Cancel
<1>15. 2 * (s * q) < 2 * (p * d) + p /\ 2 * (p * d) < 2 * (s * q) + p
  BY <1>0, <1>2, <1>7, <1>14
<1>16. ChopRound(s * q) = d
  BY <1>7, <1>15, Nearest DEF p
<1>17. q # 0
  <2>1. q = 0 => s * q = 0
    OBVIOUS
  <2>2. p * 1 <= p * d
    BY <1>0, Times
  <2> QED BY <1>0, <1>2, <1>15, <2>1, <2>2
<1>18. /\ 2 * (s * q) <= 2 * (p * d) + (s + d)
       /\ 2 * (p * d) <= 2 * (s * q) + (s + d)
  BY <1>2, <1>7, <1>14
<1>19. IsShare(q, s, d)
  BY <1>5, <1>17, <1>18 DEF IsShare, p
<1> QED BY <1>3, <1>16, <1>19 DEF RoundInt, p, q

\* Fills by such shares are fair: who gets less than the share and one unit
\* has no more than one unit too many, and who gets the share has no unit less.
LEMMA ShareIsFair ==
  ASSUME NEW long \in Nat \ {0}, NEW short \in Nat, NEW h, IsShare(h, long, short),
         NEW n \in Nat, n * (long + short) < Precision, NEW g \in Nat
  PROVE  /\ Precision * g < n * h + Precision => g * long <= n * short + long
         /\ Precision * g >= n * h => n * short < (g + 1) * long
<1> DEFINE p == Precision
           a == n * (long * h)
           b == n * (p * short)
           c == n * (long + short)
           x == g * long
           y == n * short
<1>0. p \in Nat \ {0} /\ h \in Nat
  BY PrecisionAssumption DEF IsShare
<1>1. /\ a \in Int /\ b \in Int /\ c \in Int /\ x \in Int /\ y \in Int /\ c < p
      /\ long * h \in Int /\ p * short \in Int /\ p * x \in Int /\ p * y \in Int
      /\ n * h \in Int /\ p * g \in Int /\ p * long \in Int
  BY <1>0
<1>2. 2 * a <= 2 * b + c /\ 2 * b <= 2 * a + c
  <2>1. /\ 2 * (long * h) <= 2 * (p * short) + (long + short)
        /\ 2 * (p * short) <= 2 * (long * h) + (long + short)
    BY DEF IsShare
  <2> DEFINE u == long * h
             v == p * short
             z == long + short
  <2>2. u \in Int /\ v \in Int /\ z \in Int /\ 2 * u <= 2 * v + z /\ 2 * v <= 2 * u + z
    BY <1>1, <2>1
  <2>3. a = n * u /\ b = n * v /\ c = n * z
    OBVIOUS
  <2> HIDE DEF u, v, z, a, b, c
  <2>4. n * (2 * u) <= n * (2 * v + z) /\ n * (2 * v) <= n * (2 * u + z)
    BY <2>2, Times
  <2>5. /\ n * (2 * u) = 2 * (n * u) /\ n * (2 * v + z) = 2 * (n * v) + n * z
        /\ n * (2 * v) = 2 * (n * v) /\ n * (2 * u + z) = 2 * (n * u) + n * z
    BY <2>2
  <2> QED BY <1>1, <2>3, <2>4, <2>5
<1>3. b = p * y
  BY <1>0
<1>4. /\ long * (p * g) = p * x
      /\ long * (n * h) = a
      /\ long * (n * h + p) = a + p * long
  BY <1>0
<1>5. ASSUME p * g < n * h + p PROVE x <= y + long
  <2>1. p * x < a + p * long
    <3>1. p * g + 1 <= n * h + p /\ p * g + 1 \in Int /\ n * h + p \in Int
      BY <1>0, <1>1, <1>5
    <3>2. long * (p * g + 1) <= long * (n * h + p)
      BY <3>1, Times
    <3>3. long * (p * g + 1) = long * (p * g) + long
      BY <1>1
    <3> HIDE DEF x, a
    <3> QED BY <1>1, <1>4, <3>2, <3>3
  <2>2. p * (y + long + 1) = p * y + p * long + p
    <3> HIDE DEF y
    <3> QED BY <1>0, <1>1
  <2> HIDE DEF a, b, c, x, y, p
  <2>3. p * x < p * (y + long + 1)
    BY <1>0, <1>1, <1>2, <1>3, <2>1, <2>2
  <2>4. x < y + long + 1
    BY <1>0, <1>1, <2>3, Cancel
  <2> QED BY <1>1, <2>4
<1>6. ASSUME p * g >= n * h PROVE y < (g + 1) * long
  <2>1. a <= p * x
    <3>1. long * (n * h) <= long * (p * g)
      BY <1>1, <1>6, Times
    <3> QED BY <1>4, <3>1
  <2>2. p * (x + 1) = p * x + p
    <3> HIDE DEF x
    <3> QED BY <1>0, <1>1
  <2>3. (g + 1) * long = x + long
    OBVIOUS
  <2> HIDE DEF a, b, c, x, y, p
  <2>4. p * y < p * (x + 1)
    BY <1>0, <1>1, <1>2, <1>3, <2>1, <2>2
  <2>5. y < x + 1
    BY <1>0, <1>1, <2>4, Cancel
  <2> QED BY <1>1, <2>3, <2>5
<1> QED BY <1>5, <1>6

-----------------------------------------------------------------------------
(***************************************************************************)
(* What a match gives.                                                     *)
(***************************************************************************)

\* Shares that cover what was to be rationed reach its limit.
LEMMA LimitReached ==
  ASSUME NEW n \in Nat, NEW total \in Nat, total <= ChopRound(n), Precision * total >= n
  PROVE  total = ChopRound(n)
<1> DEFINE c == ChopRound(n)
<1>0. Precision \in Nat \ {0}
  BY PrecisionAssumption
<1>1. c \in Nat /\ Near(n, c) /\ total <= c
  BY RoundsNear
<1> HIDE DEF c
<1>2. Precision * c \in Int /\ Precision * total \in Int /\ Precision * (total + 1) = Precision * total + Precision
  BY <1>0, <1>1
<1>3. Precision * c < Precision * (total + 1)
  BY <1>0, <1>1, <1>2 DEF Near
<1>4. c < total + 1
  BY <1>0, <1>1, <1>3, Cancel
<1>5. total = c
  BY <1>1, <1>4
<1> QED BY <1>5 DEF c

\* The two sides of a match that cleared at e.
Sides(e, ratio, x, y, w, B, A) ==
    /\ ratio = ProRata(e)
    /\ SideFills(BidRule(e, ratio, Recip(ratio)), x, B, w)
    /\ SideFills(AskRule(e, ratio, Recip(ratio)), y, A, w)

\* Both are filled with what the short side has.
Least(e)         == IF e.supply < e.demand THEN e.supply ELSE e.demand
Balances(e, x, y) == TotalOf(Given(x)) = Least(e) /\ TotalOf(Given(y)) = Least(e)

\* The orders that the rules let trade are those of the curves.
LEMMA OpenAre ==
  ASSUME NEW e, NEW w, NEW B, NEW A, EntryIs(e, w, B, A), NEW ratio, NEW recip
  PROVE  /\ Quantity(w, OpenTo(B, BidRule(e, ratio, recip))) = e.demand
         /\ Quantity(w, OpenTo(A, AskRule(e, ratio, recip))) = e.supply
<1>1. \A o : InMarket(o, BidRule(e, ratio, recip)) <=> o.price >= e.price
  BY DEF InMarket, BidRule, BidInMarket
<1>2. \A o : InMarket(o, AskRule(e, ratio, recip)) <=> o.price <= e.price
  BY DEF InMarket, AskRule, AskInMarket
<1>3. OpenTo(B, BidRule(e, ratio, recip)) = Dear(B, e.price) /\ OpenTo(A, AskRule(e, ratio, recip)) = Cheap(A, e.price)
  BY <1>1, <1>2 DEF OpenTo, Dear, Cheap
<1> QED BY <1>3, Zenon DEF EntryIs

\* The sides of a match balance, when it is small for the precision.
LEMMA SidesBalance ==
  ASSUME NEW e, e.supply \in Nat \ {0}, e.demand \in Nat \ {0}, 2 * (e.supply + e.demand) < Precision,
         NEW w, NEW B, NEW A, EntryIs(e, w, B, A),
         NEW ratio, NEW x, NEW y, Sides(e, ratio, x, y, w, B, A)
  PROVE  ratio # 0 /\ Balances(e, x, y)
<1> DEFINE s == e.supply
           d == e.demand
           recip == Recip(ratio)
           bidding == BidRule(e, ratio, recip)
           asking == AskRule(e, ratio, recip)
           X == TotalOf(Given(x))
           Y == TotalOf(Given(y))
<1>0. s \in Nat \ {0} /\ d \in Nat \ {0} /\ 2 * (s + d) < Precision /\ Precision \in Nat \ {0}
  BY PrecisionAssumption
<1>1. IsRatio(s, d, ratio)
  <2>1. 2 * d < Precision
    BY <1>0
  <2>2. ratio = QuoInts(s, d)
    BY DEF Sides, ProRata
  <2> HIDE DEF s, d
  <2> QED BY <1>0, <2>1, <2>2, RatioIs
<1>2. Quantity(w, OpenTo(B, bidding)) = d /\ Quantity(w, OpenTo(A, asking)) = s
  BY OpenAre, Zenon
<1>3. /\ bidding.rationed = (ratio <= Precision) /\ bidding.share = ratio
      /\ bidding.limit = RoundInt(d * ratio) /\ bidding.stop = RoundInt(s * recip)
  BY Zenon DEF BidRule
<1>4. /\ asking.rationed = (ratio > Precision) /\ asking.share = recip
      /\ asking.limit = RoundInt(s * recip) /\ asking.stop = RoundInt(s * recip)
  BY Zenon DEF AskRule
<1>5. SideFills(bidding, x, B, w) /\ SideFills(asking, y, A, w)
  BY Zenon DEF Sides
<1> HIDE DEF bidding, asking, recip
<1>6. Ample(bidding) =>
        IF bidding.rationed
        THEN X = bidding.limit \/ (X \in Nat /\ X <= bidding.limit /\ Precision * X >= d * ratio)
        ELSE X = d
  BY <1>2, <1>3, <1>5, Zenon DEF SideFills
<1>7. Ample(asking) =>
        IF asking.rationed
        THEN Y = asking.limit \/ (Y \in Nat /\ Y <= asking.limit /\ Precision * Y >= s * recip)
        ELSE Y = s
  BY <1>2, <1>4, <1>5, Zenon DEF SideFills
<1>8. ratio \in Nat
  BY <1>1 DEF IsRatio
<1>9. Least(e) = IF s < d THEN s ELSE d
  BY DEF Least
<1> HIDE DEF s, d, X, Y
<1>10. CASE s <= d
  <2>1. /\ ratio > 0 /\ ratio <= Precision
        /\ RoundInt(d * ratio) = s
        /\ RoundInt(s * recip) \in Nat /\ s <= RoundInt(s * recip)
    <3>1. 2 * d < Precision
      BY <1>0
    <3> QED BY <1>0, <1>1, <1>10, <3>1, BidsRationed DEF recip
  <2>2. bidding.rationed = TRUE /\ asking.rationed = FALSE
    <3>1. (ratio <= Precision) = TRUE /\ (ratio > Precision) = FALSE
      BY <1>0, <1>8, <2>1
    <3> QED BY <1>3, <1>4, <3>1, Zenon
  <2>3. Ample(bidding) /\ Ample(asking)
    BY <1>0, <1>3, <1>4, <2>1, <2>2 DEF Ample
  <2>4. Y = s
    BY <1>7, <2>2, <2>3
  <2>5. X = s
    <3>1. X = s \/ (X \in Nat /\ X <= s /\ Precision * X >= d * ratio)
      BY <1>3, <1>6, <2>1, <2>2, <2>3
    <3>2. d * ratio \in Nat /\ s = ChopRound(d * ratio)
      BY <1>0, <1>8, <2>1 DEF RoundInt
    <3> QED BY <3>1, <3>2, LimitReached
  <2>6. Least(e) = s
    BY <1>0, <1>9, <1>10
  <2> QED BY <2>1, <2>4, <2>5, <2>6 DEF Balances, X, Y
<1>11. CASE d < s
  <2>1. ratio > Precision /\ RoundInt(s * recip) = d
    BY <1>0, <1>1, <1>11, AsksRationed DEF recip
  <2>2. bidding.rationed = FALSE /\ asking.rationed = TRUE
    <3>1. (ratio <= Precision) = FALSE /\ (ratio > Precision) = TRUE
      BY <1>0, <1>8, <2>1
    <3> QED BY <1>3, <1>4, <3>1, Zenon
  <2>3. Ample(bidding) /\ Ample(asking)
    BY <1>0, <1>3, <1>4, <2>1, <2>2 DEF Ample
  <2>4. X = d
    BY <1>6, <2>2, <2>3
  <2>5. Y = d
    <3>1. Y = d \/ (Y \in Nat /\ Y <= d /\ Precision * Y >= s * recip)
      BY <1>4, <1>7, <2>1, <2>2, <2>3
    <3>2. s * recip \in Nat /\ d = ChopRound(s * recip)
      <4>1. recip \in Nat
        <5>1. 2 * s < Precision
          BY <1>0
        <5>2. IsRecip(s, ratio, recip)
          BY <1>0, <1>8, <2>1, <5>1, RecipIs DEF recip
        <5> QED BY <5>2 DEF IsRecip
      <4> QED BY <1>0, <2>1, <4>1 DEF RoundInt
    <3> QED BY <3>1, <3>2, LimitReached
  <2>6. Least(e) = d
    BY <1>0, <1>9, <1>11
  <2> QED BY <1>0, <2>1, <2>4, <2>5, <2>6 DEF Balances, X, Y
<1> QED BY <1>0, <1>10, <1>11

\* A match is two sides that cleared at the entry e, at least when there is
\* something to share out.
IsMatchAt(m, e, ratio, x, y, w, B, A) ==
    /\ m.price = e.price
    /\ m.fills = IF ratio = 0 THEN <<>> ELSE x \o y
    /\ e.price \in Nat /\ e.supply \in Nat \ {0} /\ e.demand \in Nat \ {0}
    /\ EntryIs(e, w, B, A)
    /\ Sides(e, ratio, x, y, w, B, A)

\* The side that is rationed is served in turn: the bids from the highest,
\* the asks from the lowest.
InTurn(e, ratio, x, y, b, a) ==
    /\ LET rule == BidRule(e, ratio, Recip(ratio))
       IN  rule.rationed /\ rule.share # 0 => Rations(rule, Given(x), Reverse(b), Len(Reverse(b)))
    /\ LET rule == AskRule(e, ratio, Recip(ratio))
       IN  rule.rationed /\ rule.share # 0 => Rations(rule, Given(y), a, Len(a))

LEMMA MatchSides ==
  ASSUME NEW b, NEW a, IsBook(b), IsBook(a), Overlap(b, a), Distinct(b), Distinct(a),
         NEW w, Weighs(w, InBook(b)), Weighs(w, InBook(a))
  PROVE  \E e, ratio, x, y :
           /\ IsMatchAt(Match(b, a), e, ratio, x, y, w, InBook(b), InBook(a))
           /\ InTurn(e, ratio, x, y, b, a)
<1> DEFINE t == MatchTable(b, a)
           e == Clearing(t)
           ratio == ProRata(e)
           recip == Recip(ratio)
           high == Reverse(b)
           x == FillSide(BidRule(e, ratio, recip), high)
           y == FillSide(AskRule(e, ratio, recip), a)
           B == InBook(b)
           A == InBook(a)
<1>1. Meets(t) /\ Curves(t, w, B, A)
  BY MatchTableMeets, MatchTableShows
<1>2. Match(b, a).price = e.price /\ Match(b, a).fills = IF ratio = 0 THEN <<>> ELSE x \o y
  BY DEF Match, MatchAt, FillsAt, HighestFirst
<1> HIDE DEF t
<1>3. e.price \in Nat /\ e.supply \in Nat /\ e.demand \in Nat \ {0} /\ OnTable(t, e)
  BY <1>1, ClearingIsWanted, ClearingIsOn
<1> HIDE DEF e
<1>4. e.supply \in Nat \ {0}
  BY <1>3 DEF OnTable
<1>5. EntryIs(e, w, B, A)
  BY <1>1, <1>3, ClearingShows
<1>6. ratio \in Nat
  BY <1>3, RatioIsNat DEF ProRata
<1>7. ratio = ProRata(e) /\ recip = Recip(ratio)
  OBVIOUS
<1> HIDE DEF ratio
<1>8. IsRule(BidRule(e, ratio, recip)) /\ IsRule(AskRule(e, ratio, recip))
  BY <1>3, <1>6, RulesAre
<1>9. /\ a \in Seq(Offers)
      /\ high \in Seq(Offers) /\ Distinct(high) /\ InBook(high) = B
  BY HighestFirstIs DEF IsBook
<1> HIDE DEF recip, high
<1>10. SideFills(BidRule(e, ratio, recip), x, B, w) /\ SideFills(AskRule(e, ratio, recip), y, A, w)
  <2>1. SideFills(BidRule(e, ratio, recip), x, InBook(high), w)
    BY <1>8, <1>9, SideServed
  <2>2. SideFills(AskRule(e, ratio, recip), y, A, w)
    BY <1>8, <1>9, SideServed
  <2> QED BY <1>9, <2>1, <2>2, Zenon
<1>11. InTurn(e, ratio, x, y, b, a)
  <2>1. recip = Recip(ratio) /\ high = Reverse(b)
    BY DEF recip, high
  <2>2. \A rule, q : IsRule(rule) /\ rule.rationed /\ rule.share # 0 /\ q \in Seq(Offers) /\ Distinct(q)
                      => Rations(rule, Given(FillSide(rule, q)), q, Len(q))
    BY SideRations
  <2> QED BY <1>8, <1>9, <2>1, <2>2, Zenon DEF InTurn
<1> HIDE DEF x, y, A, B
<1>12. Sides(e, ratio, x, y, w, B, A)
  BY <1>7, <1>10, Zenon DEF Sides
<1>13. IsMatchAt(Match(b, a), e, ratio, x, y, w, B, A)
  BY <1>2, <1>3, <1>4, <1>5, <1>12, Zenon DEF IsMatchAt
<1> QED BY <1>11, <1>13, Zenon DEF A, B

\* Which side is rationed, and by what share.
SharedOut(rule, long, short) == rule.rationed /\ rule.share # 0 /\ IsShare(rule.share, long, short)

LEMMA SharesAre ==
  ASSUME NEW e, e.supply \in Nat \ {0}, e.demand \in Nat \ {0}, 2 * (e.supply + e.demand) < Precision,
         NEW ratio, ratio = ProRata(e)
  PROVE  IF e.demand < e.supply
         THEN SharedOut(AskRule(e, ratio, Recip(ratio)), e.supply, e.demand)
         ELSE SharedOut(BidRule(e, ratio, Recip(ratio)), e.demand, e.supply)
<1> DEFINE s == e.supply
           d == e.demand
           recip == Recip(ratio)
           bidding == BidRule(e, ratio, recip)
           asking == AskRule(e, ratio, recip)
<1>0. s \in Nat \ {0} /\ d \in Nat \ {0} /\ 2 * (s + d) < Precision /\ Precision \in Nat \ {0}
  BY PrecisionAssumption
<1>1. IsRatio(s, d, ratio)
  <2>1. 2 * d < Precision /\ ratio = QuoInts(s, d)
    BY <1>0 DEF ProRata
  <2> HIDE DEF s, d
  <2> QED BY <1>0, <2>1, RatioIs
<1>2. bidding.rationed = (ratio <= Precision) /\ bidding.share = ratio
  BY Zenon DEF BidRule
<1>3. asking.rationed = (ratio > Precision) /\ asking.share = recip
  BY Zenon DEF AskRule
<1> HIDE DEF bidding, asking, s, d, recip
<1>4. CASE d < s
  <2>1. ratio > Precision /\ IsShare(recip, s, d)
    BY <1>0, <1>1, <1>4, AsksRationed DEF recip
  <2>2. SharedOut(asking, s, d)
    BY <1>3, <2>1 DEF SharedOut, IsShare
  <2> QED BY <1>4, <2>2 DEF asking, s, d, recip
<1>5. CASE ~ (d < s)
  <2>1. ratio > 0 /\ ratio <= Precision
    <3>1. s <= d /\ 2 * d < Precision
      BY <1>0, <1>5
    <3> QED BY <1>0, <1>1, <3>1, BidsRationed
  <2>2. IsShare(ratio, d, s)
    <3>1. /\ ratio \in Nat
          /\ 2 * (ratio * d) <= 2 * (s * Precision) + d
          /\ 2 * (s * Precision) <= 2 * (ratio * d) + d
      BY <1>1 DEF IsRatio
    <3>2. ratio * d = d * ratio /\ s * Precision = Precision * s
      BY <1>0, <3>1
    <3>3. d * ratio \in Int /\ Precision * s \in Int
      BY <1>0, <3>1
    <3>4. /\ 2 * (d * ratio) <= 2 * (Precision * s) + (d + s)
          /\ 2 * (Precision * s) <= 2 * (d * ratio) + (d + s)
      BY <1>0, <3>1, <3>2, <3>3
    <3> QED BY <2>1, <3>1, <3>4 DEF IsShare
  <2>3. SharedOut(bidding, d, s)
    BY <1>2, <2>1, <2>2 DEF SharedOut, IsShare
  <2> QED BY <1>5, <2>3 DEF bidding, s, d, recip
<1> QED BY <1>4, <1>5

\* What the order id gets of the fills F.
Gets(F, id, g) ==
    /\ \A f \in F : f.id = id => f.filled = g
    /\ g # 0 => \E f \in F : f.id = id

\* Shares of the whole short are fair: nobody gets a unit too many, and where
\* one misses a unit, nobody after gets anything.
IsFairTo(F, q, k, g, long, short) ==
    /\ g * long <= q[k].qty * short + long
    /\ (g + 1) * long <= q[k].qty * short =>
         \A l \in 1 .. Len(q) : k < l => \A f \in F : f.id # q[l].id

LEMMA FairShares ==
  ASSUME NEW rule, NEW long \in Nat \ {0}, NEW short \in Nat, SharedOut(rule, long, short),
         NEW q \in Seq(Offers), Distinct(q), NEW F, Rations(rule, F, q, Len(q)),
         NEW k \in 1 .. Len(q), InMarket(q[k], rule), q[k].qty * (long + short) < Precision,
         NEW g \in Nat, Gets(F, q[k].id, g)
  PROVE  IsFairTo(F, q, k, g, long, short)
<1> DEFINE n == Len(q)
           h == rule.share
           m == q[k].qty
<1>0. Precision \in Nat \ {0} /\ h \in Nat /\ m \in Nat
  <2>1. q[k] \in Offers
    OBVIOUS
  <2>2. m \in Nat
    BY <2>1 DEF Offers
  <2>3. h \in Nat
    BY DEF SharedOut, IsShare
  <2> QED BY <2>2, <2>3, PrecisionAssumption
<1>1. /\ Precision * g < m * h + Precision => g * long <= m * short + long
      /\ Precision * g >= m * h => m * short < (g + 1) * long
  <2>1. IsShare(h, long, short) /\ m * (long + short) < Precision
    BY DEF SharedOut
  <2> HIDE DEF h, m
  <2> QED BY <1>0, <2>1, ShareIsFair
<1>2. /\ \A f \in F : \E l \in 1 .. n :
           f.id = q[l].id /\ Precision * f.filled < q[l].qty * h + Precision
      /\ \A i, l \in 1 .. n :
           i < l /\ InMarket(q[i], rule) /\ ~ HasShare(rule, F, q[i]) => \A f \in F : f.id # q[l].id
  BY DEF Rations
<1>3. \A l \in 1 .. n : q[l].id = q[k].id => l = k
  BY DEF Distinct
<1>4. Precision * g < m * h + Precision
  <2>1. CASE g = 0
    <3>1. Precision * g = 0 /\ m * h \in Nat
      BY <1>0, <2>1
    <3> QED BY <1>0, <3>1
  <2>2. CASE g # 0
    <3>1. PICK f \in F : f.id = q[k].id
      BY <2>2 DEF Gets
    <3>2. f.filled = g
      BY <3>1 DEF Gets
    <3> QED BY <1>2, <1>3, <3>1, <3>2
  <2> QED BY <2>1, <2>2
<1>5. HasShare(rule, F, q[k]) => Precision * g >= m * h
  BY DEF HasShare, Gets
<1>6. ASSUME (g + 1) * long <= m * short, NEW l \in 1 .. n, k < l
      PROVE  \A f \in F : f.id # q[l].id
  <2>1. ~ HasShare(rule, F, q[k])
    <3>1. (g + 1) * long \in Int /\ m * short \in Int
      BY <1>0
    <3>2. ~ (m * short < (g + 1) * long)
      BY <1>6, <3>1
    <3> QED BY <1>1, <1>5, <3>2
  <2> QED BY <1>2, <1>6, <2>1
<1> HIDE DEF m, n
<1> QED BY <1>1, <1>4, <1>6 DEF IsFairTo, m, n

\* Fills with distinct ids are as many as their ids.
LEMMA AsManyIds ==
  ASSUME NEW fills \in Seq(Fillings), \A k, l \in 1 .. Len(fills) : k # l => fills[k].id # fills[l].id
  PROVE  Cardinality({g.id : g \in Given(fills)}) = Len(fills)
<1> DEFINE n == Len(fills)
           S == {g.id : g \in Given(fills)}
           h == [k \in 1 .. n |-> fills[k].id]
<1>1. n \in Nat
  OBVIOUS
<1>2. S = {fills[k].id : k \in 1 .. n}
  BY DEF Given
<1>3. h \in Bijection(1 .. n, S)
  BY <1>2 DEF Bijection, Injection, Surjection, IsInjective
<1>4. IsFiniteSet(1 .. n) /\ Cardinality(1 .. n) = n
  <2>1. 1 .. n = {} \/ 1 <= n
    BY <1>1
  <2> QED BY <1>1, <2>1, FS_Interval, FS_EmptySet
<1> HIDE DEF h, S
<1>5. Cardinality(S) = Cardinality(1 .. n)
  BY <1>3, <1>4, FS_Bijection DEF ExistsBijection
<1> QED BY <1>4, <1>5 DEF S

\* The fills of both sides are each of another order.
Apart(x, y) ==
    /\ x \o y \in Seq(Fillings)
    /\ Given(x \o y) = Given(x) \cup Given(y)
    /\ \A k, l \in 1 .. Len(x \o y) : k # l => (x \o y)[k].id # (x \o y)[l].id

LEMMA SidesApart ==
  ASSUME NEW x \in Seq(Fillings), NEW y \in Seq(Fillings),
         \A k, l \in 1 .. Len(x) : k # l => x[k].id # x[l].id,
         \A k, l \in 1 .. Len(y) : k # l => y[k].id # y[l].id,
         \A g \in Given(x), c \in Given(y) : g.id # c.id
  PROVE  Apart(x, y)
<1> DEFINE m == Len(x)
           n == Len(y)
           z == x \o y
<1>1. m \in Nat /\ n \in Nat
  OBVIOUS
<1>2. z \in Seq(Fillings) /\ Len(z) = m + n
      /\ \A k \in 1 .. m + n : z[k] = IF k <= m THEN x[k] ELSE y[k - m]
  BY Joined
<1>3. /\ Given(x) = {x[k] : k \in 1 .. m} /\ Given(y) = {y[k] : k \in 1 .. n}
      /\ Given(z) = {z[k] : k \in 1 .. m + n}
  BY <1>2 DEF Given
<1>4. /\ \A k, l \in 1 .. m : k # l => x[k].id # x[l].id
      /\ \A k, l \in 1 .. n : k # l => y[k].id # y[l].id
  OBVIOUS
<1>5. \A k \in 1 .. m, l \in 1 .. n : x[k].id # y[l].id
  BY DEF Given
<1> HIDE DEF m, n, z
<1>6. ASSUME NEW k \in 1 .. m + n
      PROVE  \/ k \in 1 .. m /\ z[k] = x[k]
             \/ k - m \in 1 .. n /\ z[k] = y[k - m] /\ k \notin 1 .. m
  BY <1>1, <1>2
<1>7. ASSUME NEW k \in 1 .. m + n, NEW l \in 1 .. m + n, k # l
      PROVE  z[k].id # z[l].id
  <2>1. CASE k \in 1 .. m /\ l \in 1 .. m
    BY <1>4, <1>6, <1>7, <2>1
  <2>2. CASE k \in 1 .. m /\ l \notin 1 .. m
    <3>1. z[k] = x[k] /\ l - m \in 1 .. n /\ z[l] = y[l - m]
      BY <1>6, <2>2
    <3> QED BY <1>5, <2>2, <3>1
  <2>3. CASE k \notin 1 .. m /\ l \in 1 .. m
    <3>1. z[l] = x[l] /\ k - m \in 1 .. n /\ z[k] = y[k - m]
      BY <1>6, <2>3
    <3>2. x[l].id # y[k - m].id
      BY <1>5, <2>3, <3>1
    <3> QED BY <3>1, <3>2
  <2>4. CASE k \notin 1 .. m /\ l \notin 1 .. m
    <3>1. k - m \in 1 .. n /\ l - m \in 1 .. n /\ z[k] = y[k - m] /\ z[l] = y[l - m]
      BY <1>6, <2>4
    <3>2. k - m # l - m
      BY <1>1, <1>7
    <3> QED BY <1>4, <3>1, <3>2
  <2> QED BY <2>1, <2>2, <2>3, <2>4
<1>8. Given(z) = Given(x) \cup Given(y)
  <2>1. \A k \in 1 .. m + n : z[k] \in {x[l] : l \in 1 .. m} \cup {y[l] : l \in 1 .. n}
    BY <1>6
  <2>2. \A k \in 1 .. m : k \in 1 .. m + n /\ z[k] = x[k]
    BY <1>1, <1>2
  <2>3. \A k \in 1 .. n : k + m \in 1 .. m + n /\ z[k + m] = y[k]
    <3> SUFFICES ASSUME NEW k \in 1 .. n PROVE k + m \in 1 .. m + n /\ z[k + m] = y[k]
      OBVIOUS
    <3>1. k + m \in 1 .. m + n /\ ~ (k + m <= m) /\ (k + m) - m = k
      BY <1>1
    <3> QED BY <1>2, <3>1
  <2>4. Given(z) \subseteq Given(x) \cup Given(y)
    BY <1>3, <2>1
  <2>5. Given(x) \subseteq Given(z)
    BY <1>3, <2>2
  <2>6. Given(y) \subseteq Given(z)
    BY <1>3, <2>3
  <2> QED BY <2>4, <2>5, <2>6
<1>9. \A k, l \in 1 .. Len(z) : k # l => z[k].id # z[l].id
  BY <1>2, <1>7
<1> QED BY <1>2, <1>8, <1>9 DEF Apart, z
===============================================================================

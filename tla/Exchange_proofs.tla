--------------------------- MODULE Exchange_proofs ---------------------------
(***************************************************************************)
(* Theorems about the exchange: its invariants hold for any users,         *)
(* denominations, markets, prices and quantities, any number of orders and *)
(* any times in force.                                                     *)
(*                                                                         *)
(* The first part follows a block: the expired orders are cancelled, the   *)
(* books are built from what is left, the markets are executed in any      *)
(* order, with the fills that module Matcher_proofs says Match yields.     *)
(* Each of these is a fold (module Folding).                               *)
(*                                                                         *)
(* The inductive invariant is ExchangeInv: the three invariants the runs   *)
(* check, together, need no strengthening.                                 *)
(*                                                                         *)
(* The second part is about what a block pays.  Every fill is at the one   *)
(* price of its market and within the limit of its order (FillsAreFair);   *)
(* it changes the wealth of its owner by no less than what it traded is    *)
(* worth (ChangeIsFair), and by less than a unit more (QuoteRounds).       *)
(* Summed over the orders of a user this is OnePriceTheorem; summed        *)
(* over those of all users, whose trades cancel out, CoinsTheorem.         *)
(*                                                                         *)
(* The third part is about the node of module OrderView, which shows its   *)
(* orders from events.  NodeInv is ExchangeInv of the chain and of what is *)
(* committed; three invariants are added to it, each for its theorem:      *)
(* OwnersInv names the order of every id, in the store, on disk, in the    *)
(* queue and in a block that was lost; OneInv and ListedInv are the index  *)
(* of the open orders; ShownInv is the path of the rows through the queue, *)
(* at whose end they show the orders of the store.                         *)
(***************************************************************************)
EXTENDS OrderView, Matcher_proofs

-----------------------------------------------------------------------------
(***************************************************************************)
(* The books of a market.                                                  *)
(***************************************************************************)

\* q lists the members of S, each once, the least first.
Lists(q, S) ==
    /\ q \in SetToSeqs(S)
    /\ \A k, l \in DOMAIN q : k < l => q[k] < q[l]

\* A set of ids is finite.
LEMMA FiniteUpTo ==
  ASSUME NEW b \in Nat, NEW S \in SUBSET (0 .. b)
  PROVE  IsFiniteSet(S) /\ Cardinality(S) \in Nat
<1>1. 0 \in Int /\ b \in Int
  OBVIOUS
<1>2. IsFiniteSet(0 .. b)
  BY <1>1, FS_Interval
<1>3. IsFiniteSet(S)
  BY <1>2, FS_Subset, Zenon
<1> QED BY <1>3, FS_CardinalityType

\* The ids of a set can be listed in ascending order.
LEMMA ListExists ==
  ASSUME NEW b \in Nat, NEW S \in SUBSET (0 .. b)
  PROVE  \E q : Lists(q, S)
<1>0. \A s \in SUBSET (0 .. b) : IsFiniteSet(s) /\ Cardinality(s) \in Nat
  BY FiniteUpTo
<1> DEFINE T == {n \in Nat : \A s \in SUBSET (0 .. b) : Cardinality(s) = n => \E q : Lists(q, s)}
<1>1. 0 \in T
  <2> SUFFICES ASSUME NEW s \in SUBSET (0 .. b), Cardinality(s) = 0 PROVE \E q : Lists(q, s)
    OBVIOUS
  <2>1. s = {}
    BY <1>0, FS_EmptySet
  <2> DEFINE q == [k \in 1 .. 0 |-> 0]
  <2>2. 1 .. 0 = {}
    OBVIOUS
  <2>3. q \in [1 .. Cardinality(s) -> s] /\ DOMAIN q = {}
    BY <2>2
  <2> HIDE DEF q
  <2>4. Lists(q, s)
    BY <2>2, <2>3 DEF Lists, SetToSeqs
  <2> QED BY <2>4
<1>2. ASSUME NEW n \in Nat, n \in T PROVE n + 1 \in T
  <2> SUFFICES ASSUME NEW s \in SUBSET (0 .. b), Cardinality(s) = n + 1 PROVE \E q : Lists(q, s)
    OBVIOUS
  <2> DEFINE m == Max(s)
             r == s \ {m}
  <2>1. s # {}
    BY FS_EmptySet
  <2>2. m \in s /\ \A i \in s : i <= m
    BY <2>1, MaxIs, Zenon
  <2>3. r \in SUBSET (0 .. b) /\ Cardinality(r) = n /\ s = r \cup {m} /\ m \notin r
    <3> HIDE DEF m
    <3>1. Cardinality(s \ {m}) = Cardinality(s) - 1
      BY <1>0, <2>2, FS_RemoveElement
    <3> QED BY <2>2, <3>1
  <2>4. PICK q : Lists(q, r)
    BY <1>2, <2>3
  <2>i. \A i \in s : i \in Int
    OBVIOUS
  <2>5. \A i \in r : i < m
    <3> HIDE DEF m
    <3>1. \A i \in r : i \in s /\ i # m
      OBVIOUS
    <3> QED BY <2>2, <2>i, <3>1
  <2> HIDE DEF m, r
  <2>6. /\ q \in [1 .. n -> r]
        /\ \A k, l \in 1 .. n : k < l => q[k] < q[l]
        /\ \A k, l \in 1 .. n : k # l => q[k] # q[l]
    BY <2>3, <2>4 DEF Lists, SetToSeqs
  <2> DEFINE u == [k \in 1 .. n + 1 |-> IF k = n + 1 THEN m ELSE q[k]]
  <2>7. \A k \in 1 .. n + 1 : k = n + 1 \/ (k \in 1 .. n /\ k # n + 1)
    OBVIOUS
  <2>8. \A k \in 1 .. n : q[k] \in r
    BY <2>6
  <2>9. \A k \in 1 .. n + 1 : u[k] = IF k = n + 1 THEN m ELSE q[k]
    OBVIOUS
  <2>10. u \in [1 .. n + 1 -> s]
    BY <2>2, <2>3, <2>7, <2>8
  <2> HIDE DEF u
  <2>11. ASSUME NEW k \in 1 .. n + 1, NEW l \in 1 .. n + 1, k < l
         PROVE  u[k] < u[l]
    <3>1. k \in 1 .. n /\ k # n + 1
      BY <2>7, <2>11
    <3>2. CASE l = n + 1
      BY <2>5, <2>8, <2>9, <3>1, <3>2
    <3>3. CASE l # n + 1
      BY <2>6, <2>7, <2>9, <2>11, <3>1, <3>3
    <3> QED BY <3>2, <3>3
  <2>12. \A k, l \in 1 .. n + 1 : k # l => u[k] # u[l]
    <3> SUFFICES ASSUME NEW k \in 1 .. n + 1, NEW l \in 1 .. n + 1, k # l PROVE u[k] # u[l]
      OBVIOUS
    <3>1. k < l \/ l < k
      OBVIOUS
    <3>2. u[k] \in Int /\ u[l] \in Int
      BY <2>10, <2>i, Zenon
    <3> QED BY <2>11, <3>1, <3>2
  <2>13. Lists(u, s)
    BY <2>10, <2>11, <2>12 DEF Lists, SetToSeqs
  <2> QED BY <2>13
<1>3. 0 .. Cardinality(S) \subseteq T
  <2> HIDE DEF T
  <2> QED BY <1>0, <1>1, <1>2, UpToEnd
<1>4. Cardinality(S) \in T
  BY <1>0, <1>3
<1> QED BY <1>4

\* Ascending lists all ids of a set, each once.
LEMMA AscendingIs ==
  ASSUME NEW b \in Nat, NEW S \in SUBSET (0 .. b)
  PROVE  /\ Cardinality(S) \in Nat
         /\ Ascending(S) \in Seq(S)
         /\ Len(Ascending(S)) = Cardinality(S)
         /\ \A k, l \in 1 .. Cardinality(S) : k # l => Ascending(S)[k] # Ascending(S)[l]
         /\ S = {Ascending(S)[k] : k \in 1 .. Cardinality(S)}
<1> DEFINE n == Cardinality(S)
           q == Ascending(S)
<1>0. IsFiniteSet(S) /\ n \in Nat
  BY FiniteUpTo, Zenon
<1>1. q \in SetToSeqs(S)
  <2>1. \E p \in SetToSeqs(S) : \A k, l \in DOMAIN p : k < l => p[k] < p[l]
    BY ListExists, Zenon DEF Lists
  <2> QED BY <2>1 DEF Ascending
<1> HIDE DEF q
<1>2. q \in [1 .. n -> S] /\ \A k, l \in 1 .. n : k # l => q[k] # q[l]
  BY <1>1 DEF SetToSeqs
<1> HIDE DEF n
<1>3. q \in Seq(S) /\ Len(q) = n
  BY <1>0, <1>2
<1>4. S = {q[k] : k \in 1 .. n}
  <2>1. q \in Injection(1 .. n, S)
    BY <1>2 DEF Injection, IsInjective
  <2>2. IsFiniteSet(1 .. n) /\ Cardinality(1 .. n) = n
    <3>1. 1 \in Int /\ n \in Int
      BY <1>0
    <3>2. Cardinality(1 .. n) = IF 1 > n THEN 0 ELSE n - 1 + 1
      BY <3>1, FS_Interval
    <3> QED BY <1>0, <3>1, <3>2, FS_Interval
  <2>3. Cardinality(S) = n
    BY DEF n
  <2>4. q \in Surjection(1 .. n, S)
    BY <1>0, <2>1, <2>2, <2>3, FS_Injection
  <2>5. \A x \in S : \E k \in 1 .. n : q[k] = x
    BY <2>4 DEF Surjection
  <2>6. \A k \in 1 .. n : q[k] \in S
    BY <1>2
  <2> QED BY <2>5, <2>6, Zenon
<1> QED BY <1>0, <1>2, <1>3, <1>4 DEF n, q

\* The book of a market and direction.
Adding == INSTANCE Folding WITH op <- AddOrder

\* The book is a fold of AddOrder.
LEMMA BookOfIsFold ==
  ASSUME NEW os, NEW m, NEW d
  PROVE  BookOf(os, m, d) = Adding!Fold(os, <<>>, Reverse(Ascending(OneSide(os, m, d))))
BY DEF BookOf, FoldLeft, MapThenFoldSet, Max, Adding!Fold, Adding!Folds, Adding!Greatest

OfferOf(os, i) == [id |-> i, price |-> os[i].price, qty |-> os[i].qty]

\* The book of a market and direction has its orders, each once, sorted.
LEMMA BookIs ==
  ASSUME NEW b \in Nat, NEW os, DOMAIN os \subseteq 0 .. b,
         \A i \in DOMAIN os : os[i].price \in Nat /\ os[i].qty \in Nat \ {0},
         NEW m, NEW d
  PROVE  /\ ByPrice(BookOf(os, m, d))
         /\ Distinct(BookOf(os, m, d))
         /\ InBook(BookOf(os, m, d)) = {OfferOf(os, i) : i \in OneSide(os, m, d)}
<1> DEFINE S == OneSide(os, m, d)
           a == Ascending(S)
           n == Cardinality(S)
           q == Reverse(a)
           First(i) == {q[j] : j \in 1 .. i}
<1>0. S \in SUBSET (0 .. b) /\ S \subseteq DOMAIN os
  BY DEF OneSide
<1>1. BookOf(os, m, d) = Adding!Fold(os, <<>>, q)
  BY BookOfIsFold
<1> HIDE DEF S
<1>2. /\ n \in Nat /\ a \in Seq(S) /\ Len(a) = n
      /\ \A k, l \in 1 .. n : k # l => a[k] # a[l]
      /\ S = {a[k] : k \in 1 .. n}
  BY <1>0, AscendingIs
<1> HIDE DEF a, n
<1>3. q \in Seq(S) /\ Len(q) = n /\ \A i \in 1 .. n : q[i] = a[n - i + 1]
  BY <1>2, Reversed, Zenon
<1> HIDE DEF q
<1>4. DOMAIN q = 1 .. n /\ \A i \in 1 .. n : q[i] \in S
  BY <1>2, <1>3
<1>5. \A k, l \in 1 .. n : k # l => q[k] # q[l]
  <2>1. \A k, l \in 1 .. n : k # l => /\ n - k + 1 \in 1 .. n /\ n - l + 1 \in 1 .. n
                                      /\ n - k + 1 # n - l + 1
    BY <1>2
  <2> QED BY <1>2, <1>3, <2>1
<1>6. First(n) = S
  <2>1. \A k \in 1 .. n : n - k + 1 \in 1 .. n /\ n - (n - k + 1) + 1 = k
    BY <1>2
  <2>2. \A k \in 1 .. n : a[k] = q[n - k + 1]
    BY <1>3, <2>1
  <2> QED BY <1>2, <1>4, <2>1, <2>2
<1>7. PICK r : Adding!Runs(r, os, <<>>, q, n)
  BY <1>2, <1>4, Adding!FoldRuns, Zenon
<1>8. /\ r[0] = <<>>
      /\ \A i \in 1 .. n : r[i] = Enqueue(r[i - 1], OfferOf(os, q[i]))
      /\ r[n] = BookOf(os, m, d)
  BY <1>1, <1>7 DEF Adding!Runs, AddOrder, OfferOf
<1> DEFINE Good(i) == /\ ByPrice(r[i]) /\ Distinct(r[i])
                      /\ InBook(r[i]) = {OfferOf(os, k) : k \in First(i)}
           T == {i \in 0 .. n : Good(i)}
<1>9. 0 \in T
  <2>1. First(0) = {}
    OBVIOUS
  <2>2. ByPrice(<<>>) /\ Distinct(<<>>) /\ InBook(<<>>) = {}
    BY DEF ByPrice, Distinct, InBook
  <2>3. 0 \in 0 .. n
    BY <1>2
  <2> HIDE DEF First
  <2> QED BY <1>8, <2>1, <2>2, <2>3
<1>10. ASSUME NEW i \in 0 .. n - 1, i \in T PROVE i + 1 \in T
  <2>1. i + 1 \in 1 .. n /\ (i + 1) - 1 = i /\ i + 1 \in 0 .. n
    BY <1>2
  <2> DEFINE o == OfferOf(os, q[i + 1])
  <2>2. r[i + 1] = Enqueue(r[i], o)
    <3>1. r[i + 1] = Enqueue(r[(i + 1) - 1], o)
      BY <1>8, <2>1
    <3> QED BY <2>1, <3>1
  <2>3. First(i + 1) = First(i) \cup {q[i + 1]}
    OBVIOUS
  <2>4. q[i + 1] \notin First(i)
    BY <1>2, <1>5, <2>1
  <2>5. o \in Offers /\ o.id = q[i + 1]
    <3>0. q[i + 1] \in S
      BY <1>4, <2>1
    <3>1. q[i + 1] \in DOMAIN os /\ q[i + 1] \in Nat
      BY <1>0, <3>0
    <3> QED BY <3>1 DEF OfferOf, Offers
  <2>6. Good(i)
    BY <1>10
  <2> HIDE DEF First, o
  <2>7. \A p \in InBook(r[i]) : p.id # o.id
    BY <2>4, <2>5, <2>6 DEF OfferOf
  <2>8. ByPrice(r[i + 1]) /\ Distinct(r[i + 1]) /\ InBook(r[i + 1]) = InBook(r[i]) \cup {o}
    BY <2>2, <2>5, <2>6, <2>7, Enqueued
  <2>9. {OfferOf(os, k) : k \in First(i + 1)} = {OfferOf(os, k) : k \in First(i)} \cup {o}
    BY <2>3 DEF o
  <2> QED BY <2>1, <2>6, <2>8, <2>9
<1>11. n \in T
  <2> HIDE DEF T
  <2>1. 0 .. n \subseteq T
    BY <1>2, <1>9, <1>10, UpToEnd, Zenon
  <2> QED BY <1>2, <2>1
<1> HIDE DEF First
<1> QED BY <1>6, <1>8, <1>11 DEF S
-----------------------------------------------------------------------------
(***************************************************************************)
(* The escrow.                                                             *)
(***************************************************************************)

\* The state of the exchange, part by part: ms are the markets, n the last
\* id given, os the open orders, b the ledger.
MarketSeqs  == Seq([base : Denoms, quote : Denoms])
OrderIn(ms) == [owner : Users, market : DOMAIN ms, direction : Directions,
                price : Nat \ {0}, qty : Nat \ {0},
                tif : 1 .. MaxTimeInForce, age : 0 .. AgeCap]
IsStore(ms, n, os) == DOMAIN os \subseteq 1 .. n /\ \A i \in DOMAIN os : os[i] \in OrderIn(ms)
Ledgers == [Accounts \X Denoms -> Nat]

CoinIn(ms, o) ==
  IF o.direction = "bid"
  THEN Coin(ms[o.market].quote, NormalizeQuote(o.price, o.qty))
  ELSE Coin(ms[o.market].base, o.qty)

OwedIn(ms, os, d) ==
  [i \in DOMAIN os |-> IF CoinIn(ms, os[i]).denom = d THEN CoinIn(ms, os[i]).amount ELSE 0]

Backed(b, ms, os) ==
  \A d \in Denoms :
    b[<<OrderModule, d>>] >= SumFunctionOnSet(OwedIn(ms, os, d), DOMAIN os)

\* NormalizeQuote grows with the quantity.
LEMMA NormalizeUpTo ==
  ASSUME NEW p \in Nat, NEW a \in Nat, NEW b \in Nat, a <= b
  PROVE  /\ NormalizeQuote(p, a) \in Nat
         /\ NormalizeQuote(p, b) \in Nat
         /\ NormalizeQuote(p, a) <= NormalizeQuote(p, b)
<1>0. Divisor \in Nat \ {0}
  BY ExchangeAssumption
<1>1. p * a \in Nat /\ p * b \in Nat /\ p * a <= p * b
  OBVIOUS
<1> DEFINE x == p * a
           y == p * b
           q == y \div Divisor
<1>2. q \in Nat /\ y < Divisor * q + Divisor /\ x \div Divisor \in Nat
      /\ Divisor * (x \div Divisor) <= x
  BY <1>0, <1>1, Quotient, Zenon
<1> DEFINE r == x \div Divisor
<1>3. NormalizeQuote(p, a) = r /\ NormalizeQuote(p, b) = q
  BY DEF NormalizeQuote
<1>4. Divisor * r <= x /\ r \in Nat /\ x \in Nat /\ y \in Nat /\ x <= y
  BY <1>1, <1>2
<1> HIDE DEF x, y, q, r
<1>5. ASSUME r > q PROVE FALSE
  <2>1. Divisor * (r - q) >= Divisor
    BY <1>0, <1>2, <1>4, <1>5
  <2>2. Divisor * (r - q) = Divisor * r - Divisor * q
    BY <1>0, <1>2, <1>4
  <2>3. Divisor * r \in Int /\ Divisor * q \in Int
    BY <1>0, <1>2, <1>4
  <2> QED BY <1>0, <1>2, <1>4, <2>1, <2>2, <2>3
<1> QED BY <1>2, <1>3, <1>4, <1>5

\* The coins of a market.
LEMMA MarketIs ==
  ASSUME NEW ms \in MarketSeqs, NEW m \in DOMAIN ms
  PROVE  ms[m].base \in Denoms /\ ms[m].quote \in Denoms
<1> DEFINE M == [base : Denoms, quote : Denoms]
<1>1. ms \in Seq(M)
  BY DEF MarketSeqs
<1>2. \A x \in M : x.base \in Denoms /\ x.quote \in Denoms
  OBVIOUS
<1> HIDE DEF M
<1>3. ms[m] \in M
  BY <1>1
<1> QED BY <1>2, <1>3

\* What an order has in escrow is a coin.
LEMMA CoinIs ==
  ASSUME NEW ms \in MarketSeqs, NEW o \in OrderIn(ms)
  PROVE  CoinIn(ms, o).denom \in Denoms /\ CoinIn(ms, o).amount \in Nat
<1>1. /\ o.price \in Nat /\ o.qty \in Nat /\ o.market \in DOMAIN ms
  BY DEF OrderIn
<1>2. ms[o.market].base \in Denoms /\ ms[o.market].quote \in Denoms
  BY <1>1, MarketIs
<1>3. NormalizeQuote(o.price, o.qty) \in Nat
  <2>1. o.qty <= o.qty
    BY <1>1
  <2> QED BY <1>1, <2>1, NormalizeUpTo, Zenon
<1> QED BY <1>1, <1>2, <1>3 DEF CoinIn, Coin

\* What is left of an order o after fills, or some blocks later.
LeftOf(o, w) ==
    /\ w.owner = o.owner /\ w.market = o.market /\ w.direction = o.direction
    /\ w.price = o.price /\ w.tif = o.tif
    /\ w.qty <= o.qty

\* What is left of an order has no more in escrow.
LEMMA CoinUpTo ==
  ASSUME NEW ms \in MarketSeqs, NEW o \in OrderIn(ms), NEW w \in OrderIn(ms), LeftOf(o, w)
  PROVE  /\ CoinIn(ms, w).denom = CoinIn(ms, o).denom
         /\ CoinIn(ms, w).amount <= CoinIn(ms, o).amount
<1>1. o.price \in Nat /\ o.qty \in Nat /\ w.qty \in Nat
  BY DEF OrderIn
<1>2. /\ w.qty <= o.qty /\ w.price = o.price /\ w.market = o.market
      /\ w.direction = o.direction
  BY DEF LeftOf
<1>3. NormalizeQuote(o.price, w.qty) <= NormalizeQuote(o.price, o.qty)
  BY <1>1, <1>2, NormalizeUpTo, Zenon
<1> QED BY <1>1, <1>2, <1>3 DEF CoinIn, Coin

\* What is owed can be added up.
LEMMA OwedIsNat ==
  ASSUME NEW ms \in MarketSeqs, NEW n \in Nat, NEW os, IsStore(ms, n, os), NEW d
  PROVE  /\ IsFiniteSet(DOMAIN os)
         /\ \A i \in DOMAIN os : OwedIn(ms, os, d)[i] \in Nat
<1>1. IsFiniteSet(DOMAIN os)
  <2>1. DOMAIN os \in SUBSET (0 .. n)
    BY DEF IsStore
  <2> QED BY <2>1, FiniteUpTo, Zenon
<1>2. \A i \in DOMAIN os : CoinIn(ms, os[i]).amount \in Nat
  BY CoinIs DEF IsStore
<1> QED BY <1>1, <1>2 DEF OwedIn

\* Less is owed for what is left of some of the orders.
LEMMA StillBacked ==
  ASSUME NEW ms \in MarketSeqs, NEW n \in Nat, NEW os, IsStore(ms, n, os),
         NEW ws, DOMAIN ws \subseteq DOMAIN os,
         \A i \in DOMAIN ws : ws[i] \in OrderIn(ms) /\ LeftOf(os[i], ws[i]),
         NEW a, NEW b, Backed(a, ms, os),
         \A d \in Denoms : a[<<OrderModule, d>>] \in Nat /\ b[<<OrderModule, d>>] = a[<<OrderModule, d>>]
  PROVE  Backed(b, ms, ws)
<1> SUFFICES ASSUME NEW d \in Denoms
             PROVE  b[<<OrderModule, d>>] >= SumFunctionOnSet(OwedIn(ms, ws, d), DOMAIN ws)
  BY DEF Backed
<1> DEFINE f == OwedIn(ms, ws, d)
           g == OwedIn(ms, os, d)
<1>1. IsFiniteSet(DOMAIN os) /\ \A i \in DOMAIN os : g[i] \in Nat
  BY OwedIsNat
<1>2. ASSUME NEW i \in DOMAIN ws
      PROVE  f[i] \in Nat /\ f[i] <= g[i]
  <2>1. i \in DOMAIN os /\ os[i] \in OrderIn(ms) /\ ws[i] \in OrderIn(ms) /\ LeftOf(os[i], ws[i])
    BY DEF IsStore
  <2>2. /\ CoinIn(ms, ws[i]).denom = CoinIn(ms, os[i]).denom
        /\ CoinIn(ms, ws[i]).amount <= CoinIn(ms, os[i]).amount
        /\ CoinIn(ms, ws[i]).amount \in Nat
    BY <2>1, CoinUpTo, CoinIs
  <2> QED BY <2>1, <2>2 DEF OwedIn
<1> HIDE DEF f, g
<1>3. SumFunctionOnSet(f, DOMAIN ws) <= SumFunctionOnSet(g, DOMAIN os)
  BY <1>1, <1>2, SumUpTo
<1>4. SumFunctionOnSet(g, DOMAIN os) \in Int /\ SumFunctionOnSet(f, DOMAIN ws) \in Int
  <2>1. IsFiniteSet(DOMAIN ws)
    BY <1>1, FS_Subset
  <2> QED BY <1>1, <1>2, <2>1, SumInt
<1>5. a[<<OrderModule, d>>] >= SumFunctionOnSet(g, DOMAIN os) /\ a[<<OrderModule, d>>] \in Nat
      /\ b[<<OrderModule, d>>] = a[<<OrderModule, d>>]
  BY DEF Backed, g
<1>6. b[<<OrderModule, d>>] >= SumFunctionOnSet(f, DOMAIN ws)
  BY <1>3, <1>4, <1>5
<1> QED BY <1>6 DEF f

\* What is owed for an order is there, and the others are owed the rest.
LEMMA OwedApart ==
  ASSUME NEW ms \in MarketSeqs, NEW n \in Nat, NEW os, IsStore(ms, n, os),
         NEW id \in DOMAIN os, NEW d
  PROVE  LET w == Without(os, id)
             rest == SumFunctionOnSet(OwedIn(ms, w, d), DOMAIN w)
         IN  /\ rest \in Nat
             /\ SumFunctionOnSet(OwedIn(ms, os, d), DOMAIN os) = OwedIn(ms, os, d)[id] + rest
<1> DEFINE w == Without(os, id)
           f == OwedIn(ms, os, d)
           g == OwedIn(ms, w, d)
<1>1. IsFiniteSet(DOMAIN os) /\ \A i \in DOMAIN os : f[i] \in Nat
  BY OwedIsNat
<1>2. DOMAIN w = DOMAIN os \ {id} /\ \A i \in DOMAIN w : w[i] = os[i]
  BY DEF Without
<1> HIDE DEF w
<1>3. \A i \in DOMAIN w : g[i] = f[i] /\ g[i] \in Nat
  BY <1>1, <1>2 DEF OwedIn
<1>4. IsFiniteSet(DOMAIN w)
  BY <1>1, <1>2, FS_Subset
<1> HIDE DEF f, g
<1>5. SumFunctionOnSet(f, DOMAIN os) = f[id] + SumFunctionOnSet(f, DOMAIN os \ {id})
  BY <1>1, SumRemove
<1>6. SumFunctionOnSet(g, DOMAIN w) = SumFunctionOnSet(f, DOMAIN w) /\ SumFunctionOnSet(g, DOMAIN w) \in Nat
  BY <1>3, <1>4, SumSame, SumNat
<1>7. SumFunctionOnSet(f, DOMAIN os) = f[id] + SumFunctionOnSet(g, DOMAIN w)
  BY <1>2, <1>5, <1>6
<1> QED BY <1>6, <1>7 DEF f, g, w

\* A transfer between two accounts.
LEMMA Sent ==
  ASSUME NEW b \in Ledgers, NEW from \in Accounts, NEW to \in Accounts, from # to,
         NEW c, c.denom \in Denoms, c.amount \in Nat, CanSend(b, from, c)
  PROVE  /\ Send(b, from, to, c) \in Ledgers
         /\ \A x \in Accounts, d \in Denoms :
              Send(b, from, to, c)[<<x, d>>] =
                IF x = from /\ d = c.denom THEN b[<<x, d>>] - c.amount
                ELSE IF x = to /\ d = c.denom THEN b[<<x, d>>] + c.amount
                ELSE b[<<x, d>>]
<1> DEFINE e == Send(b, from, to, c)
<1>1. DOMAIN b = Accounts \X Denoms /\ \A ad \in Accounts \X Denoms : b[ad] \in Nat
  BY DEF Ledgers
<1>2. e = [ad \in Accounts \X Denoms |->
             b[ad] - (IF ad = <<from, c.denom>> THEN c.amount ELSE 0)
                   + (IF ad = <<to, c.denom>> THEN c.amount ELSE 0)]
  BY <1>1 DEF Send
<1> HIDE DEF e
<1>3. ASSUME NEW x \in Accounts, NEW d \in Denoms
      PROVE  /\ e[<<x, d>>] = IF x = from /\ d = c.denom THEN b[<<x, d>>] - c.amount
                              ELSE IF x = to /\ d = c.denom THEN b[<<x, d>>] + c.amount
                              ELSE b[<<x, d>>]
             /\ e[<<x, d>>] \in Nat
  <2>1. <<x, d>> \in Accounts \X Denoms
    OBVIOUS
  <2>2. e[<<x, d>>] = b[<<x, d>>] - (IF <<x, d>> = <<from, c.denom>> THEN c.amount ELSE 0)
                         + (IF <<x, d>> = <<to, c.denom>> THEN c.amount ELSE 0)
    BY <1>2, <2>1
  <2>3. b[<<x, d>>] \in Nat
    BY <1>1, <2>1
  <2>4. CASE x = from /\ d = c.denom
    <3>1. b[<<x, d>>] >= c.amount
      BY <2>4 DEF CanSend
    <3> QED BY <2>2, <2>3, <2>4, <3>1
  <2>5. CASE x = to /\ d = c.denom
    BY <2>2, <2>3, <2>5
  <2>6. CASE ~ (x = from /\ d = c.denom) /\ ~ (x = to /\ d = c.denom)
    BY <2>2, <2>3, <2>6
  <2> QED BY <2>4, <2>5, <2>6
<1>4. e \in Ledgers
  <2>1. \A ad \in Accounts \X Denoms : e[ad] \in Nat
    BY <1>3
  <2> QED BY <1>2, <2>1 DEF Ledgers
<1> QED BY <1>3, <1>4 DEF e

\* New coins for one account.
LEMMA Minted ==
  ASSUME NEW b \in Ledgers, NEW to \in Accounts, NEW c, c.denom \in Denoms, c.amount \in Nat
  PROVE  /\ Mint(b, to, c) \in Ledgers
         /\ \A x \in Accounts, d \in Denoms :
              Mint(b, to, c)[<<x, d>>] =
                IF x = to /\ d = c.denom THEN b[<<x, d>>] + c.amount ELSE b[<<x, d>>]
<1>1. DOMAIN b = Accounts \X Denoms /\ \A ad \in Accounts \X Denoms : b[ad] \in Nat
  BY DEF Ledgers
<1>2. <<to, c.denom>> \in Accounts \X Denoms /\ b[<<to, c.denom>>] + c.amount \in Nat
  BY <1>1
<1>3. ASSUME NEW x \in Accounts, NEW d \in Denoms
      PROVE  Mint(b, to, c)[<<x, d>>] =
               IF x = to /\ d = c.denom THEN b[<<x, d>>] + c.amount ELSE b[<<x, d>>]
  <2>1. <<x, d>> \in Accounts \X Denoms /\ (<<x, d>> = <<to, c.denom>> <=> x = to /\ d = c.denom)
    OBVIOUS
  <2> QED BY <1>1, <1>2, <2>1 DEF Mint
<1>4. Mint(b, to, c) \in Ledgers
  BY <1>1, <1>2 DEF Mint, Ledgers
<1> QED BY <1>3, <1>4

\* The order module's account belongs to no user.
LEMMA ModuleIsNoUser == OrderModule \in Accounts /\ Users \subseteq Accounts /\ OrderModule \notin Users
BY OrderModuleAssumption DEF Accounts

\* What a user u has of d, in the account and in open orders.
StakesIn(ms, os, u, d) ==
  [i \in DOMAIN os |-> IF os[i].owner = u /\ CoinIn(ms, os[i]).denom = d
                       THEN CoinIn(ms, os[i]).amount ELSE 0]
WealthIn(ms, b, os, u, d) == b[<<u, d>>] + SumFunctionOnSet(StakesIn(ms, os, u, d), DOMAIN os)

\* The ledger b and the orders os are worth what a and ws are, to every user.
SameWealth(ms, b, os, a, ws) ==
  \A u \in Users, d \in Denoms : WealthIn(ms, b, os, u, d) = WealthIn(ms, a, ws, u, d)

\* Stakes can be added up.
LEMMA StakesAreNat ==
  ASSUME NEW ms \in MarketSeqs, NEW n \in Nat, NEW os, IsStore(ms, n, os), NEW u, NEW d
  PROVE  /\ IsFiniteSet(DOMAIN os)
         /\ \A i \in DOMAIN os : StakesIn(ms, os, u, d)[i] \in Nat
<1>1. IsFiniteSet(DOMAIN os)
  BY OwedIsNat
<1>2. \A i \in DOMAIN os : CoinIn(ms, os[i]).amount \in Nat
  BY CoinIs DEF IsStore
<1> QED BY <1>1, <1>2 DEF StakesIn

\* Paying an order's escrow back leaves everybody as wealthy.
LEMMA PaidBack ==
  ASSUME NEW ms \in MarketSeqs, NEW n \in Nat, NEW os, IsStore(ms, n, os), NEW id \in DOMAIN os,
         NEW b \in Ledgers, NEW e,
         \A u \in Users, d \in Denoms :
           e[<<u, d>>] = IF u = os[id].owner /\ d = CoinIn(ms, os[id]).denom
                         THEN b[<<u, d>>] + CoinIn(ms, os[id]).amount ELSE b[<<u, d>>]
  PROVE  SameWealth(ms, e, Without(os, id), b, os)
<1> SUFFICES ASSUME NEW u \in Users, NEW d \in Denoms
             PROVE  WealthIn(ms, e, Without(os, id), u, d) = WealthIn(ms, b, os, u, d)
  BY DEF SameWealth
<1> DEFINE w == Without(os, id)
           c == CoinIn(ms, os[id])
           f == StakesIn(ms, os, u, d)
           g == StakesIn(ms, w, u, d)
           S == DOMAIN os
           amount == c.amount
<1>1. IsFiniteSet(S) /\ \A i \in S : f[i] \in Nat
  BY StakesAreNat
<1>2. DOMAIN w = S \ {id} /\ \A i \in S \ {id} : w[i] = os[i]
  BY DEF Without
<1> HIDE DEF w
<1>3. \A i \in S \ {id} : g[i] = f[i]
  BY <1>2 DEF StakesIn
<1>4. f[id] = IF u = os[id].owner /\ d = c.denom THEN amount ELSE 0
  BY DEF StakesIn
<1>5. e[<<u, d>>] = IF u = os[id].owner /\ d = c.denom THEN b[<<u, d>>] + amount ELSE b[<<u, d>>]
  BY Zenon
<1>6. b[<<u, d>>] \in Nat
  <2>1. <<u, d>> \in Accounts \X Denoms
    BY ModuleIsNoUser
  <2> QED BY <2>1 DEF Ledgers
<1>7. WealthIn(ms, e, w, u, d) = e[<<u, d>>] + SumFunctionOnSet(g, S \ {id})
      /\ WealthIn(ms, b, os, u, d) = b[<<u, d>>] + SumFunctionOnSet(f, S)
  BY <1>2, Zenon DEF WealthIn
<1>8. amount \in Nat
  BY CoinIs DEF IsStore
<1> HIDE DEF f, g, S, amount, c
<1>9. id \in S /\ IsFiniteSet(S \ {id})
  BY <1>1, FS_Subset DEF S
<1>10. /\ SumFunctionOnSet(f, S) = f[id] + SumFunctionOnSet(f, S \ {id})
       /\ SumFunctionOnSet(g, S \ {id}) = SumFunctionOnSet(f, S \ {id})
       /\ SumFunctionOnSet(f, S \ {id}) \in Int
  <2>1. \A i \in S : f[i] \in Int
    BY <1>1
  <2> QED BY <1>1, <1>3, <1>9, <2>1, SumRemove, SumSame, SumInt
<1>11. CASE u = os[id].owner /\ d = c.denom
  <2>1. f[id] = amount /\ e[<<u, d>>] = b[<<u, d>>] + amount
    BY <1>4, <1>5, <1>11
  <2>2. e[<<u, d>>] + SumFunctionOnSet(g, S \ {id}) = b[<<u, d>>] + SumFunctionOnSet(f, S)
    BY <1>6, <1>8, <1>10, <2>1
  <2> QED BY <1>7, <2>2 DEF w
<1>12. CASE ~ (u = os[id].owner /\ d = c.denom)
  <2>1. f[id] = 0 /\ e[<<u, d>>] = b[<<u, d>>]
    BY <1>4, <1>5, <1>12
  <2>2. e[<<u, d>>] + SumFunctionOnSet(g, S \ {id}) = b[<<u, d>>] + SumFunctionOnSet(f, S)
    BY <1>6, <1>10, <2>1
  <2> QED BY <1>7, <2>2 DEF w
<1> QED BY <1>11, <1>12

-----------------------------------------------------------------------------
(***************************************************************************)
(* What the events of a batch tell.                                        *)
(***************************************************************************)
BatchEvents == [type : {"batch"}, id : Nat]
Events == BatchEvents \cup [type : {"cancelled"}, id : Nat]
                      \cup [type : {"fill"}, id : Nat, filled : Nat]

\* The event x says how the orders a became the orders b.
Told(a, x, b) ==
  \/ x.type = "batch" /\ b = a
  \/ x.type = "cancelled" /\ x.id \in DOMAIN a /\ b = Without(a, x.id)
  \/ /\ x.type = "fill" /\ x.id \in DOMAIN a /\ x.filled <= a[x.id].qty
     /\ b = IF x.filled = a[x.id].qty THEN Without(a, x.id)
            ELSE [a EXCEPT ![x.id].qty = a[x.id].qty - x.filled]

\* The events e say how the orders ws became the orders os.
Tell(ws, e, os) ==
  \E r : /\ r[0] = ws
         /\ r[Len(e)] = os
         /\ \A i \in 1 .. Len(e) : Told(r[i - 1], e[i], r[i])

\* No event, no change.
LEMMA NothingTold == ASSUME NEW ws PROVE Tell(ws, <<>>, ws)
<1> DEFINE r == [i \in {0} |-> ws]
<1>1. r[0] = ws /\ Len(<<>>) = 0
  OBVIOUS
<1> HIDE DEF r
<1> QED BY <1>1 DEF Tell

\* One more event.
LEMMA OneMoreTold ==
  ASSUME NEW ws, NEW e \in Seq(Events), NEW os, Tell(ws, e, os),
         NEW x \in Events, NEW w, Told(os, x, w)
  PROVE  Append(e, x) \in Seq(Events) /\ Tell(ws, Append(e, x), w)
<1> DEFINE n == Len(e)
           f == Append(e, x)
<1>1. PICK r : r[0] = ws /\ r[n] = os /\ \A i \in 1 .. n : Told(r[i - 1], e[i], r[i])
  BY DEF Tell
<1>2. n \in Nat
  OBVIOUS
<1>3. /\ f \in Seq(Events) /\ Len(f) = n + 1
      /\ \A i \in 1 .. n : f[i] = e[i]
      /\ f[n + 1] = x
  OBVIOUS
<1> DEFINE t == [i \in 0 .. n + 1 |-> IF i = n + 1 THEN w ELSE r[i]]
<1> HIDE DEF n, f
<1>4. /\ \A i \in 0 .. n : t[i] = r[i]
      /\ t[n + 1] = w
  BY <1>2
<1> HIDE DEF t
<1>5. ASSUME NEW i \in 1 .. n + 1
      PROVE  Told(t[i - 1], f[i], t[i])
  <2>1. i - 1 \in 0 .. n
    BY <1>2
  <2>2. CASE i = n + 1
    <3>1. i - 1 = n
      BY <1>2, <2>2
    <3>2. t[i - 1] = os
      BY <1>1, <1>4, <2>1, <3>1
    <3> QED BY <1>3, <1>4, <2>2, <3>2
  <2>3. CASE i # n + 1
    <3>1. i \in 1 .. n /\ i \in 0 .. n
      BY <1>2, <2>3
    <3> QED BY <1>1, <1>3, <1>4, <2>1, <3>1
  <2> QED BY <2>2, <2>3
<1>6. t[0] = ws /\ t[n + 1] = w
  BY <1>1, <1>2, <1>4
<1>7. Tell(ws, f, w)
  BY <1>3, <1>5, <1>6 DEF Tell
<1> QED BY <1>3, <1>7 DEF f

\* The events that announce the batches tell nothing about the orders.
LEMMA BatchesTold ==
  ASSUME NEW ws, NEW e \in Seq(Events), NEW os, Tell(ws, e, os), NEW b \in Seq(BatchEvents)
  PROVE  e \o b \in Seq(Events) /\ Tell(ws, e \o b, os)
<1> DEFINE n == Len(e)
           m == Len(b)
           f == e \o b
<1>1. PICK r : r[0] = ws /\ r[n] = os /\ \A i \in 1 .. n : Told(r[i - 1], e[i], r[i])
  BY DEF Tell
<1>2. n \in Nat /\ m \in Nat
  OBVIOUS
<1>3. b \in Seq(Events)
  BY DEF Events
<1>4. /\ f \in Seq(Events) /\ Len(f) = n + m
      /\ \A i \in 1 .. n + m : f[i] = IF i <= n THEN e[i] ELSE b[i - n]
  BY <1>3, Joined
<1>5. \A i \in 1 .. m : b[i].type = "batch"
  <2>1. \A i \in 1 .. m : b[i] \in BatchEvents
    OBVIOUS
  <2> QED BY <2>1 DEF BatchEvents
<1> DEFINE t == [i \in 0 .. n + m |-> IF i <= n THEN r[i] ELSE os]
<1> HIDE DEF n, m, f
<1>6. /\ \A i \in 0 .. n : t[i] = r[i]
      /\ \A i \in n .. n + m : t[i] = os
  <2>1. ASSUME NEW i \in 0 .. n PROVE t[i] = r[i]
    <3>1. i \in 0 .. n + m /\ i <= n
      BY <1>2
    <3> QED BY <3>1
  <2>2. ASSUME NEW i \in n .. n + m PROVE t[i] = os
    <3>1. i \in 0 .. n + m
      BY <1>2
    <3>2. i = n \/ ~ (i <= n)
      BY <1>2
    <3> QED BY <1>1, <3>1, <3>2
  <2> QED BY <2>1, <2>2
<1> HIDE DEF t
<1>7. ASSUME NEW i \in 1 .. n + m
      PROVE  Told(t[i - 1], f[i], t[i])
  <2>1. CASE i <= n
    <3>1. i \in 1 .. n /\ i \in 0 .. n /\ i - 1 \in 0 .. n /\ f[i] = e[i]
      BY <1>2, <1>4, <2>1
    <3> QED BY <1>1, <1>6, <3>1
  <2>2. CASE ~ (i <= n)
    <3>1. i - n \in 1 .. m /\ i - 1 \in n .. n + m /\ i \in n .. n + m
      BY <1>2, <2>2
    <3>2. f[i].type = "batch"
      BY <1>4, <1>5, <2>2, <3>1
    <3> QED BY <1>6, <3>1, <3>2 DEF Told
  <2> QED BY <2>1, <2>2
<1>8. t[0] = ws /\ t[n + m] = os
  <2>1. 0 \in 0 .. n /\ n + m \in n .. n + m
    BY <1>2
  <2> QED BY <1>1, <1>6, <2>1
<1>9. Tell(ws, f, os)
  BY <1>4, <1>7, <1>8 DEF Tell
<1> QED BY <1>4, <1>9 DEF f
-----------------------------------------------------------------------------
(***************************************************************************)
(* Cancelling the expired orders.                                          *)
(***************************************************************************)
State(os, b, h, e) == [orders |-> os, balance |-> b, halted |-> h, events |-> e]

\* Cancel pays the escrow of an order back: it never finds too little.
LEMMA CancelOrderIs ==
  ASSUME markets \in MarketSeqs, NEW n \in Nat, NEW os, IsStore(markets, n, os),
         NEW b \in Ledgers, Backed(b, markets, os), NEW e, NEW id \in DOMAIN os
  PROVE  \/ CancelOrder(State(os, b, "no", e), id) = State(os, b, "dust", e)
         \/ \E c : /\ CancelOrder(State(os, b, "no", e), id)
                        = State(Without(os, id), c, "no", Append(e, [type |-> "cancelled", id |-> id]))
                   /\ c \in Ledgers
                   /\ Backed(c, markets, Without(os, id))
                   /\ SameWealth(markets, c, Without(os, id), b, os)
<1> DEFINE s == State(os, b, "no", e)
           o == os[id]
           c == PostedCoin(o)
           w == Without(os, id)
           sent == Send(b, OrderModule, o.owner, c)
<1>1. o \in OrderIn(markets) /\ o.owner \in Users
  <2>1. o \in OrderIn(markets)
    BY DEF IsStore
  <2> HIDE DEF o
  <2> QED BY <2>1 DEF OrderIn
<1>2. c = CoinIn(markets, o)
  BY DEF PostedCoin, CoinIn
<1>3. c.denom \in Denoms /\ c.amount \in Nat
  <2> HIDE DEF c, o
  <2> QED BY <1>1, <1>2, CoinIs
<1>4. \A d \in Denoms :
        LET rest == SumFunctionOnSet(OwedIn(markets, w, d), DOMAIN w)
        IN  /\ rest \in Nat
            /\ SumFunctionOnSet(OwedIn(markets, os, d), DOMAIN os)
                 = (IF d = c.denom THEN c.amount ELSE 0) + rest
  <2> SUFFICES ASSUME NEW d \in Denoms
               PROVE  LET rest == SumFunctionOnSet(OwedIn(markets, w, d), DOMAIN w)
                      IN  /\ rest \in Nat
                          /\ SumFunctionOnSet(OwedIn(markets, os, d), DOMAIN os)
                               = (IF d = c.denom THEN c.amount ELSE 0) + rest
    OBVIOUS
  <2>1. OwedIn(markets, os, d)[id] = IF d = c.denom THEN c.amount ELSE 0
    BY <1>2 DEF OwedIn
  <2> HIDE DEF c
  <2> QED BY <2>1, OwedApart
<1>5. \A d \in Denoms : /\ b[<<OrderModule, d>>] \in Nat
                        /\ b[<<OrderModule, d>>] >= SumFunctionOnSet(OwedIn(markets, os, d), DOMAIN os)
  <2>1. \A d \in Denoms : <<OrderModule, d>> \in Accounts \X Denoms
    BY ModuleIsNoUser
  <2> QED BY <2>1 DEF Backed, Ledgers
<1> HIDE DEF c, w
<1>6. CanSend(b, OrderModule, c)
  BY <1>3, <1>4, <1>5 DEF CanSend
<1>7. OrderModule \in Accounts /\ o.owner \in Accounts /\ OrderModule # o.owner
  BY <1>1, ModuleIsNoUser
<1> HIDE DEF o
<1>8. /\ sent \in Ledgers
      /\ \A d \in Denoms : sent[<<OrderModule, d>>] =
                             IF d = c.denom THEN b[<<OrderModule, d>>] - c.amount
                             ELSE b[<<OrderModule, d>>]
      /\ \A x \in Accounts \ {OrderModule}, d \in Denoms :
           sent[<<x, d>>] = IF x = o.owner /\ d = c.denom THEN b[<<x, d>>] + c.amount ELSE b[<<x, d>>]
  BY <1>3, <1>6, <1>7, Sent
<1> HIDE DEF sent
<1>9. Backed(sent, markets, w)
  <2> SUFFICES ASSUME NEW d \in Denoms
               PROVE  sent[<<OrderModule, d>>] >= SumFunctionOnSet(OwedIn(markets, w, d), DOMAIN w)
    BY DEF Backed
  <2> QED BY <1>3, <1>4, <1>5, <1>8
<1>12. SameWealth(markets, sent, w, b, os)
  <2>1. \A u \in Users : u \in Accounts \ {OrderModule}
    BY ModuleIsNoUser
  <2>2. \A u \in Users, d \in Denoms :
          sent[<<u, d>>] = IF u = o.owner /\ d = c.denom THEN b[<<u, d>>] + c.amount ELSE b[<<u, d>>]
    BY <1>8, <2>1
  <2> QED BY <1>2, <2>2, PaidBack DEF w, o
<1>10. CASE c.amount = 0
  <2>1. CancelOrder(s, id) = State(os, b, "dust", e)
    BY <1>10 DEF CancelOrder, State, c, o
  <2> QED BY <2>1
<1>11. CASE c.amount # 0
  <2>1. CancelOrder(s, id) = State(w, sent, "no", Append(e, [type |-> "cancelled", id |-> id]))
    BY <1>6, <1>11, Zenon DEF CancelOrder, State, c, o, w, sent
  <2> QED BY <1>8, <1>9, <1>12, <2>1 DEF w
<1> QED BY <1>10, <1>11

CancelStep(p, s, id) == CancelOrder(s, id)
Cancelling == INSTANCE Folding WITH op <- CancelStep

ExpiredOrders == {i \in DOMAIN orders : Expired(orders[i])}

\* The cancellations are a fold of CancelOrder.
LEMMA CancelIsFold ==
  CancelExpired = Cancelling!Fold(0, State(orders, balance, halted, <<>>), Ascending(ExpiredOrders))
BY DEF CancelExpired, State, ExpiredOrders, CancelStep, FoldLeft, MapThenFoldSet, Max,
       Cancelling!Fold, Cancelling!Folds, Cancelling!Greatest

\* The batch after the expired orders `done` are cancelled.
Cancelled(s, done) ==
  \E os, b, h, e :
    /\ s = State(os, b, h, e)
    /\ e \in Seq(Events)
    /\ \/ h = "dust"
       \/ /\ h = "no"
          /\ Tell(orders, e, os)
          /\ DOMAIN os = DOMAIN orders \ done
          /\ \A i \in DOMAIN os : os[i] = orders[i]
          /\ b \in Ledgers
          /\ Backed(b, markets, os)
          /\ SameWealth(markets, b, os, balance, orders)

\* One more expired order is cancelled.
LEMMA CancelOneMore ==
  ASSUME markets \in MarketSeqs, NEW n \in Nat, IsStore(markets, n, orders),
         NEW s, NEW done, Cancelled(s, done), NEW id \in DOMAIN orders, id \notin done
  PROVE  Cancelled(CancelOrder(s, id), done \cup {id})
<1>1. PICK os, b, h, e :
        /\ s = State(os, b, h, e)
        /\ e \in Seq(Events)
        /\ \/ h = "dust"
           \/ /\ h = "no"
              /\ Tell(orders, e, os)
              /\ DOMAIN os = DOMAIN orders \ done
              /\ \A i \in DOMAIN os : os[i] = orders[i]
              /\ b \in Ledgers
              /\ Backed(b, markets, os)
              /\ SameWealth(markets, b, os, balance, orders)
  BY DEF Cancelled
<1>2. CASE h = "dust"
  <2>1. CancelOrder(s, id) = State(os, b, h, e)
    BY <1>1, <1>2 DEF CancelOrder, State
  <2> QED BY <1>1, <1>2, <2>1 DEF Cancelled
<1>3. CASE h # "dust"
  <2>1. IsStore(markets, n, os) /\ id \in DOMAIN os
    BY <1>1, <1>3 DEF IsStore
  <2>2. CASE CancelOrder(State(os, b, "no", e), id) = State(os, b, "dust", e)
    BY <1>1, <1>3, <2>2 DEF Cancelled
  <2>3. CASE CancelOrder(State(os, b, "no", e), id) # State(os, b, "dust", e)
    <3> DEFINE x == [type |-> "cancelled", id |-> id]
               f == Append(e, x)
    <3>1. PICK c : /\ CancelOrder(State(os, b, "no", e), id) = State(Without(os, id), c, "no", f)
                   /\ c \in Ledgers
                   /\ Backed(c, markets, Without(os, id))
                   /\ SameWealth(markets, c, Without(os, id), b, os)
      BY <1>1, <1>3, <2>1, <2>3, CancelOrderIs
    <3>2. /\ DOMAIN Without(os, id) = DOMAIN orders \ (done \cup {id})
          /\ \A i \in DOMAIN Without(os, id) : Without(os, id)[i] = orders[i]
      BY <1>1, <1>3 DEF Without
    <3>3. id \in Nat
      BY <2>1 DEF IsStore
    <3>4. x \in Events /\ Told(os, x, Without(os, id))
      BY <2>1, <3>3 DEF Events, Told
    <3>5. f \in Seq(Events) /\ Tell(orders, f, Without(os, id))
      <4> HIDE DEF x
      <4> QED BY <1>1, <1>3, <3>4, OneMoreTold
    <3>6. SameWealth(markets, c, Without(os, id), balance, orders)
      BY <1>1, <1>3, <3>1 DEF SameWealth
    <3> HIDE DEF f
    <3> QED BY <1>1, <1>3, <3>1, <3>2, <3>5, <3>6 DEF Cancelled
  <2> QED BY <2>2, <2>3
<1> QED BY <1>2, <1>3

\* All expired orders are cancelled, or one of them is dust.
LEMMA CancelExpiredIs ==
  ASSUME markets \in MarketSeqs, NEW n \in Nat, IsStore(markets, n, orders),
         balance \in Ledgers, Backed(balance, markets, orders), halted = "no"
  PROVE  Cancelled(CancelExpired, ExpiredOrders)
<1> DEFINE a == Ascending(ExpiredOrders)
           k == Cardinality(ExpiredOrders)
           First(i) == {a[j] : j \in 1 .. i}
           base == State(orders, balance, halted, <<>>)
<1>0. ExpiredOrders \in SUBSET (0 .. n)
  BY DEF ExpiredOrders, IsStore
<1>1. /\ k \in Nat /\ a \in Seq(ExpiredOrders) /\ Len(a) = k
      /\ \A i, j \in 1 .. k : i # j => a[i] # a[j]
      /\ ExpiredOrders = {a[i] : i \in 1 .. k}
  <2> DEFINE E == ExpiredOrders
  <2>1. E \in SUBSET (0 .. n)
    BY <1>0
  <2> HIDE DEF E
  <2>2. /\ Cardinality(E) \in Nat /\ Ascending(E) \in Seq(E) /\ Len(Ascending(E)) = Cardinality(E)
        /\ \A i, j \in 1 .. Cardinality(E) : i # j => Ascending(E)[i] # Ascending(E)[j]
        /\ E = {Ascending(E)[i] : i \in 1 .. Cardinality(E)}
    BY <2>1, AscendingIs, Zenon
  <2> QED BY <2>2, Zenon DEF E
<1>b. CancelExpired = Cancelling!Fold(0, base, a)
  BY CancelIsFold
<1>2. Cancelled(base, {})
  <2>1. DOMAIN orders = DOMAIN orders \ {} /\ <<>> \in Seq(Events)
    OBVIOUS
  <2>2. Tell(orders, <<>>, orders)
    BY NothingTold
  <2>3. SameWealth(markets, balance, orders, balance, orders)
    BY DEF SameWealth
  <2> QED BY <2>1, <2>2, <2>3, Zenon DEF Cancelled
<1> HIDE DEF a, k, base
<1>3. DOMAIN a = 1 .. k /\ \A i \in 1 .. k : a[i] \in DOMAIN orders
  <2>1. \A i \in 1 .. k : a[i] \in ExpiredOrders
    BY <1>1
  <2> QED BY <1>1, <2>1 DEF ExpiredOrders
<1>4. PICK r : Cancelling!Runs(r, 0, base, a, k)
  BY <1>1, <1>3, Cancelling!FoldRuns, Zenon
<1>5. /\ r[0] = base
      /\ \A i \in 1 .. k : r[i] = CancelOrder(r[i - 1], a[i])
      /\ r[k] = CancelExpired
  BY <1>b, <1>4 DEF Cancelling!Runs, CancelStep
<1> DEFINE T == {i \in 0 .. k : Cancelled(r[i], First(i))}
<1>6. 0 \in T
  <2>1. First(0) = {} /\ 0 \in 0 .. k
    BY <1>1
  <2> QED BY <1>2, <1>5, <2>1
<1>7. ASSUME NEW i \in 0 .. k - 1, i \in T PROVE i + 1 \in T
  <2>1. i + 1 \in 1 .. k /\ (i + 1) - 1 = i /\ i + 1 \in 0 .. k
    BY <1>1
  <2>2. r[i + 1] = CancelOrder(r[i], a[i + 1])
    <3>1. r[i + 1] = CancelOrder(r[(i + 1) - 1], a[i + 1])
      BY <1>5, <2>1
    <3> QED BY <2>1, <3>1
  <2>3. First(i + 1) = First(i) \cup {a[i + 1]}
    OBVIOUS
  <2>4. a[i + 1] \notin First(i)
    BY <1>1, <2>1
  <2>5. a[i + 1] \in DOMAIN orders
    BY <1>3, <2>1
  <2>6. Cancelled(r[i], First(i))
    BY <1>7
  <2> HIDE DEF First
  <2>7. Cancelled(CancelOrder(r[i], a[i + 1]), First(i) \cup {a[i + 1]})
    BY <2>4, <2>5, <2>6, CancelOneMore
  <2> QED BY <2>1, <2>2, <2>3, <2>7, Zenon
<1>8. k \in T
  <2> HIDE DEF T
  <2>1. 0 .. k \subseteq T
    BY <1>1, <1>6, <1>7, UpToEnd, Zenon
  <2> QED BY <1>1, <2>1
<1>9. First(k) = ExpiredOrders
  BY <1>1
<1> HIDE DEF First
<1> QED BY <1>5, <1>8, <1>9
-----------------------------------------------------------------------------
(***************************************************************************)
(* What the fills pay.                                                     *)
(***************************************************************************)

\* The orders of some markets.
OfMarkets(ws, M) == {i \in DOMAIN ws : ws[i].market \in M}

\* The orders of one side of a market, as its book has them.
SideOf(ws, m, side) == {OfferOf(ws, i) : i \in OneSide(ws, m, side)}

\* The two books of a market are sorted, and have its orders, each once.
AreBooks(ws, m, bids, asks) ==
    /\ ByPrice(bids) /\ Distinct(bids) /\ InBook(bids) = SideOf(ws, m, "bid")
    /\ ByPrice(asks) /\ Distinct(asks) /\ InBook(asks) = SideOf(ws, m, "ask")
    /\ Overlap(bids, asks) => IsBook(bids) /\ IsBook(asks)

LEMMA BooksOf ==
  ASSUME NEW n \in Nat, NEW ws, IsStore(markets, n, ws), NEW m
  PROVE  AreBooks(ws, m, BookOf(ws, m, "bid"), BookOf(ws, m, "ask"))
<1> DEFINE bids == BookOf(ws, m, "bid")
           asks == BookOf(ws, m, "ask")
<1>1. DOMAIN ws \subseteq 0 .. n /\ \A i \in DOMAIN ws : ws[i] \in OrderIn(markets)
  BY DEF IsStore
<1>2. \A i \in DOMAIN ws : ws[i].price \in Nat /\ ws[i].qty \in Nat \ {0}
  BY <1>1 DEF OrderIn
<1>3. ByPrice(bids) /\ Distinct(bids) /\ InBook(bids) = SideOf(ws, m, "bid")
  BY <1>1, <1>2, BookIs DEF SideOf
<1>4. ByPrice(asks) /\ Distinct(asks) /\ InBook(asks) = SideOf(ws, m, "ask")
  BY <1>1, <1>2, BookIs DEF SideOf
<1> HIDE DEF bids, asks
<1>5. ASSUME Overlap(bids, asks) PROVE IsBook(bids) /\ IsBook(asks)
  <2>1. bids # <<>> /\ asks # <<>>
    BY <1>5 DEF Overlap
  <2>2. Len(bids) > 0 /\ Len(asks) > 0
    BY <1>3, <1>4, <2>1 DEF ByPrice
  <2> QED BY <1>3, <1>4, <2>2 DEF ByPrice, IsBook
<1>6. AreBooks(ws, m, bids, asks)
  BY <1>3, <1>4, <1>5 DEF AreBooks
<1> QED BY <1>6 DEF bids, asks

\* No order is on both sides.
LEMMA OtherSide ==
  ASSUME NEW ws, NEW m, NEW o \in SideOf(ws, m, "bid"), NEW p \in SideOf(ws, m, "ask")
  PROVE  o.id # p.id
<1>1. PICK i \in OneSide(ws, m, "bid") : o = OfferOf(ws, i)
  BY DEF SideOf
<1>2. PICK j \in OneSide(ws, m, "ask") : p = OfferOf(ws, j)
  BY DEF SideOf
<1>3. i # j
  BY DEF OneSide
<1> QED BY <1>1, <1>2, <1>3 DEF OfferOf

\* The match of a market fills orders of that market, each once.
LEMMA MatchOf ==
  ASSUME NEW n \in Nat, NEW ws, IsStore(markets, n, ws),
         NEW m, Overlap(BookOf(ws, m, "bid"), BookOf(ws, m, "ask"))
  PROVE  LET r == Match(BookOf(ws, m, "bid"), BookOf(ws, m, "ask"))
         IN  /\ r.price \in Nat
             /\ FillsOf(r.fills, {OfferOf(ws, i) : i \in OfMarkets(ws, {m})})
<1> DEFINE bids == BookOf(ws, m, "bid")
           asks == BookOf(ws, m, "ask")
<1>1. AreBooks(ws, m, bids, asks)
  BY BooksOf
<1>2. \A i \in DOMAIN ws : ws[i].direction \in Directions
  BY DEF IsStore, OrderIn
<1> HIDE DEF bids, asks
<1>3. \A o \in InBook(bids), p \in InBook(asks) : o.id # p.id
  BY <1>1, OtherSide DEF AreBooks
<1>4. InBook(bids) \cup InBook(asks) = {OfferOf(ws, i) : i \in OfMarkets(ws, {m})}
  <2>1. OneSide(ws, m, "bid") \cup OneSide(ws, m, "ask") = OfMarkets(ws, {m})
    BY <1>2 DEF OneSide, OfMarkets, Directions
  <2> QED BY <1>1, <2>1 DEF AreBooks, SideOf
<1>5. Overlap(bids, asks) /\ IsBook(bids) /\ IsBook(asks) /\ Distinct(bids) /\ Distinct(asks)
  BY <1>1 DEF AreBooks, bids, asks
<1>6. Match(bids, asks).price \in Nat /\ FillsOf(Match(bids, asks).fills, InBook(bids) \cup InBook(asks))
  BY <1>3, <1>5, MatchIs, Zenon
<1> QED BY <1>4, <1>6, Zenon DEF bids, asks

\* The clearing price of a market that matches.
PriceOf(ws, m) ==
  IF m \in Matching(ws) THEN Match(BookOf(ws, m, "bid"), BookOf(ws, m, "ask")).price ELSE 0

LEMMA PriceIsNat ==
  ASSUME NEW n \in Nat, NEW ws, IsStore(markets, n, ws)
  PROVE  \A m : PriceOf(ws, m) \in Nat
<1> SUFFICES ASSUME NEW m \in Matching(ws)
             PROVE  Match(BookOf(ws, m, "bid"), BookOf(ws, m, "ask")).price \in Nat
  BY DEF PriceOf
<1>1. Overlap(BookOf(ws, m, "bid"), BookOf(ws, m, "ask"))
  BY DEF Matching
<1> QED BY <1>1, MatchOf, Zenon

\* Nothing costs nothing.
LEMMA NothingIsFree == ASSUME NEW p \in Nat PROVE NormalizeQuote(p, 0) = 0
<1>1. p * 0 = 0
  OBVIOUS
<1>2. 0 \div Divisor = 0
  BY ExchangeAssumption
<1> QED BY <1>1, <1>2 DEF NormalizeQuote

\* What a fill of n of the order o, at the price p, pays its owner in d.
InCoin(d, e, n)    == IF d = e THEN n ELSE 0
RefundOf(o, p, n)  == IF p < o.price THEN NormalizeQuote(o.price - p, n) ELSE 0
PaidFor(o, p, n, d) ==
  IF o.direction = "bid"
  THEN InCoin(d, markets[o.market].base, n) + InCoin(d, markets[o.market].quote, RefundOf(o, p, n))
  ELSE InCoin(d, markets[o.market].quote, NormalizeQuote(p, n))

LEMMA RefundIs ==
  ASSUME NEW o \in OrderIn(markets), NEW p \in Nat, NEW n \in Nat
  PROVE  /\ RefundOf(o, p, n) \in Nat
         /\ RefundOf(o, p, 0) = 0
<1>1. o.price \in Nat
  BY DEF OrderIn
<1>2. CASE p < o.price
  <2>1. o.price - p \in Nat /\ n <= n
    BY <1>1, <1>2
  <2>2. NormalizeQuote(o.price - p, n) \in Nat
    BY <2>1, NormalizeUpTo, Zenon
  <2>3. NormalizeQuote(o.price - p, 0) = 0
    BY <2>1, NothingIsFree
  <2> QED BY <1>2, <2>2, <2>3 DEF RefundOf
<1>3. CASE ~ (p < o.price)
  BY <1>3 DEF RefundOf
<1> QED BY <1>2, <1>3

LEMMA PaidForIs ==
  ASSUME NEW o \in OrderIn(markets), NEW p \in Nat, NEW n \in Nat, NEW d
  PROVE  /\ PaidFor(o, p, n, d) \in Nat
         /\ PaidFor(o, p, 0, d) = 0
<1>1. /\ RefundOf(o, p, n) \in Nat /\ RefundOf(o, p, 0) = 0
  BY RefundIs
<1>2. NormalizeQuote(p, n) \in Nat /\ NormalizeQuote(p, 0) = 0
  <2>1. n <= n
    OBVIOUS
  <2> QED BY <2>1, NormalizeUpTo, NothingIsFree, Zenon
<1> QED BY <1>1, <1>2 DEF PaidFor, InCoin

\* What is left in os of the order i of ws, and what of it was traded.
LeftIn(os, i)       == IF i \in DOMAIN os THEN os[i].qty ELSE 0
TradedIn(ws, os, i) == ws[i].qty - LeftIn(os, i)

\* The ledger b is the ledger a and what has been paid for what was traded.
Payments(ws, os, u, d) ==
  [i \in DOMAIN ws |-> IF ws[i].owner = u
                       THEN PaidFor(ws[i], PriceOf(ws, ws[i].market), TradedIn(ws, os, i), d)
                       ELSE 0]
PaidOut(b, a, ws, os) ==
  \A u \in Users, d \in Denoms :
    b[<<u, d>>] = a[<<u, d>>] + SumFunctionOnSet(Payments(ws, os, u, d), DOMAIN ws)

\* The fills of a market, and what they fill of an order.
FillsIn(ws, m) == Given(Match(BookOf(ws, m, "bid"), BookOf(ws, m, "ask")).fills)
FillQty(ws, i) ==
  IF ws[i].market \in Matching(ws) /\ \E f \in FillsIn(ws, ws[i].market) : f.id = i
  THEN (CHOOSE f \in FillsIn(ws, ws[i].market) : f.id = i).filled
  ELSE 0

AsFilled(ws, os, done) == \A i \in done : TradedIn(ws, os, i) = FillQty(ws, i)
-----------------------------------------------------------------------------
(***************************************************************************)
(* Executing the fills.                                                    *)
(***************************************************************************)

\* The batch after fills of the orders `done`, from the orders ws and the
\* ledger a: what is left of the orders, and the escrow untouched.
StillOpen(os, ws, done) ==
    /\ DOMAIN os \subseteq DOMAIN ws
    /\ \A i \in DOMAIN os : os[i] \in OrderIn(markets) /\ LeftOf(ws[i], os[i]) /\ os[i].age = ws[i].age
    /\ \A i \in DOMAIN ws \ done : i \in DOMAIN os /\ os[i] = ws[i]

SameEscrow(b, a) == \A d \in Denoms : b[<<OrderModule, d>>] = a[<<OrderModule, d>>]

Filled(t, ws, a, done) ==
  \E os, b, h, e :
    /\ t = State(os, b, h, e)
    /\ e \in Seq(Events)
    /\ \/ h \in {"price", "ratio"}
       \/ /\ h = "no" /\ Tell(orders, e, os)
          /\ StillOpen(os, ws, done) /\ b \in Ledgers /\ SameEscrow(b, a)
          /\ AsFilled(ws, os, done) /\ PaidOut(b, a, ws, os)

\* A fill leaves less of its order, or deletes it, and touches no other.
LEMMA AfterFillIs ==
  ASSUME NEW ws, NEW done, NEW os, StillOpen(os, ws, done),
         NEW f \in Fillings, f.id \in DOMAIN ws \ done, ws[f.id] \in OrderIn(markets),
         f.filled + f.unfilled = ws[f.id].qty
  PROVE  StillOpen(AfterFill(os, f), ws, done \cup {f.id})
<1>1. /\ DOMAIN os \subseteq DOMAIN ws
      /\ \A i \in DOMAIN os : os[i] \in OrderIn(markets) /\ LeftOf(ws[i], os[i]) /\ os[i].age = ws[i].age
      /\ \A i \in DOMAIN ws \ done : i \in DOMAIN os /\ os[i] = ws[i]
  BY DEF StillOpen
<1>2. f.filled \in Nat /\ f.unfilled \in Nat
  BY DEF Fillings
<1>3. CASE f.unfilled = 0
  <2>1. AfterFill(os, f) = Without(os, f.id)
    BY <1>3 DEF AfterFill
  <2>2. DOMAIN Without(os, f.id) = DOMAIN os \ {f.id} /\ \A i \in DOMAIN os \ {f.id} : Without(os, f.id)[i] = os[i]
    BY DEF Without
  <2> QED BY <1>1, <2>1, <2>2 DEF StillOpen
<1>4. CASE f.unfilled # 0
  <2> DEFINE u == [os EXCEPT ![f.id].qty = f.unfilled]
             o == os[f.id]
             x == [o EXCEPT !.qty = f.unfilled]
  <2>1. AfterFill(os, f) = u
    BY <1>4 DEF AfterFill
  <2>2. f.id \in DOMAIN os /\ o = ws[f.id]
    BY <1>1
  <2>3. DOMAIN u = DOMAIN os /\ u[f.id] = x /\ \A i \in DOMAIN os \ {f.id} : u[i] = os[i]
    BY <2>2
  <2>4. o \in OrderIn(markets)
    BY <2>2
  <2> HIDE DEF o, u
  <2>5. x \in OrderIn(markets)
    BY <1>2, <1>4, <2>4 DEF OrderIn
  <2>6. o.qty \in Nat /\ f.unfilled <= o.qty
    <3>1. o.qty \in Nat
      BY <2>4 DEF OrderIn
    <3> QED BY <1>2, <2>2, <3>1
  <2>7. LeftOf(o, x) /\ x.age = o.age
    <3>1. /\ x.owner = o.owner /\ x.market = o.market /\ x.direction = o.direction
          /\ x.price = o.price /\ x.tif = o.tif /\ x.age = o.age /\ x.qty = f.unfilled
      BY <2>4 DEF OrderIn
    <3> QED BY <2>6, <3>1 DEF LeftOf
  <2> HIDE DEF x
  <2> QED BY <1>1, <2>1, <2>2, <2>3, <2>5, <2>7 DEF StillOpen
<1> QED BY <1>3, <1>4

\* No more than all of an order is traded.
LEMMA TradedIsNat ==
  ASSUME NEW ws, \A i \in DOMAIN ws : ws[i] \in OrderIn(markets),
         NEW os, NEW done, StillOpen(os, ws, done)
  PROVE  \A i \in DOMAIN ws : TradedIn(ws, os, i) \in Nat /\ TradedIn(ws, os, i) <= ws[i].qty
<1> SUFFICES ASSUME NEW i \in DOMAIN ws
             PROVE  TradedIn(ws, os, i) \in Nat /\ TradedIn(ws, os, i) <= ws[i].qty
  OBVIOUS
<1> DEFINE q == ws[i].qty
<1>1. q \in Nat
  BY DEF OrderIn
<1>2. CASE i \in DOMAIN os
  <2> DEFINE r == os[i].qty
  <2>1. os[i] \in OrderIn(markets) /\ LeftOf(ws[i], os[i])
    BY <1>2 DEF StillOpen
  <2>2. r \in Nat /\ r <= q
    BY <2>1 DEF OrderIn, LeftOf
  <2>3. TradedIn(ws, os, i) = q - r
    BY <1>2 DEF TradedIn, LeftIn
  <2> HIDE DEF q, r
  <2>4. TradedIn(ws, os, i) \in Nat /\ TradedIn(ws, os, i) <= q
    BY <1>1, <2>2, <2>3
  <2> QED BY <2>4 DEF q
<1>3. CASE i \notin DOMAIN os
  <2>1. TradedIn(ws, os, i) = q
    BY <1>1, <1>3 DEF TradedIn, LeftIn
  <2> QED BY <1>1, <2>1
<1> QED BY <1>2, <1>3

\* A fill trades what it fills of its order, of which nothing was traded yet.
LEMMA FillTrades ==
  ASSUME NEW ws, NEW done, NEW os, StillOpen(os, ws, done),
         NEW f \in Fillings, f.id \in DOMAIN ws \ done, ws[f.id] \in OrderIn(markets),
         f.filled + f.unfilled = ws[f.id].qty
  PROVE  /\ TradedIn(ws, os, f.id) = 0
         /\ TradedIn(ws, AfterFill(os, f), f.id) = f.filled
         /\ \A i \in DOMAIN ws \ {f.id} : TradedIn(ws, AfterFill(os, f), i) = TradedIn(ws, os, i)
<1> DEFINE u == AfterFill(os, f)
           q == ws[f.id].qty
<1>1. f.id \in DOMAIN os /\ os[f.id] = ws[f.id]
  BY DEF StillOpen
<1>2. f.filled \in Nat /\ f.unfilled \in Nat /\ q \in Nat /\ f.filled + f.unfilled = q
  BY DEF Fillings, OrderIn
<1>3. /\ LeftIn(u, f.id) = f.unfilled
      /\ \A i \in DOMAIN ws \ {f.id} : LeftIn(u, i) = LeftIn(os, i)
  <2>1. CASE f.unfilled = 0
    <3>1. DOMAIN u = DOMAIN os \ {f.id} /\ \A i \in DOMAIN os \ {f.id} : u[i] = os[i]
      BY <2>1 DEF AfterFill, Without
    <3> HIDE DEF u
    <3> QED BY <2>1, <3>1 DEF LeftIn
  <2>2. CASE f.unfilled # 0
    <3> DEFINE o == os[f.id]
               x == [o EXCEPT !.qty = f.unfilled]
    <3>0. u = [os EXCEPT ![f.id].qty = f.unfilled]
      BY <2>2 DEF AfterFill
    <3>1. /\ DOMAIN u = DOMAIN os /\ u[f.id] = x
          /\ \A i \in DOMAIN os \ {f.id} : u[i] = os[i]
      BY <1>1, <3>0
    <3>2. o \in OrderIn(markets)
      BY <1>1
    <3> HIDE DEF o, u
    <3>3. x.qty = f.unfilled
      BY <3>2 DEF OrderIn
    <3> HIDE DEF x
    <3> QED BY <1>1, <3>1, <3>3 DEF LeftIn
  <2> QED BY <2>1, <2>2
<1>4. LeftIn(os, f.id) = q
  BY <1>1 DEF LeftIn
<1>5. /\ TradedIn(ws, os, f.id) = q - q
      /\ TradedIn(ws, u, f.id) = q - f.unfilled
      /\ \A i \in DOMAIN ws \ {f.id} : TradedIn(ws, u, i) = TradedIn(ws, os, i)
  BY <1>3, <1>4 DEF TradedIn
<1> HIDE DEF u, q
<1>6. q - q = 0 /\ q - f.unfilled = f.filled
  BY <1>2
<1> QED BY <1>5, <1>6 DEF u

\* The fills that were done stay, and one is added.
LEMMA FillIsAsFilled ==
  ASSUME NEW ws, NEW done \in SUBSET DOMAIN ws, NEW os, StillOpen(os, ws, done), AsFilled(ws, os, done),
         NEW f \in Fillings, f.id \in DOMAIN ws \ done, ws[f.id] \in OrderIn(markets),
         f.filled + f.unfilled = ws[f.id].qty, f.filled = FillQty(ws, f.id)
  PROVE  AsFilled(ws, AfterFill(os, f), done \cup {f.id})
<1>1. /\ TradedIn(ws, AfterFill(os, f), f.id) = f.filled
      /\ \A i \in DOMAIN ws \ {f.id} : TradedIn(ws, AfterFill(os, f), i) = TradedIn(ws, os, i)
  BY FillTrades
<1> QED BY <1>1 DEF AsFilled

\* What a fill pays is added to what was paid.
LEMMA FillPays ==
  ASSUME NEW n \in Nat, NEW ws, IsStore(markets, n, ws),
         NEW done, NEW os, StillOpen(os, ws, done),
         NEW f \in Fillings, f.id \in DOMAIN ws \ done, f.filled + f.unfilled = ws[f.id].qty,
         NEW a \in Ledgers, NEW b \in Ledgers, PaidOut(b, a, ws, os), NEW c,
         \A u \in Users, d \in Denoms :
           c[<<u, d>>] = b[<<u, d>>] + (IF ws[f.id].owner = u
                                        THEN PaidFor(ws[f.id], PriceOf(ws, ws[f.id].market), f.filled, d)
                                        ELSE 0)
  PROVE  PaidOut(c, a, ws, AfterFill(os, f))
<1> SUFFICES ASSUME NEW u \in Users, NEW d \in Denoms
             PROVE  c[<<u, d>>] = a[<<u, d>>]
                      + SumFunctionOnSet(Payments(ws, AfterFill(os, f), u, d), DOMAIN ws)
  BY DEF PaidOut
<1> DEFINE v == AfterFill(os, f)
           done2 == done \cup {f.id}
           x == f.id
           g == Payments(ws, os, u, d)
           h == Payments(ws, v, u, d)
           S == DOMAIN ws
           price == PriceOf(ws, ws[x].market)
           paid == IF ws[x].owner = u THEN PaidFor(ws[x], price, f.filled, d) ELSE 0
<1>1. \A i \in S : ws[i] \in OrderIn(markets)
  BY DEF IsStore
<1>2. IsFiniteSet(S)
  <2>1. S \in SUBSET (0 .. n)
    BY DEF IsStore
  <2> HIDE DEF S
  <2> QED BY <2>1, FiniteUpTo
<1>3. \A m : PriceOf(ws, m) \in Nat
  BY PriceIsNat, Zenon
<1>4. x \in S /\ ws[x] \in OrderIn(markets)
  BY <1>1
<1>5. StillOpen(v, ws, done2)
  BY <1>4, AfterFillIs
<1>6. \A i \in S : TradedIn(ws, os, i) \in Nat /\ TradedIn(ws, v, i) \in Nat
  <2> HIDE DEF v, done2
  <2> QED BY <1>1, <1>5, TradedIsNat
<1>7. /\ TradedIn(ws, os, x) = 0 /\ TradedIn(ws, v, x) = f.filled
      /\ \A i \in S \ {x} : TradedIn(ws, v, i) = TradedIn(ws, os, i)
  BY <1>4, FillTrades
<1>8. f.filled \in Nat
  BY DEF Fillings
<1> HIDE DEF v, done2
<1>9. \A i \in S : g[i] \in Int /\ h[i] \in Int
  <2> SUFFICES ASSUME NEW i \in S PROVE g[i] \in Int /\ h[i] \in Int
    OBVIOUS
  <2>1. /\ PaidFor(ws[i], PriceOf(ws, ws[i].market), TradedIn(ws, os, i), d) \in Nat
        /\ PaidFor(ws[i], PriceOf(ws, ws[i].market), TradedIn(ws, v, i), d) \in Nat
    BY <1>1, <1>3, <1>6, PaidForIs, Zenon
  <2> QED BY <2>1 DEF Payments
<1>10. \A i \in S \ {x} : h[i] = g[i]
  BY <1>7 DEF Payments
<1>11. g[x] = 0 /\ h[x] = paid
  <2>1. PaidFor(ws[x], price, 0, d) = 0
    <3>1. price \in Nat
      BY <1>3, Zenon
    <3> HIDE DEF price
    <3> QED BY <1>4, <1>8, <3>1, PaidForIs
  <2> QED BY <1>4, <1>7, <2>1 DEF Payments
<1>12. c[<<u, d>>] = b[<<u, d>>] + paid
  BY Zenon
<1>13. b[<<u, d>>] = a[<<u, d>>] + SumFunctionOnSet(g, S)
  BY Zenon DEF PaidOut
<1>14. paid \in Int
  BY <1>4, <1>9, <1>11
<1>15. a[<<u, d>>] \in Nat
  <2>1. <<u, d>> \in Accounts \X Denoms
    BY ModuleIsNoUser
  <2> QED BY <2>1 DEF Ledgers
<1> HIDE DEF g, h, S, paid, x
<1>16. /\ SumFunctionOnSet(g, S) \in Int
       /\ SumFunctionOnSet(h, S) = SumFunctionOnSet(g, S) + (h[x] - g[x])
  BY <1>2, <1>4, <1>9, <1>10, SumChange
<1>17. c[<<u, d>>] = a[<<u, d>>] + SumFunctionOnSet(h, S)
  BY <1>11, <1>12, <1>13, <1>14, <1>15, <1>16
<1> QED BY <1>17 DEF h, S, v

\* The event of a fill tells what it did.
LEMMA FillTold ==
  ASSUME NEW os, NEW f \in Fillings, f.id \in DOMAIN os, os[f.id] \in OrderIn(markets),
         f.filled + f.unfilled = os[f.id].qty
  PROVE  LET x == [type |-> "fill", id |-> f.id, filled |-> f.filled]
         IN  x \in Events /\ Told(os, x, AfterFill(os, f))
<1> DEFINE x == [type |-> "fill", id |-> f.id, filled |-> f.filled]
           q == os[f.id].qty
<1>1. f.id \in Nat /\ f.filled \in Nat /\ f.unfilled \in Nat
  BY DEF Fillings
<1>2. q \in Nat /\ f.filled + f.unfilled = q
  BY DEF OrderIn
<1>3. x \in Events
  BY <1>1 DEF Events
<1>4. x.type = "fill" /\ x.id = f.id /\ x.filled = f.filled
  OBVIOUS
<1> HIDE DEF x, q
<1>5. f.filled <= q /\ q - f.filled = f.unfilled /\ (f.filled = q <=> f.unfilled = 0)
  BY <1>1, <1>2
<1>6. AfterFill(os, f) = IF f.filled = q THEN Without(os, f.id)
                         ELSE [os EXCEPT ![f.id].qty = q - f.filled]
  BY <1>5, Zenon DEF AfterFill
<1>7. Told(os, x, AfterFill(os, f))
  BY <1>4, <1>5, <1>6 DEF Told, q
<1> QED BY <1>3, <1>7 DEF x

\* The ledger after a fill f of the order o: its owner is paid, nobody else.
Minting(b, o, price, f) ==
  IF o.direction = "bid"
  THEN Mint(Mint(b, o.owner, Coin(markets[o.market].base, f.filled)),
            o.owner, Coin(markets[o.market].quote, Refund(o, price, f)))
  ELSE Mint(b, o.owner, Coin(markets[o.market].quote, NormalizeQuote(price, f.filled)))

PaysOwner(c, b, o, price, n) ==
  \A x \in Accounts, d \in Denoms :
    c[<<x, d>>] = b[<<x, d>>] + (IF o.owner = x THEN PaidFor(o, price, n, d) ELSE 0)

LEMMA FillMints ==
  ASSUME markets \in MarketSeqs, NEW o \in OrderIn(markets), NEW price \in Nat,
         NEW f \in Fillings, NEW b \in Ledgers
  PROVE  /\ Minting(b, o, price, f) \in Ledgers
         /\ PaysOwner(Minting(b, o, price, f), b, o, price, f.filled)
<1> DEFINE m == markets[o.market]
           base == m.base
           quote == m.quote
           n == f.filled
           who == o.owner
           proceeds == NormalizeQuote(price, n)
           back == Refund(o, price, f)
           c == Coin(base, n)
           k == Coin(quote, back)
           l == Coin(quote, proceeds)
           bought == Mint(b, who, c)
           repaid == Mint(bought, who, k)
           sold == Mint(b, who, l)
<1>1. n \in Nat /\ who \in Accounts /\ o.market \in DOMAIN markets
  BY ModuleIsNoUser DEF OrderIn, Fillings
<1>2. base \in Denoms /\ quote \in Denoms
  BY <1>1, MarketIs
<1>3. proceeds \in Nat
  <2>1. n <= n
    BY <1>1
  <2> QED BY <1>1, <2>1, NormalizeUpTo, Zenon
<1>4. back \in Nat /\ back = RefundOf(o, price, n)
  <2>1. back = RefundOf(o, price, n)
    BY DEF Refund, RefundOf
  <2> HIDE DEF back, n
  <2> QED BY <1>1, <2>1, RefundIs
<1>5. Minting(b, o, price, f) = IF o.direction = "bid" THEN repaid ELSE sold
  BY DEF Minting
<1>6. \A d : PaidFor(o, price, n, d) = IF o.direction = "bid"
                                       THEN InCoin(d, base, n) + InCoin(d, quote, back)
                                       ELSE InCoin(d, quote, proceeds)
  BY <1>4, Zenon DEF PaidFor
<1>7. /\ c.denom = base /\ c.amount = n /\ k.denom = quote /\ k.amount = back
      /\ l.denom = quote /\ l.amount = proceeds
  BY DEF Coin
<1> HIDE DEF m, base, quote, n, who, proceeds, back, c, k, l
<1>8. /\ bought \in Ledgers
      /\ \A x \in Accounts, d \in Denoms :
           bought[<<x, d>>] = IF x = who /\ d = base THEN b[<<x, d>>] + n ELSE b[<<x, d>>]
  BY <1>1, <1>2, <1>7, Minted
<1>9. /\ sold \in Ledgers
      /\ \A x \in Accounts, d \in Denoms :
           sold[<<x, d>>] = IF x = who /\ d = quote THEN b[<<x, d>>] + proceeds ELSE b[<<x, d>>]
  BY <1>1, <1>2, <1>3, <1>7, Minted
<1> HIDE DEF bought, sold
<1>10. /\ repaid \in Ledgers
       /\ \A x \in Accounts, d \in Denoms :
            repaid[<<x, d>>] = IF x = who /\ d = quote THEN bought[<<x, d>>] + back ELSE bought[<<x, d>>]
  BY <1>1, <1>2, <1>4, <1>7, <1>8, Minted
<1> HIDE DEF repaid
<1>11. ASSUME NEW x \in Accounts, NEW d \in Denoms
       PROVE  /\ repaid[<<x, d>>] =
                   b[<<x, d>>] + (IF who = x THEN InCoin(d, base, n) + InCoin(d, quote, back) ELSE 0)
              /\ sold[<<x, d>>] = b[<<x, d>>] + (IF who = x THEN InCoin(d, quote, proceeds) ELSE 0)
  <2>1. b[<<x, d>>] \in Nat
    BY DEF Ledgers
  <2>2. repaid[<<x, d>>] = IF x = who /\ d = quote THEN bought[<<x, d>>] + back ELSE bought[<<x, d>>]
    BY <1>10
  <2>3. bought[<<x, d>>] = IF x = who /\ d = base THEN b[<<x, d>>] + n ELSE b[<<x, d>>]
    BY <1>8
  <2>4. sold[<<x, d>>] = IF x = who /\ d = quote THEN b[<<x, d>>] + proceeds ELSE b[<<x, d>>]
    BY <1>9
  <2>5. CASE who = x
    BY <1>1, <1>3, <1>4, <2>1, <2>2, <2>3, <2>4, <2>5 DEF InCoin
  <2>6. CASE who # x
    BY <2>1, <2>2, <2>3, <2>4, <2>6
  <2> QED BY <2>5, <2>6
<1> DEFINE paid == Minting(b, o, price, f)
<1> HIDE DEF paid
<1>12. CASE o.direction = "bid"
  <2>1. paid = repaid /\ \A d : PaidFor(o, price, n, d) = InCoin(d, base, n) + InCoin(d, quote, back)
    BY <1>5, <1>6, <1>12 DEF paid
  <2>2. PaysOwner(paid, b, o, price, n)
    <3>1. ASSUME NEW x \in Accounts, NEW d \in Denoms
          PROVE  paid[<<x, d>>] = b[<<x, d>>] + (IF who = x THEN PaidFor(o, price, n, d) ELSE 0)
      BY <1>11, <2>1
    <3> QED BY <3>1, Zenon DEF PaysOwner, who
  <2> QED BY <1>10, <2>1, <2>2 DEF paid, n
<1>13. CASE o.direction # "bid"
  <2>1. paid = sold /\ \A d : PaidFor(o, price, n, d) = InCoin(d, quote, proceeds)
    BY <1>5, <1>6, <1>13 DEF paid
  <2>2. PaysOwner(paid, b, o, price, n)
    <3>1. ASSUME NEW x \in Accounts, NEW d \in Denoms
          PROVE  paid[<<x, d>>] = b[<<x, d>>] + (IF who = x THEN PaidFor(o, price, n, d) ELSE 0)
      BY <1>11, <2>1
    <3> QED BY <3>1, Zenon DEF PaysOwner, who
  <2> QED BY <1>9, <2>1, <2>2 DEF paid, n
<1> QED BY <1>12, <1>13

\* A fill of an order that is not done finds it in the store.
LEMMA ExecuteFillIs ==
  ASSUME markets \in MarketSeqs, NEW n \in Nat, NEW ws, IsStore(markets, n, ws),
         NEW a \in Ledgers, NEW done \in SUBSET DOMAIN ws, NEW t, Filled(t, ws, a, done),
         NEW price \in Nat,
         NEW f \in Fillings, f.id \in DOMAIN ws \ done,
         f.filled + f.unfilled = ws[f.id].qty,
         f.filled = FillQty(ws, f.id), price = PriceOf(ws, ws[f.id].market)
  PROVE  Filled(ExecuteFill(t, price, f), ws, a, done \cup {f.id})
<1>0. ws[f.id] \in OrderIn(markets)
  BY DEF IsStore
<1>1. PICK os, b, h, e :
        /\ t = State(os, b, h, e)
        /\ e \in Seq(Events)
        /\ \/ h \in {"price", "ratio"}
           \/ /\ h = "no" /\ Tell(orders, e, os)
              /\ StillOpen(os, ws, done) /\ b \in Ledgers /\ SameEscrow(b, a)
              /\ AsFilled(ws, os, done) /\ PaidOut(b, a, ws, os)
  BY DEF Filled
<1>2. CASE h \in {"price", "ratio"}
  <2>1. ExecuteFill(t, price, f) = State(os, b, h, e)
    BY <1>1, <1>2 DEF ExecuteFill, State
  <2> QED BY <1>1, <1>2, <2>1 DEF Filled
<1>3. CASE h \notin {"price", "ratio"}
  <2> DEFINE o == os[f.id]
             proceeds == NormalizeQuote(price, f.filled)
             paid == Minting(b, o, price, f)
             u == AfterFill(os, f)
             x == [type |-> "fill", id |-> f.id, filled |-> f.filled]
             g == Append(e, x)
  <2>1. /\ h = "no" /\ StillOpen(os, ws, done) /\ b \in Ledgers /\ SameEscrow(b, a)
        /\ Tell(orders, e, os) /\ AsFilled(ws, os, done) /\ PaidOut(b, a, ws, os)
    BY <1>1, <1>3
  <2>2. f.id \in DOMAIN os /\ o = ws[f.id]
    BY <2>1 DEF StillOpen
  <2>3. o \in OrderIn(markets)
    BY <1>0, <2>2
  <2>4. CASE o.direction = "ask" /\ proceeds = 0
    <3>1. ExecuteFill(t, price, f) = State(os, b, "price", e)
      BY <1>1, <2>1, <2>2, <2>4 DEF ExecuteFill, State
    <3> QED BY <1>1, <3>1 DEF Filled
  <2>5. CASE ~ (o.direction = "ask" /\ proceeds = 0)
    <3>1. ExecuteFill(t, price, f) = State(u, paid, "no", g)
      BY <1>1, <2>1, <2>2, <2>5, Zenon DEF ExecuteFill, State, Minting
    <3> HIDE DEF o
    <3>2. paid \in Ledgers /\ PaysOwner(paid, b, o, price, f.filled)
      BY <2>1, <2>3, FillMints, Zenon
    <3> HIDE DEF paid, u
    <3>3. SameEscrow(paid, a)
      <4> SUFFICES ASSUME NEW d \in Denoms PROVE paid[<<OrderModule, d>>] = b[<<OrderModule, d>>]
        BY <2>1 DEF SameEscrow
      <4>1. o.owner # OrderModule /\ OrderModule \in Accounts
        BY <2>3, ModuleIsNoUser DEF OrderIn
      <4>2. <<OrderModule, d>> \in Accounts \X Denoms
        BY <4>1
      <4>3. b[<<OrderModule, d>>] \in Nat
        BY <2>1, <4>2 DEF Ledgers
      <4>4. paid[<<OrderModule, d>>] = b[<<OrderModule, d>>] + 0
        BY <3>2, <4>1, Zenon DEF PaysOwner
      <4> QED BY <4>3, <4>4
    <3>4. StillOpen(u, ws, done \cup {f.id})
      BY <1>0, <2>1, AfterFillIs DEF u
    <3>5. AsFilled(ws, u, done \cup {f.id})
      BY <1>0, <2>1, FillIsAsFilled DEF u
    <3>6. PaidOut(paid, a, ws, u)
      <4>1. \A y \in Users, d \in Denoms :
              paid[<<y, d>>] = b[<<y, d>>] + (IF ws[f.id].owner = y
                                              THEN PaidFor(ws[f.id], PriceOf(ws, ws[f.id].market), f.filled, d)
                                              ELSE 0)
        BY <2>2, <3>2, ModuleIsNoUser DEF o, PaysOwner
      <4> QED BY <2>1, <4>1, FillPays DEF u
    <3>7. x \in Events /\ Told(os, x, u)
      BY <2>2, <2>3, FillTold DEF o, u
    <3> HIDE DEF x
    <3>8. g \in Seq(Events) /\ Tell(orders, g, u)
      BY <1>1, <2>1, <3>7, OneMoreTold
    <3> HIDE DEF g
    <3> QED BY <3>1, <3>2, <3>3, <3>4, <3>5, <3>6, <3>8 DEF Filled
  <2> QED BY <2>4, <2>5
<1> QED BY <1>2, <1>3

ExecuteStep(price, t, f) == ExecuteFill(t, price, f)
Executing == INSTANCE Folding WITH op <- ExecuteStep

\* Orders that are not filled may count as done.
LEMMA FilledMore ==
  ASSUME NEW n \in Nat, NEW ws, IsStore(markets, n, ws),
         NEW t, NEW a, NEW done, Filled(t, ws, a, done),
         NEW more \in SUBSET DOMAIN ws, done \subseteq more,
         \A i \in more \ done : FillQty(ws, i) = 0
  PROVE  Filled(t, ws, a, more)
<1>1. ASSUME NEW os, StillOpen(os, ws, done), AsFilled(ws, os, done)
      PROVE  StillOpen(os, ws, more) /\ AsFilled(ws, os, more)
  <2>1. StillOpen(os, ws, more)
    BY <1>1 DEF StillOpen
  <2>2. ASSUME NEW i \in more \ done PROVE TradedIn(ws, os, i) = 0
    <3>1. i \in DOMAIN os /\ os[i] = ws[i] /\ ws[i] \in OrderIn(markets)
      BY <1>1 DEF StillOpen, IsStore
    <3>2. ws[i].qty - ws[i].qty = 0
      BY <3>1 DEF OrderIn
    <3> QED BY <3>1, <3>2 DEF TradedIn, LeftIn
  <2> QED BY <1>1, <2>1, <2>2 DEF AsFilled
<1> QED BY <1>1 DEF Filled

\* What fills of the orders S mean for FillQty.
MeansQty(ws, fills, S) ==
    /\ \A k \in 1 .. Len(fills) : FillQty(ws, fills[k].id) = fills[k].filled
    /\ \A i \in S : (\A k \in 1 .. Len(fills) : fills[k].id # i) => FillQty(ws, i) = 0

LEMMA FillQtyIs ==
  ASSUME NEW ws, NEW m \in Matching(ws), NEW fills,
         FillsOf(fills, {OfferOf(ws, i) : i \in OfMarkets(ws, {m})}),
         fills = Match(BookOf(ws, m, "bid"), BookOf(ws, m, "ask")).fills
  PROVE  MeansQty(ws, fills, OfMarkets(ws, {m}))
<1> DEFINE F == FillsIn(ws, m)
           N == Len(fills)
           S == OfMarkets(ws, {m})
<1>1. F = {fills[k] : k \in 1 .. N}
  BY DEF FillsIn, Given
<1>2. \A i \in S : ws[i].market = m
  BY DEF OfMarkets
<1>3. \A k, l \in 1 .. N : k # l => fills[k].id # fills[l].id
  BY DEF FillsOf
<1>4. ASSUME NEW k \in 1 .. N PROVE fills[k].id \in S
  <2>1. PICK o \in {OfferOf(ws, i) : i \in S} : fills[k].id = o.id
    BY Zenon DEF FillsOf
  <2>2. PICK i \in S : o = OfferOf(ws, i)
    BY Zenon
  <2> QED BY <2>1, <2>2 DEF OfferOf
<1>5. \A i \in S : FillQty(ws, i) = IF \E f \in F : f.id = i THEN (CHOOSE f \in F : f.id = i).filled ELSE 0
  BY <1>2, Zenon DEF FillQty
<1> HIDE DEF F, S, N
<1>6. ASSUME NEW k \in 1 .. N
      PROVE  FillQty(ws, fills[k].id) = fills[k].filled
  <2>1. fills[k] \in F /\ \A f \in F : f.id = fills[k].id => f = fills[k]
    BY <1>1, <1>3
  <2>2. (CHOOSE f \in F : f.id = fills[k].id) = fills[k]
    BY <2>1
  <2> QED BY <1>4, <1>5, <2>1, <2>2
<1>7. ASSUME NEW i \in S, \A k \in 1 .. N : fills[k].id # i
      PROVE  FillQty(ws, i) = 0
  BY <1>1, <1>5, <1>7
<1> QED BY <1>6, <1>7 DEF MeansQty, N, S

\* The fills of a match are of different orders of its market.
LEMMA FillsAreDone ==
  ASSUME markets \in MarketSeqs, NEW b \in Nat, NEW ws, IsStore(markets, b, ws),
         NEW a \in Ledgers, NEW done \in SUBSET DOMAIN ws, NEW t, Filled(t, ws, a, done),
         NEW S \in SUBSET (DOMAIN ws \ done),
         NEW price \in Nat, \A i \in S : PriceOf(ws, ws[i].market) = price,
         NEW fills, FillsOf(fills, {OfferOf(ws, i) : i \in S}), MeansQty(ws, fills, S)
  PROVE  Filled(Executing!Fold(price, t, fills), ws, a, done \cup S)
<1> DEFINE n == Len(fills)
           First(i) == {fills[j].id : j \in 1 .. i}
<1>1. fills \in Seq(Fillings) /\ n \in Nat /\ DOMAIN fills = 1 .. n
  BY DEF FillsOf
<1>2. /\ \A k \in 1 .. n : \E o \in {OfferOf(ws, i) : i \in S} :
                             fills[k].id = o.id /\ fills[k].filled + fills[k].unfilled = o.qty
      /\ \A k, l \in 1 .. n : k # l => fills[k].id # fills[l].id
  BY DEF FillsOf
<1>3. \A k \in 1 .. n : fills[k] \in Fillings
  BY <1>1
<1>4. ASSUME NEW k \in 1 .. n
      PROVE  /\ fills[k].id \in S
             /\ fills[k].filled + fills[k].unfilled = ws[fills[k].id].qty
  <2>1. PICK i \in S : fills[k].id = OfferOf(ws, i).id /\ fills[k].filled + fills[k].unfilled = OfferOf(ws, i).qty
    BY <1>2
  <2> QED BY <2>1 DEF OfferOf
<1> HIDE DEF n
<1>5. PICK r : Executing!Runs(r, price, t, fills, n)
  BY <1>1, Executing!FoldRuns, Zenon
<1>6. /\ r[0] = t
      /\ \A i \in 1 .. n : r[i] = ExecuteFill(r[i - 1], price, fills[i])
      /\ r[n] = Executing!Fold(price, t, fills)
  BY <1>5 DEF Executing!Runs, ExecuteStep
<1> DEFINE T == {i \in 0 .. n : Filled(r[i], ws, a, done \cup First(i))}
<1>7. 0 \in T
  <2>1. done \cup First(0) = done /\ 0 \in 0 .. n
    BY <1>1
  <2> QED BY <1>6, <2>1, Zenon
<1>8. ASSUME NEW i \in 0 .. n - 1, i \in T PROVE i + 1 \in T
  <2>1. i + 1 \in 1 .. n /\ (i + 1) - 1 = i /\ i + 1 \in 0 .. n
    BY <1>1
  <2> DEFINE f == fills[i + 1]
  <2>2. r[i + 1] = ExecuteFill(r[i], price, f)
    <3>1. r[i + 1] = ExecuteFill(r[(i + 1) - 1], price, fills[i + 1])
      BY <1>6, <2>1
    <3> QED BY <2>1, <3>1
  <2>3. First(i + 1) = First(i) \cup {f.id}
    OBVIOUS
  <2>4. f.id \notin First(i)
    BY <1>1, <1>2, <2>1
  <2>5. f \in Fillings /\ f.id \in S /\ f.filled + f.unfilled = ws[f.id].qty
    BY <1>3, <1>4, <2>1
  <2>6. Filled(r[i], ws, a, done \cup First(i))
    BY <1>8
  <2>11. First(i) \subseteq DOMAIN ws
    <3>1. \A k \in 1 .. i : k \in 1 .. n
      BY <1>1
    <3> QED BY <1>4, <3>1
  <2> HIDE DEF First, f
  <2>7. f.id \in DOMAIN ws \ (done \cup First(i))
    BY <2>4, <2>5
  <2> DEFINE more == done \cup First(i)
  <2>8. more \cup {f.id} = done \cup First(i + 1)
    BY <2>3
  <2> HIDE DEF more
  <2>9. Filled(r[i], ws, a, more) /\ f.id \in DOMAIN ws \ more /\ more \in SUBSET DOMAIN ws
    BY <2>6, <2>7, <2>11 DEF more
  <2>12. f.filled = FillQty(ws, f.id) /\ price = PriceOf(ws, ws[f.id].market)
    <3>1. \A k \in 1 .. n : FillQty(ws, fills[k].id) = fills[k].filled
      BY DEF MeansQty, n
    <3> QED BY <2>1, <2>5, <3>1 DEF f
  <2>10. Filled(ExecuteFill(r[i], price, f), ws, a, more \cup {f.id})
    BY <2>5, <2>9, <2>12, ExecuteFillIs
  <2> QED BY <2>1, <2>2, <2>8, <2>10
<1>9. n \in T
  <2> HIDE DEF T
  <2>1. 0 .. n \subseteq T
    BY <1>1, <1>7, <1>8, UpToEnd
  <2> QED BY <1>1, <2>1
<1>10. done \cup First(n) \subseteq done \cup S /\ done \cup S \in SUBSET DOMAIN ws
  BY <1>4
<1>11. \A i \in (done \cup S) \ (done \cup First(n)) : FillQty(ws, i) = 0
  BY DEF MeansQty, n
<1> HIDE DEF First
<1>12. Filled(r[n], ws, a, done \cup First(n))
  BY <1>9
<1>13. Filled(r[n], ws, a, done \cup S)
  BY <1>10, <1>11, <1>12, FilledMore
<1> QED BY <1>6, <1>13

\* One more market is executed.
LEMMA FillMarketIs ==
  ASSUME markets \in MarketSeqs, NEW n \in Nat, NEW ws, IsStore(markets, n, ws),
         NEW a \in Ledgers, NEW M, NEW t, Filled(t, ws, a, OfMarkets(ws, M)),
         NEW m \in Matching(ws), m \notin M
  PROVE  Filled(FillMarket(t, Match(BookOf(ws, m, "bid"), BookOf(ws, m, "ask"))),
                ws, a, OfMarkets(ws, M \cup {m}))
<1> DEFINE r == Match(BookOf(ws, m, "bid"), BookOf(ws, m, "ask"))
           done == OfMarkets(ws, M)
           S == OfMarkets(ws, {m})
<1>1. r.price \in Nat /\ FillsOf(r.fills, {OfferOf(ws, i) : i \in S})
  <2>1. Overlap(BookOf(ws, m, "bid"), BookOf(ws, m, "ask"))
    BY DEF Matching
  <2> QED BY <2>1, MatchOf, Zenon
<1>2. MeansQty(ws, r.fills, S) /\ \A i \in S : PriceOf(ws, ws[i].market) = r.price
  <2>1. MeansQty(ws, r.fills, S)
    BY <1>1, FillQtyIs, Zenon
  <2>2. \A i \in S : ws[i].market = m
    BY DEF OfMarkets
  <2>3. PriceOf(ws, m) = r.price
    BY DEF PriceOf
  <2> QED BY <2>1, <2>2, <2>3, Zenon
<1>3. /\ S \in SUBSET (DOMAIN ws \ done) /\ OfMarkets(ws, M \cup {m}) = done \cup S
      /\ done \in SUBSET DOMAIN ws
  BY DEF OfMarkets
<1> HIDE DEF r, done, S
<1>4. CASE r.ratio = 0
  <2>1. PICK os, b, h, e : t = State(os, b, h, e) /\ e \in Seq(Events)
    BY DEF Filled
  <2>2. FillMarket(t, r) = State(os, b, "ratio", e)
    BY <1>4, <2>1 DEF FillMarket, State
  <2>3. Filled(FillMarket(t, r), ws, a, OfMarkets(ws, M \cup {m}))
    BY <2>1, <2>2 DEF Filled
  <2> QED BY <2>3 DEF r
<1>5. CASE r.ratio # 0
  <2>1. FillMarket(t, r) = Executing!Fold(r.price, t, r.fills)
    BY <1>5 DEF FillMarket, ExecuteStep, FoldLeft, MapThenFoldSet, Max,
                Executing!Fold, Executing!Folds, Executing!Greatest
  <2> DEFINE fills == r.fills
             price == r.price
  <2>2. /\ price \in Nat /\ FillsOf(fills, {OfferOf(ws, i) : i \in S})
        /\ MeansQty(ws, fills, S) /\ \A i \in S : PriceOf(ws, ws[i].market) = price
    BY <1>1, <1>2
  <2>3. Filled(t, ws, a, done)
    BY DEF done
  <2> HIDE DEF fills, price
  <2>4. Filled(Executing!Fold(price, t, fills), ws, a, done \cup S)
    BY <1>3, <2>2, <2>3, FillsAreDone
  <2> QED BY <1>3, <2>1, <2>4 DEF fills, price, r
<1> QED BY <1>4, <1>5

FillStep(ws, t, m) == FillMarket(t, Match(BookOf(ws, m, "bid"), BookOf(ws, m, "ask")))
Filling == INSTANCE Folding WITH op <- FillStep

\* The events that announce the batches.
LEMMA BatchesAre ==
  ASSUME markets \in MarketSeqs, NEW ws, NEW k \in Nat, NEW ms \in [1 .. k -> Matching(ws)]
  PROVE  [i \in DOMAIN ms |-> [type |-> "batch", id |-> ms[i]]] \in Seq(BatchEvents)
<1> DEFINE b == [i \in DOMAIN ms |-> [type |-> "batch", id |-> ms[i]]]
<1>1. \A i \in 1 .. k : ms[i] \in DOMAIN markets
  BY DEF Matching
<1>2. \A i \in 1 .. k : ms[i] \in Nat
  BY <1>1 DEF MarketSeqs
<1>3. DOMAIN ms = 1 .. k /\ \A i \in 1 .. k : b[i] \in BatchEvents
  BY <1>2 DEF BatchEvents
<1>4. b = [i \in 1 .. k |-> b[i]]
  BY <1>3
<1> HIDE DEF b
<1>5. b \in Seq(BatchEvents)
  BY <1>3, <1>4
<1> QED BY <1>5 DEF b

\* Nothing is paid before anything is traded.
LEMMA NothingPaid ==
  ASSUME NEW n \in Nat, NEW ws, IsStore(markets, n, ws), NEW a \in Ledgers
  PROVE  PaidOut(a, a, ws, ws)
<1> SUFFICES ASSUME NEW u \in Users, NEW d \in Denoms
             PROVE  a[<<u, d>>] = a[<<u, d>>] + SumFunctionOnSet(Payments(ws, ws, u, d), DOMAIN ws)
  BY DEF PaidOut
<1> DEFINE g == Payments(ws, ws, u, d)
           S == DOMAIN ws
<1>1. IsFiniteSet(S)
  <2>1. S \in SUBSET (0 .. n)
    BY DEF IsStore
  <2> HIDE DEF S
  <2> QED BY <2>1, FiniteUpTo
<1>2. ASSUME NEW i \in S PROVE g[i] = 0
  <2>1. ws[i] \in OrderIn(markets)
    BY DEF IsStore
  <2>2. ws[i].qty - ws[i].qty = 0
    BY <2>1 DEF OrderIn
  <2>3. TradedIn(ws, ws, i) = 0
    BY <2>2 DEF TradedIn, LeftIn
  <2>4. PriceOf(ws, ws[i].market) \in Nat
    BY PriceIsNat, Zenon
  <2>5. PaidFor(ws[i], PriceOf(ws, ws[i].market), 0, d) = 0
    BY <2>1, <2>4, PaidForIs
  <2> QED BY <2>3, <2>5 DEF Payments
<1>3. a[<<u, d>>] \in Nat
  <2>1. <<u, d>> \in Accounts \X Denoms
    BY ModuleIsNoUser
  <2> QED BY <2>1 DEF Ledgers
<1> HIDE DEF g, S
<1>4. SumFunctionOnSet(g, S) = 0
  BY <1>1, <1>2, SumZero
<1>5. a[<<u, d>>] = a[<<u, d>>] + SumFunctionOnSet(g, S)
  BY <1>3, <1>4
<1> QED BY <1>5 DEF g, S

\* A listing of a set, without repetition, has all of it.
LEMMA ListsAll ==
  ASSUME NEW S, IsFiniteSet(S), NEW q \in [1 .. Cardinality(S) -> S],
         \A i, j \in 1 .. Cardinality(S) : i # j => q[i] # q[j]
  PROVE  {q[i] : i \in 1 .. Cardinality(S)} = S
<1> DEFINE n == Cardinality(S)
<1>0. n \in Nat
  BY FS_CardinalityType
<1>1. q \in Injection(1 .. n, S)
  BY DEF Injection, IsInjective
<1>2. IsFiniteSet(1 .. n) /\ Cardinality(1 .. n) = n
  <2>1. 1 .. n = {} \/ 1 <= n
    BY <1>0
  <2> HIDE DEF n
  <2> QED BY <1>0, <2>1, FS_Interval, FS_EmptySet
<1>3. q \in Surjection(1 .. n, S)
  BY <1>0, <1>1, <1>2, FS_Injection
<1>4. \A x \in S : \E i \in 1 .. n : q[i] = x
  BY <1>3 DEF Surjection
<1>5. \A i \in 1 .. n : q[i] \in S
  OBVIOUS
<1> QED BY <1>4, <1>5, Zenon

\* All markets that match are executed, whatever their order.
LEMMA FillMarketsIs ==
  ASSUME markets \in MarketSeqs, NEW n \in Nat, NEW ws, IsStore(markets, n, ws),
         NEW a \in Ledgers, NEW e \in Seq(Events), Tell(orders, e, ws),
         NEW ms \in SetToSeqs(Matching(ws))
  PROVE  Filled(FillMarkets(State(ws, a, "no", e), ms), ws, a, DOMAIN ws)
<1> DEFINE s == State(ws, a, "no", e)
           k == Cardinality(Matching(ws))
           batches == [i \in DOMAIN ms |-> [type |-> "batch", id |-> ms[i]]]
           base == [s EXCEPT !.events = @ \o batches]
           First(i) == {ms[j] : j \in 1 .. i}
<1>1. k \in Nat /\ IsFiniteSet(Matching(ws))
  <2>1. Matching(ws) \in SUBSET (0 .. Len(markets))
    BY DEF Matching, MarketSeqs
  <2>2. Len(markets) \in Nat
    BY DEF MarketSeqs
  <2> QED BY <2>1, <2>2, FiniteUpTo, Zenon
<1>2. ms \in [1 .. k -> Matching(ws)] /\ \A i, j \in 1 .. k : i # j => ms[i] # ms[j]
  BY DEF SetToSeqs
<1>3. FillMarkets(s, ms) = Filling!Fold(ws, base, ms)
  BY DEF FillMarkets, FillStep, State, FoldLeft, MapThenFoldSet, Max,
         Filling!Fold, Filling!Folds, Filling!Greatest
<1>4. Filled(base, ws, a, OfMarkets(ws, {}))
  <2> DEFINE v == s.events \o batches
  <2>0. base = [s EXCEPT !.events = v]
    OBVIOUS
  <2>4. v \in Seq(Events) /\ Tell(orders, v, ws)
    <3>1. batches \in Seq(BatchEvents)
      BY <1>1, <1>2, BatchesAre, Zenon
    <3>2. s.events = e
      BY DEF State
    <3> HIDE DEF s, batches
    <3>3. e \o batches \in Seq(Events) /\ Tell(orders, e \o batches, ws)
      BY <3>1, BatchesTold
    <3> QED BY <3>2, <3>3
  <2> HIDE DEF base, batches, v
  <2>1. base = State(ws, a, "no", v)
    BY <2>0 DEF State
  <2> HIDE DEF s
  <2>2. \A i \in DOMAIN ws : ws[i] \in OrderIn(markets) /\ LeftOf(ws[i], ws[i])
    <3> SUFFICES ASSUME NEW i \in DOMAIN ws PROVE ws[i] \in OrderIn(markets) /\ LeftOf(ws[i], ws[i])
      OBVIOUS
    <3>1. ws[i] \in OrderIn(markets)
      BY DEF IsStore
    <3>2. ws[i].qty \in Nat
      BY <3>1 DEF OrderIn
    <3> QED BY <3>1, <3>2 DEF LeftOf
  <2>3. StillOpen(ws, ws, OfMarkets(ws, {}))
    BY <2>2 DEF StillOpen
  <2>5. AsFilled(ws, ws, OfMarkets(ws, {})) /\ PaidOut(a, a, ws, ws)
    BY NothingPaid DEF AsFilled, OfMarkets
  <2> QED BY <2>1, <2>3, <2>4, <2>5 DEF Filled, SameEscrow
<1> HIDE DEF base, batches, k
<1>5. PICK r : Filling!Runs(r, ws, base, ms, k)
  BY <1>1, <1>2, Filling!FoldRuns, Zenon
<1>6. /\ r[0] = base
      /\ \A i \in 1 .. k : r[i] = FillStep(ws, r[i - 1], ms[i])
      /\ r[k] = FillMarkets(s, ms)
  BY <1>3, <1>5 DEF Filling!Runs
<1> HIDE DEF s
<1> DEFINE T == {i \in 0 .. k : Filled(r[i], ws, a, OfMarkets(ws, First(i)))}
<1>7. 0 \in T
  <2>1. First(0) = {} /\ 0 \in 0 .. k
    BY <1>1
  <2> HIDE DEF First
  <2> QED BY <1>4, <1>6, <2>1, Zenon
<1>8. ASSUME NEW i \in 0 .. k - 1, i \in T PROVE i + 1 \in T
  <2>1. i + 1 \in 1 .. k /\ (i + 1) - 1 = i /\ i + 1 \in 0 .. k
    BY <1>1
  <2> DEFINE m == ms[i + 1]
  <2>2. r[i + 1] = FillStep(ws, r[i], m)
    <3>1. r[i + 1] = FillStep(ws, r[(i + 1) - 1], ms[i + 1])
      BY <1>6, <2>1
    <3> QED BY <2>1, <3>1
  <2>3. First(i + 1) = First(i) \cup {m}
    OBVIOUS
  <2>4. m \notin First(i)
    BY <1>1, <1>2, <2>1
  <2>5. m \in Matching(ws)
    BY <1>2, <2>1
  <2>7. Filled(r[i], ws, a, OfMarkets(ws, First(i)))
    BY <1>8
  <2> DEFINE M == First(i)
  <2>8. First(i + 1) = M \cup {m} /\ m \notin M /\ Filled(r[i], ws, a, OfMarkets(ws, M))
    BY <2>3, <2>4, <2>7
  <2> HIDE DEF m, First, M
  <2>9. Filled(FillStep(ws, r[i], m), ws, a, OfMarkets(ws, M \cup {m}))
    BY <2>5, <2>8, FillMarketIs DEF FillStep
  <2> QED BY <2>1, <2>2, <2>8, <2>9, Zenon
<1>9. k \in T
  <2> HIDE DEF T
  <2>1. 0 .. k \subseteq T
    BY <1>1, <1>7, <1>8, UpToEnd
  <2> QED BY <1>1, <2>1
<1>10. First(k) = Matching(ws)
  BY <1>1, <1>2, ListsAll DEF k
<1> HIDE DEF First
<1>11. OfMarkets(ws, First(k)) \subseteq DOMAIN ws
  BY DEF OfMarkets
<1>12. \A i \in DOMAIN ws \ OfMarkets(ws, First(k)) : FillQty(ws, i) = 0
  BY <1>10 DEF OfMarkets, FillQty
<1>13. Filled(r[k], ws, a, OfMarkets(ws, First(k)))
  BY <1>9
<1>14. Filled(r[k], ws, a, DOMAIN ws)
  BY <1>11, <1>12, <1>13, FilledMore
<1> QED BY <1>6, <1>14 DEF s

-----------------------------------------------------------------------------
(***************************************************************************)
(* The batch as a whole.                                                   *)
(***************************************************************************)

\* It fails in one of three ways, or leaves unexpired orders that the
\* module can pay back.
BatchEnds(s) ==
  \E os, b, h, e :
    /\ s = State(os, b, h, e)
    /\ e \in Seq(Events)
    /\ \/ h \in {"dust", "price", "ratio"}
       \/ /\ h = "no"
          /\ Tell(orders, e, os)
          /\ DOMAIN os \subseteq DOMAIN orders
          /\ \A i \in DOMAIN os : /\ os[i] \in OrderIn(markets) /\ os[i].age <= os[i].tif
                                 /\ LeftOf(orders[i], os[i])
          /\ b \in Ledgers
          /\ Backed(b, markets, os)

\* The batch keeps the books, the escrow and the times in force.
LEMMA BatchIs ==
  ASSUME markets \in MarketSeqs, NEW n \in Nat, IsStore(markets, n, orders),
         balance \in Ledgers, Backed(balance, markets, orders), halted = "no",
         NEW ms \in MarketOrders
  PROVE  BatchEnds(Batch(ms))
<1> DEFINE s == CancelExpired
<1>1. Cancelled(s, ExpiredOrders)
  BY CancelExpiredIs
<1>2. Batch(ms) = FillMarkets(s, ms) /\ ms \in SetToSeqs(Matching(s.orders))
  BY DEF Batch, MarketOrders
<1> HIDE DEF s
<1>3. PICK ws, a, g, e :
        /\ s = State(ws, a, g, e)
        /\ e \in Seq(Events)
        /\ \/ g = "dust"
           \/ /\ g = "no"
              /\ Tell(orders, e, ws)
              /\ DOMAIN ws = DOMAIN orders \ ExpiredOrders
              /\ \A i \in DOMAIN ws : ws[i] = orders[i]
              /\ a \in Ledgers
              /\ Backed(a, markets, ws)
  BY <1>1 DEF Cancelled
<1>4. CASE g = "dust"
  <2>1. FillMarkets(s, ms) = State(ws, a, g, e)
    BY <1>3, <1>4 DEF FillMarkets, State
  <2> QED BY <1>2, <1>3, <1>4, <2>1 DEF BatchEnds
<1>5. CASE g # "dust"
  <2>1. s = State(ws, a, "no", e) /\ s.orders = ws
    BY <1>3, <1>5 DEF State
  <2>2. IsStore(markets, n, ws)
    BY <1>3, <1>5 DEF IsStore
  <2>3. Filled(FillMarkets(s, ms), ws, a, DOMAIN ws)
    BY <1>2, <1>3, <1>5, <2>1, <2>2, FillMarketsIs
  <2>4. PICK os, b, h, f :
          /\ FillMarkets(s, ms) = State(os, b, h, f)
          /\ f \in Seq(Events)
          /\ \/ h \in {"price", "ratio"}
             \/ /\ h = "no" /\ Tell(orders, f, os)
                /\ StillOpen(os, ws, DOMAIN ws) /\ b \in Ledgers /\ SameEscrow(b, a)
    BY <2>3 DEF Filled
  <2>5. CASE h \in {"price", "ratio"}
    BY <1>2, <2>4, <2>5 DEF BatchEnds
  <2>6. CASE h \notin {"price", "ratio"}
    <3>1. /\ StillOpen(os, ws, DOMAIN ws) /\ b \in Ledgers /\ SameEscrow(b, a) /\ h = "no"
          /\ Tell(orders, f, os)
      BY <2>4, <2>6
    <3>2. /\ DOMAIN os \subseteq DOMAIN ws
          /\ \A i \in DOMAIN os : os[i] \in OrderIn(markets) /\ LeftOf(ws[i], os[i]) /\ os[i].age = ws[i].age
      BY <3>1 DEF StillOpen
    <3>3. \A d \in Denoms : a[<<OrderModule, d>>] \in Nat /\ b[<<OrderModule, d>>] = a[<<OrderModule, d>>]
      <4>1. \A d \in Denoms : <<OrderModule, d>> \in Accounts \X Denoms
        BY ModuleIsNoUser
      <4>2. a \in Ledgers
        BY <1>3, <1>5
      <4> QED BY <3>1, <4>1, <4>2 DEF SameEscrow, Ledgers
    <3>4. Backed(b, markets, os)
      <4>1. Backed(a, markets, ws)
        BY <1>3, <1>5
      <4> QED BY <2>2, <3>2, <3>3, <4>1, StillBacked
    <3>5. ASSUME NEW i \in DOMAIN os
          PROVE  os[i].age <= os[i].tif
      <4>1. i \in DOMAIN ws /\ i \in DOMAIN orders /\ i \notin ExpiredOrders /\ ws[i] = orders[i]
        BY <1>3, <1>5, <3>2
      <4>2. ~ (ws[i].age > ws[i].tif)
        BY <4>1 DEF ExpiredOrders, Expired
      <4>3. ws[i].age \in Int /\ ws[i].tif \in Int
        <5>1. ws[i] \in OrderIn(markets)
          BY <2>2, <4>1 DEF IsStore
        <5> QED BY <5>1, ExchangeAssumption DEF OrderIn, AgeCap
      <4>4. os[i].age = ws[i].age /\ os[i].tif = ws[i].tif
        BY <3>2 DEF LeftOf
      <4> QED BY <4>2, <4>3, <4>4
    <3>6. DOMAIN os \subseteq DOMAIN orders
      BY <1>3, <1>5, <3>2
    <3>7. \A i \in DOMAIN os : LeftOf(orders[i], os[i])
      BY <1>3, <1>5, <3>2
    <3>8. \A i \in DOMAIN os : /\ os[i] \in OrderIn(markets) /\ os[i].age <= os[i].tif
                              /\ LeftOf(orders[i], os[i])
      BY <3>2, <3>5, <3>7
    <3> QED BY <1>2, <2>4, <3>1, <3>4, <3>6, <3>8 DEF BatchEnds
  <2> QED BY <2>5, <2>6
<1> QED BY <1>4, <1>5
-----------------------------------------------------------------------------
(***************************************************************************)
(* The inductive invariant, and its steps.                                 *)
(***************************************************************************)

\* What the runs check is inductive as it stands.
ExchangeInv == BooksStayConsistent /\ EscrowCoversOrders /\ OrdersExpireOnTime

Good(ms, n, os, b, h) ==
    /\ ms \in MarketSeqs
    /\ n \in Nat
    /\ IsStore(ms, n, os)
    /\ b \in Ledgers
    /\ h \in {"no", "dust", "price", "ratio"}
    /\ Backed(b, ms, os)
    /\ \A i \in DOMAIN os : os[i].age <= os[i].tif + 1

\* The invariant, part by part, before and after a step.
LEMMA InvIs ==
  /\ ExchangeInv <=> Good(markets, seq, orders, balance, halted)
  /\ ExchangeInv' <=> Good(markets', seq', orders', balance', halted')
<1>1. /\ EscrowCoversOrders <=> Backed(balance, markets, orders)
      /\ EscrowCoversOrders' <=> Backed(balance', markets', orders')
  BY DEF EscrowCoversOrders, Refundable, Owed, PostedCoin, Backed, OwedIn, CoinIn
<1>2. /\ TypeOK <=> /\ markets \in MarketSeqs
                    /\ seq \in Nat
                    /\ IsStore(markets, seq, orders)
                    /\ balance \in Ledgers
                    /\ halted \in {"no"} \cup Causes
      /\ TypeOK' <=> /\ markets' \in MarketSeqs
                     /\ seq' \in Nat
                     /\ IsStore(markets', seq', orders')
                     /\ balance' \in Ledgers
                     /\ halted' \in {"no"} \cup Causes
  BY DEF TypeOK, MarketSeqs, IsStore, OrderIn, Ledgers
<1>3. /\ halted \in {"no", "dust", "price", "ratio"}
           <=> halted \in {"no"} \cup Causes /\ halted \notin {"insolvent", "missing"}
      /\ halted' \in {"no", "dust", "price", "ratio"}
           <=> halted' \in {"no"} \cup Causes /\ halted' \notin {"insolvent", "missing"}
  BY DEF Causes
<1> QED BY <1>1, <1>2, <1>3 DEF ExchangeInv, BooksStayConsistent, OrdersExpireOnTime, Good

\* All of an order is left of it.
LEMMA LeftOfItself ==
  ASSUME NEW ms, NEW o \in OrderIn(ms)
  PROVE  LeftOf(o, o)
<1>1. o.qty \in Nat
  BY DEF OrderIn
<1> QED BY <1>1 DEF LeftOf

\* The chain starts without orders.
LEMMA InitIsGood == Init => ExchangeInv
<1> SUFFICES ASSUME Init PROVE Good(markets, seq, orders, balance, halted)
  BY InvIs
<1>1. DOMAIN orders = {}
  BY DEF Init, NoOrders
<1>2. balance \in Ledgers /\ \A d \in Denoms : balance[<<OrderModule, d>>] = 0
  BY ExchangeAssumption, ModuleIsNoUser DEF Init, Ledgers
<1>3. Backed(balance, markets, orders)
  <2> SUFFICES ASSUME NEW d \in Denoms
               PROVE  balance[<<OrderModule, d>>] >= SumFunctionOnSet(OwedIn(markets, orders, d), {})
    BY <1>1 DEF Backed
  <2>1. SumFunctionOnSet(OwedIn(markets, orders, d), {}) = 0
    BY SumEmpty
  <2> QED BY <1>2, <2>1
<1>4. markets \in MarketSeqs /\ seq \in Nat /\ halted = "no"
  BY DEF Init, MarketSeqs
<1> QED BY <1>1, <1>2, <1>3, <1>4 DEF Good, IsStore

\* A new market changes nothing for the orders of the others.
LEMMA CreateMarketIsGood ==
  ASSUME ExchangeInv, NEW u \in Users, NEW pair \in AssetPairs, CreateMarket(u, pair)
  PROVE  ExchangeInv'
<1> SUFFICES Good(markets', seq', orders', balance', halted')
  BY InvIs
<1>0. Good(markets, seq, orders, balance, halted)
  BY InvIs
<1> DEFINE M == [base : Denoms, quote : Denoms]
           m == [base |-> pair[1], quote |-> pair[2]]
<1>1. /\ markets' = Append(markets, m)
      /\ orders' = orders /\ seq' = seq /\ balance' = balance /\ halted' = halted
  BY DEF CreateMarket
<1>2. m \in M
  BY ExchangeAssumption
<1>3. markets \in Seq(M)
  BY <1>0 DEF Good, MarketSeqs
<1>4. MarketSeqs = Seq(M)
  BY DEF MarketSeqs
<1> HIDE DEF M, m
<1>5. /\ markets' \in Seq(M) /\ DOMAIN markets \subseteq DOMAIN markets'
      /\ \A i \in DOMAIN markets : markets'[i] = markets[i]
  BY <1>1, <1>2, <1>3
<1>6. IsStore(markets, seq, orders) /\ \A i \in DOMAIN orders : orders[i].market \in DOMAIN markets
  BY <1>0 DEF Good, IsStore, OrderIn
<1>7. OrderIn(markets) \subseteq OrderIn(markets')
  BY <1>5 DEF OrderIn
<1>8. IsStore(markets', seq, orders)
  BY <1>6, <1>7 DEF IsStore
<1>9. Backed(balance, markets', orders)
  <2>1. \A d \in Denoms : OwedIn(markets', orders, d) = OwedIn(markets, orders, d)
    <3>1. \A i \in DOMAIN orders : CoinIn(markets', orders[i]) = CoinIn(markets, orders[i])
      BY <1>5, <1>6 DEF CoinIn
    <3> QED BY <3>1 DEF OwedIn
  <2> QED BY <1>0, <2>1 DEF Good, Backed
<1> QED BY <1>0, <1>1, <1>4, <1>5, <1>8, <1>9 DEF Good

\* Post puts in escrow what the order is owed.
LEMMA PostIsGood ==
  ASSUME ExchangeInv, NEW u \in Users, NEW m \in DOMAIN markets, NEW d \in Directions,
         NEW p \in Prices, NEW q \in Quantities, NEW t \in 1 .. MaxTimeInForce,
         Post(u, m, d, p, q, t)
  PROVE  ExchangeInv'
<1> SUFFICES Good(markets', seq', orders', balance', halted')
  BY InvIs
<1> DEFINE o == NewOrder(u, m, d, p, q, t)
           id == seq + 1
           c == PostedCoin(o)
           w == Without(orders', id)
<1>0. /\ markets \in MarketSeqs /\ seq \in Nat /\ IsStore(markets, seq, orders)
      /\ balance \in Ledgers /\ Backed(balance, markets, orders)
      /\ halted \in {"no", "dust", "price", "ratio"}
      /\ \A i \in DOMAIN orders : orders[i].age <= orders[i].tif + 1
  BY InvIs DEF Good
<1>1. /\ CanSend(balance, u, c)
      /\ balance' = Send(balance, u, OrderModule, c)
      /\ seq' = id /\ orders' = With(orders, id, o)
      /\ markets' = markets /\ halted' = halted
  BY DEF Post
<1>2. o \in OrderIn(markets) /\ o.age = 0 /\ o.tif = t
  BY ExchangeAssumption DEF NewOrder, OrderIn, AgeCap
<1>3. id \notin DOMAIN orders
  BY <1>0 DEF IsStore
<1>4. /\ DOMAIN orders' = DOMAIN orders \cup {id} /\ orders'[id] = o
      /\ \A i \in DOMAIN orders : orders'[i] = orders[i]
  BY <1>1, <1>3 DEF With
<1>5. c = CoinIn(markets, o)
  BY DEF PostedCoin, CoinIn
<1> HIDE DEF o, c
<1>6. c.denom \in Denoms /\ c.amount \in Nat
  BY <1>0, <1>2, <1>5, CoinIs
<1>7. /\ balance' \in Ledgers
      /\ \A e \in Denoms : balance'[<<OrderModule, e>>] =
                             IF e = c.denom THEN balance[<<OrderModule, e>>] + c.amount
                             ELSE balance[<<OrderModule, e>>]
  <2>1. u \in Accounts /\ OrderModule \in Accounts /\ u # OrderModule
    BY ModuleIsNoUser
  <2> QED BY <1>0, <1>1, <1>6, <2>1, Sent
<1>8. IsStore(markets, id, orders')
  BY <1>0, <1>2, <1>4 DEF IsStore
<1>9. Backed(balance', markets, orders')
  <2> SUFFICES ASSUME NEW e \in Denoms
               PROVE  balance'[<<OrderModule, e>>] >=
                        SumFunctionOnSet(OwedIn(markets, orders', e), DOMAIN orders')
    BY DEF Backed
  <2>1. OwedIn(markets, orders', e)[id] = IF e = c.denom THEN c.amount ELSE 0
    BY <1>4, <1>5 DEF OwedIn
  <2>2. DOMAIN w = DOMAIN orders /\ OwedIn(markets, w, e) = OwedIn(markets, orders, e)
    BY <1>3, <1>4 DEF Without, OwedIn
  <2> DEFINE rest == SumFunctionOnSet(OwedIn(markets, orders, e), DOMAIN orders)
  <2>3. /\ rest \in Nat
        /\ SumFunctionOnSet(OwedIn(markets, orders', e), DOMAIN orders')
             = OwedIn(markets, orders', e)[id] + rest
    <3>1. id \in Nat /\ id \in DOMAIN orders'
      BY <1>0, <1>4
    <3> HIDE DEF id
    <3>2. LET x == SumFunctionOnSet(OwedIn(markets, w, e), DOMAIN w)
          IN  /\ x \in Nat
              /\ SumFunctionOnSet(OwedIn(markets, orders', e), DOMAIN orders')
                   = OwedIn(markets, orders', e)[id] + x
      BY <1>0, <1>8, <3>1, OwedApart
    <3> QED BY <2>2, <3>2
  <2>4. balance[<<OrderModule, e>>] >= rest /\ balance[<<OrderModule, e>>] \in Nat
    <3>1. <<OrderModule, e>> \in Accounts \X Denoms
      BY ModuleIsNoUser
    <3> QED BY <1>0, <3>1 DEF Backed, Ledgers
  <2> HIDE DEF rest
  <2> QED BY <1>6, <1>7, <2>1, <2>3, <2>4
<1>10. \A i \in DOMAIN orders' : orders'[i].age <= orders'[i].tif + 1
  <2>1. o.age <= o.tif + 1
    BY <1>2
  <2> QED BY <1>0, <1>4, <2>1
<1> QED BY <1>0, <1>1, <1>7, <1>8, <1>9, <1>10 DEF Good

\* handleMsgCancel leaves the escrow where it is: more than is owed.
LEMMA MsgCancelIsGood ==
  ASSUME ExchangeInv, NEW u \in Users, NEW id \in DOMAIN orders, MsgCancel(u, id)
  PROVE  ExchangeInv'
<1> SUFFICES Good(markets', seq', orders', balance', halted')
  BY InvIs
<1>0. /\ markets \in MarketSeqs /\ seq \in Nat /\ IsStore(markets, seq, orders)
      /\ balance \in Ledgers /\ Backed(balance, markets, orders)
      /\ halted \in {"no", "dust", "price", "ratio"}
      /\ \A i \in DOMAIN orders : orders[i].age <= orders[i].tif + 1
  BY InvIs DEF Good
<1>1. /\ orders' = Without(orders, id)
      /\ markets' = markets /\ seq' = seq /\ balance' = balance /\ halted' = halted
  BY DEF MsgCancel
<1>2. DOMAIN orders' = DOMAIN orders \ {id} /\ \A i \in DOMAIN orders' : orders'[i] = orders[i]
  BY <1>1 DEF Without
<1>3. \A i \in DOMAIN orders : orders[i] \in OrderIn(markets)
  BY <1>0 DEF IsStore
<1>4. Backed(balance, markets, orders')
  <2>1. \A d \in Denoms : balance[<<OrderModule, d>>] \in Nat
    <3>1. \A d \in Denoms : <<OrderModule, d>> \in Accounts \X Denoms
      BY ModuleIsNoUser
    <3> QED BY <1>0, <3>1 DEF Ledgers
  <2>2. \A i \in DOMAIN orders' : orders'[i] \in OrderIn(markets) /\ LeftOf(orders[i], orders'[i])
    BY <1>2, <1>3, LeftOfItself
  <2> QED BY <1>0, <1>2, <2>1, <2>2, StillBacked
<1>5. IsStore(markets, seq, orders')
  BY <1>0, <1>2 DEF IsStore
<1> QED BY <1>0, <1>1, <1>2, <1>4, <1>5 DEF Good

\* Another block.
Aged(o) == [o EXCEPT !.age = Min({@ + 1, AgeCap})]

\* An order that is not expired is at most one block late after another.
LEMMA AgedIs ==
  ASSUME NEW ms, NEW o \in OrderIn(ms), o.age <= o.tif
  PROVE  /\ Aged(o) \in OrderIn(ms)
         /\ LeftOf(o, Aged(o))
         /\ Aged(o).age <= Aged(o).tif + 1
<1> DEFINE x == o.age + 1
           a == Min({x, AgeCap})
<1>1. AgeCap \in Nat
  BY ExchangeAssumption DEF AgeCap
<1>2. o.age \in Nat /\ o.tif \in Nat /\ o.qty \in Nat
  BY <1>1, ExchangeAssumption DEF OrderIn
<1>3. a \in {x, AgeCap} /\ a <= x /\ a <= AgeCap
  <2>1. {x, AgeCap} \in SUBSET Nat /\ {x, AgeCap} # {}
    BY <1>1, <1>2
  <2> DEFINE S == {x, AgeCap}
  <2>2. S \in SUBSET Nat /\ S # {} /\ x \in S /\ AgeCap \in S
    BY <2>1
  <2> HIDE DEF S
  <2>3. Min(S) \in S /\ \A i \in S : Min(S) <= i
    BY <2>2, MinIs
  <2> QED BY <2>2, <2>3 DEF S
<1>4. Aged(o) = [o EXCEPT !.age = a]
  BY DEF Aged
<1> HIDE DEF a
<1>5. a \in 0 .. AgeCap /\ a <= o.tif + 1
  BY <1>1, <1>2, <1>3
<1>6. Aged(o) \in OrderIn(ms)
  BY <1>4, <1>5 DEF OrderIn
<1>7. /\ Aged(o).owner = o.owner /\ Aged(o).market = o.market
      /\ Aged(o).direction = o.direction /\ Aged(o).price = o.price
      /\ Aged(o).tif = o.tif /\ Aged(o).qty = o.qty /\ Aged(o).age = a
  BY <1>4 DEF OrderIn
<1> QED BY <1>2, <1>5, <1>6, <1>7 DEF LeftOf

\* A block ends with the batch, or halts the chain as before it.
LEMMA EndBlockIsGood ==
  ASSUME ExchangeInv, EndBlock
  PROVE  ExchangeInv'
<1> SUFFICES Good(markets', seq', orders', balance', halted')
  BY InvIs
<1>0. /\ markets \in MarketSeqs /\ seq \in Nat /\ IsStore(markets, seq, orders)
      /\ balance \in Ledgers /\ Backed(balance, markets, orders)
      /\ \A i \in DOMAIN orders : orders[i].age <= orders[i].tif + 1
  BY InvIs DEF Good
<1>1. PICK ms \in MarketOrders : EndWith(Batch(ms))
  BY DEF EndBlock
<1> DEFINE s == Batch(ms)
<1>2. /\ halted = "no" /\ halted' = s.halted
      /\ \/ /\ s.halted = "no"
            /\ balance' = s.balance
            /\ orders' = [i \in DOMAIN s.orders |-> Aged(s.orders[i])]
         \/ /\ s.halted # "no"
            /\ balance' = balance /\ orders' = orders
      /\ markets' = markets /\ seq' = seq
  BY <1>1 DEF EndWith, Aged
<1>3. BatchEnds(s)
  BY <1>0, <1>2, BatchIs
<1> HIDE DEF s
<1>4. PICK os, b, h, e :
        /\ s = State(os, b, h, e)
        /\ e \in Seq(Events)
        /\ \/ h \in {"dust", "price", "ratio"}
           \/ /\ h = "no"
              /\ Tell(orders, e, os)
              /\ DOMAIN os \subseteq DOMAIN orders
              /\ \A i \in DOMAIN os : /\ os[i] \in OrderIn(markets) /\ os[i].age <= os[i].tif
                                     /\ LeftOf(orders[i], os[i])
              /\ b \in Ledgers
              /\ Backed(b, markets, os)
  BY <1>3 DEF BatchEnds
<1>5. s.halted = h /\ s.orders = os /\ s.balance = b
  BY <1>4 DEF State
<1>6. CASE h \in {"dust", "price", "ratio"}
  BY <1>0, <1>2, <1>5, <1>6 DEF Good
<1>7. CASE h \notin {"dust", "price", "ratio"}
  <2>1. /\ h = "no" /\ DOMAIN os \subseteq DOMAIN orders
        /\ \A i \in DOMAIN os : os[i] \in OrderIn(markets) /\ os[i].age <= os[i].tif
        /\ b \in Ledgers /\ Backed(b, markets, os)
    BY <1>4, <1>7
  <2>2. halted' = "no" /\ balance' = b /\ orders' = [i \in DOMAIN os |-> Aged(os[i])]
    BY <1>2, <1>5, <2>1
  <2>3. DOMAIN orders' = DOMAIN os /\ \A i \in DOMAIN os : orders'[i] = Aged(os[i])
    BY <2>2
  <2>4. \A i \in DOMAIN orders' : /\ orders'[i] \in OrderIn(markets)
                                  /\ LeftOf(os[i], orders'[i])
                                  /\ orders'[i].age <= orders'[i].tif + 1
    BY <2>1, <2>3, AgedIs
  <2>5. IsStore(markets, seq, os) /\ IsStore(markets, seq, orders')
    BY <1>0, <2>1, <2>3, <2>4 DEF IsStore
  <2>6. Backed(b, markets, orders')
    <3>1. \A d \in Denoms : b[<<OrderModule, d>>] \in Nat
      <4>1. \A d \in Denoms : <<OrderModule, d>> \in Accounts \X Denoms
        BY ModuleIsNoUser
      <4> QED BY <2>1, <4>1 DEF Ledgers
    <3> QED BY <1>0, <2>1, <2>3, <2>4, <2>5, <3>1, StillBacked
  <2> QED BY <1>0, <1>2, <2>1, <2>2, <2>4, <2>5, <2>6 DEF Good
<1> QED BY <1>6, <1>7

\* Every step of the exchange keeps the invariant.
LEMMA ExchangeInductive == ExchangeInv /\ [Next]_exchangeVars => ExchangeInv'
<1> SUFFICES ASSUME ExchangeInv, [Next]_exchangeVars PROVE ExchangeInv'
  OBVIOUS
<1>1. CASE \E u \in Users, pair \in AssetPairs : CreateMarket(u, pair)
  BY <1>1, CreateMarketIsGood
<1>2. CASE \E u \in Users, m \in DOMAIN markets, d \in Directions, p \in Prices,
              q \in Quantities, t \in 1 .. MaxTimeInForce : Post(u, m, d, p, q, t)
  BY <1>2, PostIsGood
<1>3. CASE \E u \in Users, i \in DOMAIN orders : MsgCancel(u, i)
  BY <1>3, MsgCancelIsGood
<1>4. CASE EndBlock
  BY <1>4, EndBlockIsGood
<1>5. CASE UNCHANGED exchangeVars
  <2>1. Good(markets, seq, orders, balance, halted)
    BY InvIs
  <2>2. /\ markets' = markets /\ seq' = seq /\ orders' = orders
        /\ balance' = balance /\ halted' = halted
    BY <1>5 DEF exchangeVars
  <2> QED BY <2>1, <2>2, InvIs
<1> QED BY <1>1, <1>2, <1>3, <1>4, <1>5 DEF Next

-----------------------------------------------------------------------------
\* The invariant holds in every state.
LEMMA ExchangeInvariant == ExchangeSpec => []ExchangeInv
BY InitIsGood, ExchangeInductive, PTL DEF ExchangeSpec

(* Nothing the code calls impossible happens, and no filled order stays in *)
(* the store: BooksStayConsistent.                                         *)
THEOREM BooksTheorem == ExchangeSpec => []BooksStayConsistent
<1>1. ExchangeInv => BooksStayConsistent
  BY DEF ExchangeInv
<1> QED BY <1>1, ExchangeInvariant, PTL

(* The order module can pay back every open order: EscrowCoversOrders.     *)
THEOREM EscrowTheorem == ExchangeSpec => []EscrowCoversOrders
<1>1. ExchangeInv => EscrowCoversOrders
  BY DEF ExchangeInv
<1> QED BY <1>1, ExchangeInvariant, PTL

(* No order outlives its time in force: OrdersExpireOnTime.                *)
THEOREM ExpiryTheorem == ExchangeSpec => []OrdersExpireOnTime
<1>1. ExchangeInv => OrdersExpireOnTime
  BY DEF ExchangeInv
<1> QED BY <1>1, ExchangeInvariant, PTL

-----------------------------------------------------------------------------
(***************************************************************************)
(* The fills of a market are fair to its orders.                           *)
(***************************************************************************)

QtyOf(ws) == [i \in DOMAIN ws |-> ws[i].qty]

\* The orders of a side are finite in number, and weighed by their quantity.
LEMMA SideWeighs ==
  ASSUME NEW n \in Nat, NEW ws, IsStore(markets, n, ws), NEW m, NEW side
  PROVE  Weighs(QtyOf(ws), SideOf(ws, m, side))
<1> DEFINE S == OneSide(ws, m, side)
           X == SideOf(ws, m, side)
           f == [i \in S |-> OfferOf(ws, i)]
<1>1. S \in SUBSET (0 .. n) /\ S \subseteq DOMAIN ws
  BY DEF OneSide, IsStore
<1>2. X = {OfferOf(ws, i) : i \in S}
  BY DEF SideOf
<1>3. IsFiniteSet(X)
  <2>1. f \in Surjection(S, X)
    BY <1>2 DEF Surjection
  <2> HIDE DEF f, S, X
  <2>2. IsFiniteSet(S)
    BY <1>1, FiniteUpTo, Zenon
  <2> QED BY <2>1, <2>2, FS_Surjection, Zenon
<1> HIDE DEF f, S, X
<1>4. ASSUME NEW o \in X
      PROVE  \E i \in S : o.id = i /\ o = OfferOf(ws, i) /\ o \in Offers /\ QtyOf(ws)[o.id] = o.qty
  <2>1. PICK i \in S : o = OfferOf(ws, i)
    BY <1>2, Zenon
  <2>2. i \in DOMAIN ws /\ i \in Nat
    BY <1>1
  <2>3. ws[i] \in OrderIn(markets)
    BY <2>2 DEF IsStore
  <2>4. ws[i].price \in Nat /\ ws[i].qty \in Nat \ {0}
    BY <2>3 DEF OrderIn
  <2>5. QtyOf(ws)[i] = ws[i].qty
    BY <2>2 DEF QtyOf
  <2>6. o.id = i /\ o.qty = ws[i].qty /\ o \in Offers
    BY <2>1, <2>2, <2>4 DEF OfferOf, Offers
  <2> QED BY <2>1, <2>5, <2>6
<1>5. Weighs(QtyOf(ws), X)
  BY <1>3, <1>4 DEF Weighs
<1> QED BY <1>5 DEF X

\* The match of a market, side by side.
IsMarketMatch(ws, m, e, ratio, x, y) ==
  IsMatchAt(Match(BookOf(ws, m, "bid"), BookOf(ws, m, "ask")), e, ratio, x, y, QtyOf(ws),
            SideOf(ws, m, "bid"), SideOf(ws, m, "ask"))

LEMMA MarketMatchIs ==
  ASSUME NEW n \in Nat, NEW ws, IsStore(markets, n, ws), NEW m \in Matching(ws)
  PROVE  \E e, ratio, x, y : IsMarketMatch(ws, m, e, ratio, x, y)
<1> DEFINE bids == BookOf(ws, m, "bid")
           asks == BookOf(ws, m, "ask")
<1>1. AreBooks(ws, m, bids, asks) /\ Overlap(bids, asks)
  BY BooksOf DEF Matching
<1> HIDE DEF bids, asks
<1>2. IsBook(bids) /\ IsBook(asks) /\ Distinct(bids) /\ Distinct(asks)
      /\ InBook(bids) = SideOf(ws, m, "bid") /\ InBook(asks) = SideOf(ws, m, "ask")
  BY <1>1 DEF AreBooks
<1>3. Weighs(QtyOf(ws), InBook(bids)) /\ Weighs(QtyOf(ws), InBook(asks))
  BY <1>2, SideWeighs
<1>4. \E e, ratio, x, y : IsMatchAt(Match(bids, asks), e, ratio, x, y, QtyOf(ws), InBook(bids), InBook(asks))
  BY <1>1, <1>2, <1>3, MatchSides
<1> QED BY <1>2, <1>4, Zenon DEF IsMarketMatch, bids, asks

\* A fill of an order, on its side of its market and within its limit.
Honours(g, ws, m, side, price) ==
    /\ g.id \in OneSide(ws, m, side)
    /\ IF side = "bid" THEN ws[g.id].price >= price ELSE ws[g.id].price <= price
    /\ g.filled \in 1 .. ws[g.id].qty

\* The fills of a match are those of its two sides, each of another order.
SideBySide(ws, m, price, x, y) ==
    /\ \A g \in Given(x) : Honours(g, ws, m, "bid", price)
    /\ \A g \in Given(y) : Honours(g, ws, m, "ask", price)
    /\ Apart(x, y)

\* An order is filled for no more than it has, and within its limit.
LEMMA FillHonours ==
  ASSUME NEW ws, NEW m, NEW side, NEW o \in SideOf(ws, m, side), NEW g, AccountsFor(g, o)
  PROVE  g.id \in OneSide(ws, m, side) /\ ws[g.id].price = o.price /\ g.filled \in 1 .. ws[g.id].qty
<1>1. PICK i \in OneSide(ws, m, side) : o = OfferOf(ws, i)
  BY DEF SideOf
<1>2. o.id = i /\ o.price = ws[i].price /\ o.qty = ws[i].qty
  BY <1>1 DEF OfferOf
<1> QED BY <1>2 DEF AccountsFor

LEMMA MarketFillsAre ==
  ASSUME NEW ws, NEW m, NEW e, NEW ratio, NEW x, NEW y, IsMarketMatch(ws, m, e, ratio, x, y)
  PROVE  SideBySide(ws, m, e.price, x, y)
<1>1. Sides(e, ratio, x, y, QtyOf(ws), SideOf(ws, m, "bid"), SideOf(ws, m, "ask"))
  BY DEF IsMarketMatch, IsMatchAt
<1>2. ASSUME NEW g \in Given(x) PROVE Honours(g, ws, m, "bid", e.price)
  <2>1. PICK o \in SideOf(ws, m, "bid") : InMarket(o, BidRule(e, ratio, Recip(ratio))) /\ AccountsFor(g, o)
    BY <1>1, Zenon DEF Sides, SideFills
  <2>2. o.price >= e.price
    BY <2>1 DEF InMarket, BidRule, BidInMarket
  <2>3. g.id \in OneSide(ws, m, "bid") /\ ws[g.id].price = o.price /\ g.filled \in 1 .. ws[g.id].qty
    BY <2>1, FillHonours
  <2> QED BY <2>2, <2>3 DEF Honours
<1>3. ASSUME NEW g \in Given(y) PROVE Honours(g, ws, m, "ask", e.price)
  <2>1. PICK o \in SideOf(ws, m, "ask") : InMarket(o, AskRule(e, ratio, Recip(ratio))) /\ AccountsFor(g, o)
    BY <1>1, Zenon DEF Sides, SideFills
  <2>2. o.price <= e.price
    BY <2>1 DEF InMarket, AskRule, AskInMarket
  <2>3. g.id \in OneSide(ws, m, "ask") /\ ws[g.id].price = o.price /\ g.filled \in 1 .. ws[g.id].qty
    BY <2>1, FillHonours
  <2> QED BY <2>2, <2>3 DEF Honours
<1>4. /\ x \in Seq(Fillings) /\ y \in Seq(Fillings)
      /\ \A k, l \in 1 .. Len(x) : k # l => x[k].id # x[l].id
      /\ \A k, l \in 1 .. Len(y) : k # l => y[k].id # y[l].id
  BY <1>1 DEF Sides, SideFills
<1>5. \A g \in Given(x), c \in Given(y) : g.id # c.id
  <2>1. (\A g \in Given(x) : ws[g.id].direction = "bid") /\ \A g \in Given(y) : ws[g.id].direction = "ask"
    BY <1>2, <1>3 DEF Honours, OneSide
  <2> QED BY <2>1
<1>6. Apart(x, y)
  BY <1>4, <1>5, SidesApart
<1> QED BY <1>2, <1>3, <1>6 DEF SideBySide

\* What is filled of an order.
Fair(ws, i) ==
    /\ FillQty(ws, i) \in Nat /\ FillQty(ws, i) <= ws[i].qty
    /\ FillQty(ws, i) # 0 =>
         /\ ws[i].market \in Matching(ws)
         /\ IF ws[i].direction = "bid" THEN ws[i].price >= PriceOf(ws, ws[i].market)
                                       ELSE ws[i].price <= PriceOf(ws, ws[i].market)

LEMMA FillsAreFair ==
  ASSUME NEW n \in Nat, NEW ws, IsStore(markets, n, ws), NEW i \in DOMAIN ws
  PROVE  Fair(ws, i)
<1> DEFINE m == ws[i].market
           r == Match(BookOf(ws, m, "bid"), BookOf(ws, m, "ask"))
<1>1. ws[i].qty \in Nat /\ 0 <= ws[i].qty
  <2>1. ws[i] \in OrderIn(markets)
    BY DEF IsStore
  <2> QED BY <2>1 DEF OrderIn
<1>2. CASE m \in Matching(ws) /\ \E f \in FillsIn(ws, m) : f.id = i
  <2> DEFINE g == CHOOSE f \in FillsIn(ws, m) : f.id = i
  <2>1. g \in FillsIn(ws, m) /\ g.id = i
    BY <1>2
  <2>2. FillQty(ws, i) = g.filled /\ FillsIn(ws, m) = Given(r.fills) /\ PriceOf(ws, m) = r.price
    BY <1>2 DEF FillQty, FillsIn, PriceOf
  <2> HIDE DEF g, m
  <2>3. PICK e, ratio, x, y : IsMarketMatch(ws, m, e, ratio, x, y)
    BY <1>2, MarketMatchIs
  <2>4. r.price = e.price /\ r.fills = IF ratio = 0 THEN <<>> ELSE x \o y
    BY <2>3 DEF IsMarketMatch, IsMatchAt
  <2> HIDE DEF r
  <2>5. SideBySide(ws, m, e.price, x, y)
    BY <2>3, MarketFillsAre
  <2>6. CASE ratio = 0
    <3>1. Given(<<>>) = {}
      BY DEF Given
    <3> QED BY <2>1, <2>2, <2>4, <2>6, <3>1
  <2>7. CASE ratio # 0
    <3>1. g \in Given(x) \cup Given(y)
      BY <2>1, <2>2, <2>4, <2>5, <2>7 DEF SideBySide, Apart
    <3>2. \E side \in {"bid", "ask"} : Honours(g, ws, m, side, e.price)
      BY <2>5, <3>1 DEF SideBySide
    <3>3. /\ FillQty(ws, i) \in 1 .. ws[i].qty /\ m \in Matching(ws)
          /\ IF ws[i].direction = "bid" THEN ws[i].price >= PriceOf(ws, m)
                                        ELSE ws[i].price <= PriceOf(ws, m)
      BY <1>2, <2>1, <2>2, <2>4, <3>2 DEF Honours, OneSide
    <3> QED BY <1>1, <3>3 DEF Fair, m
  <2> QED BY <2>6, <2>7
<1>3. CASE ~ (m \in Matching(ws) /\ \E f \in FillsIn(ws, m) : f.id = i)
  <2>1. FillQty(ws, i) = 0
    BY <1>3, Zenon DEF FillQty
  <2> QED BY <1>1, <2>1 DEF Fair
<1> QED BY <1>2, <1>3

-----------------------------------------------------------------------------
(***************************************************************************)
(* What a fill is worth to its owner, and what it is worth at the price.   *)
(***************************************************************************)

\* A quotient is below what its dividend is below.
LEMMA QuotientBelow ==
  ASSUME NEW a \in Nat, NEW k \in Int, a < Divisor * k + Divisor
  PROVE  a \div Divisor <= k
<1> DEFINE q == a \div Divisor
<1>0. Divisor \in Nat \ {0}
  BY ExchangeAssumption
<1>1. q \in Nat /\ Divisor * q <= a
  BY <1>0, Quotient
<1> HIDE DEF q
<1>2. Divisor * (k + 1) = Divisor * k + Divisor /\ Divisor * (k + 1) \in Int /\ Divisor * q \in Int
  BY <1>0, <1>1
<1>3. Divisor * q < Divisor * (k + 1)
  BY <1>0, <1>1, <1>2
<1>4. q < k + 1
  BY <1>0, <1>1, <1>3, Cancel
<1> QED BY <1>1, <1>4 DEF q

\* What is rounded up covers.
LEMMA RoundUpCovers ==
  ASSUME NEW c \in Nat
  PROVE  RoundUp(c) \in Nat /\ c <= Divisor * RoundUp(c)
<1> DEFINE a == c + Divisor - 1
           q == a \div Divisor
<1>0. Divisor \in Nat \ {0} /\ a \in Nat
  BY ExchangeAssumption
<1>1. q \in Nat /\ a < Divisor * q + Divisor
  BY <1>0, Quotient
<1>2. RoundUp(c) = q
  BY DEF RoundUp
<1> HIDE DEF q
<1>3. Divisor * q \in Int
  BY <1>0, <1>1
<1>4. c <= Divisor * q
  BY <1>0, <1>1, <1>3
<1> QED BY <1>1, <1>2, <1>4

\* Rounding down loses at most what rounding up adds.
LEMMA RoundedApart ==
  ASSUME NEW a \in Nat, NEW b \in Nat, NEW c \in Nat
  PROVE  /\ (a + c) \div Divisor <= a \div Divisor + RoundUp(c)
         /\ (a + b + c) \div Divisor <= a \div Divisor + b \div Divisor + RoundUp(c) + 1
<1> DEFINE x == a \div Divisor
           y == b \div Divisor
           z == RoundUp(c)
<1>0. Divisor \in Nat \ {0}
  BY ExchangeAssumption
<1>1. x \in Nat /\ a < Divisor * x + Divisor
  BY <1>0, Quotient
<1>2. y \in Nat /\ b < Divisor * y + Divisor
  BY <1>0, Quotient
<1>3. z \in Nat /\ c <= Divisor * z
  BY RoundUpCovers
<1> HIDE DEF x, y, z
<1>4. /\ Divisor * x \in Int /\ Divisor * y \in Int /\ Divisor * z \in Int
      /\ Divisor * (x + z) = Divisor * x + Divisor * z
      /\ Divisor * (x + y + z + 1) = Divisor * x + Divisor * y + Divisor * z + Divisor
  BY <1>0, <1>1, <1>2, <1>3
<1>5. a + c < Divisor * (x + z) + Divisor
  BY <1>0, <1>1, <1>3, <1>4
<1>6. a + b + c < Divisor * (x + y + z + 1) + Divisor
  BY <1>0, <1>1, <1>2, <1>3, <1>4
<1>7. (a + c) \div Divisor <= x + z
  BY <1>1, <1>3, <1>5, QuotientBelow
<1>8. (a + b + c) \div Divisor <= x + y + z + 1
  BY <1>1, <1>2, <1>3, <1>6, QuotientBelow
<1> QED BY <1>7, <1>8 DEF x, y, z

\* What q of an order has in escrow, in d.
StakeFor(o, q, d) ==
  IF o.direction = "bid" THEN InCoin(d, markets[o.market].quote, NormalizeQuote(o.price, q))
                         ELSE InCoin(d, markets[o.market].base, q)

\* What a fill of n changes for its owner, in d.
ChangeFor(o, p, n, d) == PaidFor(o, p, n, d) + StakeFor(o, o.qty - n, d) - StakeFor(o, o.qty, d)

\* What n is worth, in d, at the price p and within the limit of the order.
ValueOf(o, p, n) ==
  IF n = 0 THEN 0
  ELSE IF o.direction = "bid" THEN - Min({RoundUp(n * o.price), RoundUp(n * p) + 1})
       ELSE (n * Max({o.price, p})) \div Divisor
EarnedFor(o, p, n, d) ==
  InCoin(d, markets[o.market].base, IF o.direction = "bid" THEN n ELSE - n)
    + InCoin(d, markets[o.market].quote, ValueOf(o, p, n))

LEMMA StakeForIs ==
  ASSUME NEW o \in OrderIn(markets), NEW q \in Nat, NEW d
  PROVE  StakeFor(o, q, d) \in Nat /\ StakeFor(o, 0, d) = 0
<1>1. o.price \in Nat
  BY DEF OrderIn
<1>2. NormalizeQuote(o.price, q) \in Nat /\ NormalizeQuote(o.price, 0) = 0
  <2>1. q <= q
    OBVIOUS
  <2> QED BY <1>1, <2>1, NormalizeUpTo, NothingIsFree, Zenon
<1> QED BY <1>2 DEF StakeFor, InCoin

\* A bid pays, for what it trades, at most its limit and at most a unit more
\* than the price, both rounded up.
BidCost(o, p, n) == NormalizeQuote(o.price, o.qty) - NormalizeQuote(o.price, o.qty - n) - RefundOf(o, p, n)

LEMMA BidCostIs ==
  ASSUME NEW o \in OrderIn(markets), NEW p \in Nat, p <= o.price, NEW n \in Nat, n <= o.qty
  PROVE  /\ BidCost(o, p, n) \in Int
         /\ BidCost(o, p, n) <= RoundUp(n * o.price)
         /\ BidCost(o, p, n) <= RoundUp(n * p) + 1
<1> DEFINE q == o.qty
           limit == o.price
           a == limit * (q - n)
           b == (limit - p) * n
           c == n * p
           e == n * limit
<1>1. q \in Nat /\ limit \in Nat /\ q - n \in Nat /\ limit - p \in Nat
  BY DEF OrderIn
<1>2. a \in Nat /\ b \in Nat /\ c \in Nat /\ e \in Nat
  BY <1>1
<1>3. limit * q = a + e
  <2>1. limit * (q - n) = limit * q - limit * n /\ limit * n = n * limit
        /\ limit * q \in Int /\ limit * n \in Int
    BY <1>1
  <2> QED BY <2>1
<1>4. e = b + c
  <2>1. (limit - p) * n = limit * n - p * n /\ limit * n = n * limit /\ p * n = n * p
        /\ limit * n \in Int /\ p * n \in Int
    BY <1>1
  <2> QED BY <2>1
<1>5. NormalizeQuote(limit, q) = (a + e) \div Divisor /\ NormalizeQuote(limit, q - n) = a \div Divisor
  BY <1>3 DEF NormalizeQuote
<1>6. RefundOf(o, p, n) \in Nat /\ RefundOf(o, p, n) = b \div Divisor
  <2>1. CASE p < limit
    <3>1. RefundOf(o, p, n) = b \div Divisor
      BY <2>1 DEF RefundOf, NormalizeQuote
    <3> QED BY <3>1, RefundIs
  <2>2. CASE ~ (p < limit)
    <3>1. limit - p = 0
      BY <1>1, <2>2
    <3>2. b = 0
      BY <3>1
    <3> HIDE DEF b
    <3>3. b \div Divisor = 0
      BY <3>2, ExchangeAssumption
    <3>4. RefundOf(o, p, n) = 0
      BY <2>2 DEF RefundOf
    <3> QED BY <3>3, <3>4
  <2> QED BY <2>1, <2>2
<1> HIDE DEF a, b, c, e, q, limit
<1> DEFINE f == (a + e) \div Divisor
           g == a \div Divisor
           h == b \div Divisor
<1>7. /\ f <= g + RoundUp(e)
      /\ f <= g + h + RoundUp(c) + 1
  <2>1. a + e = a + b + c
    BY <1>2, <1>4
  <2> QED BY <1>2, <2>1, RoundedApart
<1>8. f \in Int /\ g \in Int /\ h \in Int
  <2>1. a + e \in Nat
    BY <1>2
  <2> QED BY <1>2, <2>1, ExchangeAssumption, Quotient
<1>9. RoundUp(e) \in Nat /\ RoundUp(c) \in Nat
  BY <1>2, RoundUpCovers
<1>10. BidCost(o, p, n) = f - g - RefundOf(o, p, n) /\ RefundOf(o, p, n) = h
  BY <1>5, <1>6 DEF BidCost, q, limit
<1> HIDE DEF f, g, h
<1>11. /\ f - g - h \in Int
       /\ f - g - h <= RoundUp(e)
       /\ f - g - h <= RoundUp(c) + 1
  BY <1>6, <1>7, <1>8, <1>9, <1>10
<1> QED BY <1>10, <1>11 DEF e, c, limit

\* What n of a bid is worth is no more than what it gets.
LEMMA BidValue ==
  ASSUME NEW o \in OrderIn(markets), o.direction = "bid",
         NEW p \in Nat, p <= o.price, NEW n \in Nat \ {0}, n <= o.qty
  PROVE  ValueOf(o, p, n) \in Int /\ ValueOf(o, p, n) <= - BidCost(o, p, n)
<1> DEFINE u == RoundUp(n * o.price)
           v == RoundUp(n * p) + 1
           S == {u, v}
<1>1. u \in Nat /\ v \in Nat
  <2>1. o.price \in Nat
    BY DEF OrderIn
  <2>2. n * o.price \in Nat /\ n * p \in Nat
    BY <2>1
  <2> QED BY <2>2, RoundUpCovers
<1>2. BidCost(o, p, n) \in Int /\ BidCost(o, p, n) <= u /\ BidCost(o, p, n) <= v
  BY BidCostIs
<1>3. ValueOf(o, p, n) = - Min(S)
  BY DEF ValueOf
<1> HIDE DEF u, v
<1>4. Min(S) \in S
  <2>1. S \in SUBSET Nat /\ S # {}
    BY <1>1
  <2> HIDE DEF S
  <2> QED BY <2>1, MinIs
<1>5. Min(S) \in Nat /\ BidCost(o, p, n) <= Min(S)
  BY <1>1, <1>2, <1>4
<1> HIDE DEF S
<1>6. - Min(S) \in Int /\ - Min(S) <= - BidCost(o, p, n)
  BY <1>2, <1>5
<1> QED BY <1>3, <1>6

\* What n of an ask is worth is what it gets.
LEMMA AskValue ==
  ASSUME NEW o \in OrderIn(markets), o.direction = "ask",
         NEW p \in Nat, o.price <= p, NEW n \in Nat \ {0}
  PROVE  ValueOf(o, p, n) = NormalizeQuote(p, n) /\ NormalizeQuote(p, n) \in Nat
<1> DEFINE S == {o.price, p}
<1>1. o.price \in Nat
  BY DEF OrderIn
<1>2. ValueOf(o, p, n) = (n * Max(S)) \div Divisor
  BY DEF ValueOf
<1>3. Max(S) = p
  <2>1. S \in SUBSET (0 .. p) /\ S # {} /\ p \in S /\ \A x \in S : x \in Nat /\ x <= p
    BY <1>1
  <2> HIDE DEF S
  <2> DEFINE y == Max(S)
  <2>2. y \in S /\ \A x \in S : x <= y
    BY <2>1, MaxIs
  <2> HIDE DEF y
  <2>3. y = p
    BY <2>1, <2>2
  <2> QED BY <2>3 DEF y
<1>4. n * p = p * n
  OBVIOUS
<1>5. NormalizeQuote(p, n) \in Nat
  <2>1. n <= n
    OBVIOUS
  <2> QED BY <2>1, NormalizeUpTo, Zenon
<1> QED BY <1>2, <1>3, <1>4, <1>5 DEF NormalizeQuote

LEMMA NoDebt == - 0 = 0
<1>1. \A k \in Int : - k = 0 - k
  OBVIOUS
<1>2. 0 \in Int /\ 0 - 0 = 0
  OBVIOUS
<1> QED BY <1>1, <1>2, Zenon

\* A fill within the limit of its order gives its owner what it is worth.
LEMMA ChangeIsFair ==
  ASSUME NEW o \in OrderIn(markets), NEW p \in Nat, NEW n \in Nat, n <= o.qty,
         n # 0 => IF o.direction = "bid" THEN o.price >= p ELSE o.price <= p,
         NEW d
  PROVE  /\ EarnedFor(o, p, n, d) \in Int
         /\ ChangeFor(o, p, n, d) \in Int
         /\ EarnedFor(o, p, n, d) <= ChangeFor(o, p, n, d)
<1> DEFINE base == markets[o.market].base
           quote == markets[o.market].quote
           q == o.qty
<1>1. q \in Nat /\ q - n \in Nat /\ o.direction \in {"bid", "ask"} /\ o.price \in Nat
  BY DEF OrderIn, Directions
<1>2. CASE n = 0
  <2>1. PaidFor(o, p, 0, d) = 0 /\ StakeFor(o, q, d) \in Nat /\ q - 0 = q
    BY <1>1, PaidForIs, StakeForIs
  <2>2. ChangeFor(o, p, n, d) = 0
    BY <1>2, <2>1 DEF ChangeFor
  <2>3. ValueOf(o, p, n) = 0
    BY <1>2 DEF ValueOf
  <2>4. EarnedFor(o, p, n, d) = InCoin(d, base, IF o.direction = "bid" THEN n ELSE - n) + InCoin(d, quote, 0)
    BY <2>3 DEF EarnedFor
  <2>5. (IF o.direction = "bid" THEN n ELSE - n) = 0
    <3>1. n = 0 /\ - n = 0
      BY <1>2, NoDebt, Zenon
    <3> QED BY <3>1, Zenon
  <2>6. EarnedFor(o, p, n, d) = InCoin(d, base, 0) + InCoin(d, quote, 0)
    BY <2>4, <2>5, Zenon
  <2> HIDE DEF base, quote
  <2>7. InCoin(d, base, 0) = 0 /\ InCoin(d, quote, 0) = 0
    BY DEF InCoin
  <2> QED BY <2>2, <2>6, <2>7
<1>3. CASE n # 0 /\ o.direction = "bid"
  <2> DEFINE v == ValueOf(o, p, n)
             c == BidCost(o, p, n)
             x == NormalizeQuote(o.price, q - n)
             y == NormalizeQuote(o.price, q)
             r == RefundOf(o, p, n)
  <2>1. p <= o.price /\ n \in Nat \ {0}
    BY <1>1, <1>3
  <2>2. v \in Int /\ v <= - c /\ c \in Int
    BY <1>3, <2>1, BidValue, BidCostIs
  <2>3. EarnedFor(o, p, n, d) = InCoin(d, base, n) + InCoin(d, quote, v)
    BY <1>3 DEF EarnedFor
  <2>4. ChangeFor(o, p, n, d) = InCoin(d, base, n) + InCoin(d, quote, r) + InCoin(d, quote, x) - InCoin(d, quote, y)
    BY <1>3 DEF ChangeFor, PaidFor, StakeFor
  <2>5. x \in Nat /\ y \in Nat /\ r \in Nat /\ c = y - x - r
    <3>1. q <= q /\ q - n <= q - n
      BY <1>1
    <3> QED BY <1>1, <3>1, NormalizeUpTo, RefundIs DEF BidCost
  <2> HIDE DEF v, c, x, y, r, base, quote, q
  <2>6. /\ InCoin(d, base, n) + InCoin(d, quote, v) \in Int
        /\ InCoin(d, base, n) + InCoin(d, quote, r) + InCoin(d, quote, x) - InCoin(d, quote, y) \in Int
        /\ InCoin(d, base, n) + InCoin(d, quote, v)
             <= InCoin(d, base, n) + InCoin(d, quote, r) + InCoin(d, quote, x) - InCoin(d, quote, y)
    BY <2>2, <2>5 DEF InCoin
  <2> QED BY <2>3, <2>4, <2>6
<1>4. CASE n # 0 /\ o.direction = "ask"
  <2> DEFINE v == NormalizeQuote(p, n)
  <2>1. o.price <= p /\ n \in Nat \ {0}
    BY <1>1, <1>4
  <2>2. ValueOf(o, p, n) = v /\ v \in Nat
    BY <1>4, <2>1, AskValue
  <2>3. EarnedFor(o, p, n, d) = InCoin(d, base, - n) + InCoin(d, quote, v)
    BY <1>4, <2>2 DEF EarnedFor
  <2>4. ChangeFor(o, p, n, d) = InCoin(d, quote, v) + InCoin(d, base, q - n) - InCoin(d, base, q)
    BY <1>4 DEF ChangeFor, PaidFor, StakeFor
  <2> HIDE DEF v, base, quote, q
  <2>5. /\ InCoin(d, base, - n) + InCoin(d, quote, v) \in Int
        /\ InCoin(d, base, - n) + InCoin(d, quote, v)
             = InCoin(d, quote, v) + InCoin(d, base, q - n) - InCoin(d, base, q)
    BY <1>1, <2>2 DEF InCoin
  <2> QED BY <2>3, <2>4, <2>5
<1> QED BY <1>1, <1>2, <1>3, <1>4

\* The changes of a batch from the orders ws to the orders os.
Changes(ws, os, u, d) ==
  [i \in DOMAIN ws |-> IF ws[i].owner = u
                       THEN ChangeFor(ws[i], PriceOf(ws, ws[i].market), TradedIn(ws, os, i), d)
                       ELSE 0]

\* What is left in escrow, by the orders of before.
LeftStakes(ws, os, u, d) ==
  [i \in DOMAIN ws |-> IF ws[i].owner = u THEN StakeFor(ws[i], LeftIn(os, i), d) ELSE 0]

LEMMA StakesLeft ==
  ASSUME NEW n \in Nat, NEW ws, IsStore(markets, n, ws), NEW os, StillOpen(os, ws, DOMAIN ws),
         NEW u, NEW d
  PROVE  /\ \A i \in DOMAIN ws : LeftStakes(ws, os, u, d)[i] \in Nat
         /\ SumFunctionOnSet(StakesIn(markets, os, u, d), DOMAIN os)
              = SumFunctionOnSet(LeftStakes(ws, os, u, d), DOMAIN ws)
<1> DEFINE f == LeftStakes(ws, os, u, d)
           g == StakesIn(markets, os, u, d)
           S == DOMAIN ws
           T == DOMAIN os
<1>1. IsFiniteSet(S) /\ T \in SUBSET S /\ \A i \in S : ws[i] \in OrderIn(markets)
  <2>1. S \in SUBSET (0 .. n)
    BY DEF IsStore
  <2>2. IsFiniteSet(S)
    BY <2>1, FiniteUpTo, Zenon
  <2> QED BY <2>2 DEF StillOpen, IsStore
<1>2. ASSUME NEW i \in S PROVE f[i] \in Nat
  <2>1. LeftIn(os, i) \in Nat
    BY DEF LeftIn, StillOpen, OrderIn
  <2>2. StakeFor(ws[i], LeftIn(os, i), d) \in Nat
    BY <1>1, <2>1, StakeForIs
  <2> QED BY <2>2 DEF LeftStakes
<1>3. ASSUME NEW i \in S \ T PROVE f[i] = 0
  <2>1. LeftIn(os, i) = 0
    BY DEF LeftIn
  <2>2. StakeFor(ws[i], 0, d) = 0
    BY <1>1, StakeForIs
  <2> QED BY <2>1, <2>2 DEF LeftStakes
<1>4. ASSUME NEW i \in T PROVE f[i] = g[i]
  <2> DEFINE o == ws[i]
             w == os[i]
  <2>1. /\ w.owner = o.owner /\ w.market = o.market /\ w.direction = o.direction
        /\ w.price = o.price /\ LeftIn(os, i) = w.qty /\ i \in S
    BY <1>1 DEF StillOpen, LeftOf, LeftIn
  <2>2. f[i] = IF o.owner = u THEN StakeFor(o, LeftIn(os, i), d) ELSE 0
    BY <2>1 DEF LeftStakes
  <2>3. g[i] = IF w.owner = u /\ CoinIn(markets, w).denom = d THEN CoinIn(markets, w).amount ELSE 0
    BY DEF StakesIn
  <2> HIDE DEF o, w, f, g
  <2> QED BY <2>1, <2>2, <2>3 DEF StakeFor, CoinIn, Coin, InCoin
<1> HIDE DEF f, g, S, T
<1>5. SumFunctionOnSet(f, S) = SumFunctionOnSet(f, T)
  <2>1. \A i \in T : f[i] \in Int
    BY <1>1, <1>2
  <2> QED BY <1>1, <1>3, <2>1, SumOver
<1>6. SumFunctionOnSet(f, T) = SumFunctionOnSet(g, T)
  <2>1. IsFiniteSet(T)
    BY <1>1, FS_Subset
  <2> QED BY <1>4, <2>1, SumSame
<1>7. SumFunctionOnSet(g, T) = SumFunctionOnSet(f, S)
  BY <1>5, <1>6
<1> QED BY <1>2, <1>7 DEF f, g, S, T

\* The ledger b and the orders os are worth what a and ws were, and the changes.
Changed(b, os, a, ws, u, d) ==
  WealthIn(markets, b, os, u, d)
    = WealthIn(markets, a, ws, u, d) + SumFunctionOnSet(Changes(ws, os, u, d), DOMAIN ws)

LEMMA FilledWealth ==
  ASSUME NEW n \in Nat, NEW ws, IsStore(markets, n, ws), markets \in MarketSeqs,
         NEW os, StillOpen(os, ws, DOMAIN ws),
         NEW a \in Ledgers, NEW b \in Ledgers, PaidOut(b, a, ws, os),
         NEW u \in Users, NEW d \in Denoms
  PROVE  Changed(b, os, a, ws, u, d)
<1> DEFINE S == DOMAIN ws
           pay == Payments(ws, os, u, d)
           left == LeftStakes(ws, os, u, d)
           had == StakesIn(markets, ws, u, d)
           new == Changes(ws, os, u, d)
           both == [i \in S |-> pay[i] + left[i]]
<1>1. IsFiniteSet(S) /\ \A i \in S : had[i] \in Nat
  BY StakesAreNat
<1>2. \A i \in S : left[i] \in Nat
  BY StakesLeft
<1>3. ASSUME NEW i \in S
      PROVE  pay[i] \in Nat /\ new[i] \in Int /\ both[i] = had[i] + new[i]
  <2> DEFINE o == ws[i]
             p == PriceOf(ws, o.market)
             k == TradedIn(ws, os, i)
  <2>1. o \in OrderIn(markets) /\ p \in Nat /\ k \in Nat
    BY PriceIsNat, TradedIsNat DEF IsStore
  <2>2. o.qty - k = LeftIn(os, i)
    <3>1. LeftIn(os, i) \in Nat /\ o.qty \in Nat
      BY DEF LeftIn, StillOpen, OrderIn, IsStore
    <3>2. k = o.qty - LeftIn(os, i)
      BY DEF TradedIn
    <3> HIDE DEF k, o
    <3> QED BY <3>1, <3>2
  <2>3. PaidFor(o, p, k, d) \in Nat
    BY <2>1, PaidForIs
  <2>4. StakeFor(o, o.qty, d) \in Nat /\ StakeFor(o, LeftIn(os, i), d) \in Nat
    <3>1. LeftIn(os, i) \in Nat /\ o.qty \in Nat
      BY DEF LeftIn, StillOpen, OrderIn, IsStore
    <3> QED BY <2>1, <3>1, StakeForIs
  <2>5. had[i] = IF o.owner = u THEN StakeFor(o, o.qty, d) ELSE 0
    <3>1. had[i] = IF o.owner = u /\ CoinIn(markets, o).denom = d THEN CoinIn(markets, o).amount ELSE 0
      BY DEF StakesIn
    <3> HIDE DEF had, o
    <3> QED BY <3>1 DEF StakeFor, CoinIn, Coin, InCoin
  <2>6. /\ pay[i] = IF o.owner = u THEN PaidFor(o, p, k, d) ELSE 0
        /\ left[i] = IF o.owner = u THEN StakeFor(o, LeftIn(os, i), d) ELSE 0
        /\ new[i] = IF o.owner = u
                    THEN PaidFor(o, p, k, d) + StakeFor(o, LeftIn(os, i), d) - StakeFor(o, o.qty, d) ELSE 0
        /\ both[i] = pay[i] + left[i]
    BY <2>2 DEF Payments, LeftStakes, Changes, ChangeFor
  <2> HIDE DEF o, p, k, had, pay, left, new, both
  <2> QED BY <2>3, <2>4, <2>5, <2>6
<1>4. b[<<u, d>>] = a[<<u, d>>] + SumFunctionOnSet(pay, S) /\ a[<<u, d>>] \in Nat
  <2>1. <<u, d>> \in Accounts \X Denoms
    BY ModuleIsNoUser
  <2>2. a[<<u, d>>] \in Nat
    BY <2>1 DEF Ledgers
  <2> QED BY <2>2, Zenon DEF PaidOut
<1>5. /\ WealthIn(markets, a, ws, u, d) = a[<<u, d>>] + SumFunctionOnSet(had, S)
      /\ WealthIn(markets, b, os, u, d) = b[<<u, d>>] + SumFunctionOnSet(left, S)
  BY StakesLeft DEF WealthIn
<1>6. \A i \in S : both[i] = pay[i] + left[i]
  OBVIOUS
<1> HIDE DEF S, pay, left, had, new, both
<1>7. SumFunctionOnSet(both, S) = SumFunctionOnSet(pay, S) + SumFunctionOnSet(left, S)
  <2>1. \A i \in S : pay[i] \in Int /\ left[i] \in Int /\ both[i] = pay[i] + left[i]
    BY <1>2, <1>3, <1>6
  <2> QED BY <1>1, <2>1, SumBoth
<1>8. SumFunctionOnSet(both, S) = SumFunctionOnSet(had, S) + SumFunctionOnSet(new, S)
  <2>1. \A i \in S : had[i] \in Int /\ new[i] \in Int /\ both[i] = had[i] + new[i]
    BY <1>1, <1>3
  <2> QED BY <1>1, <2>1, SumBoth
<1>9. /\ SumFunctionOnSet(pay, S) \in Int /\ SumFunctionOnSet(left, S) \in Int
      /\ SumFunctionOnSet(had, S) \in Int /\ SumFunctionOnSet(new, S) \in Int
  BY <1>1, <1>2, <1>3, SumInt
<1>10. b[<<u, d>>] + SumFunctionOnSet(left, S)
         = a[<<u, d>>] + SumFunctionOnSet(had, S) + SumFunctionOnSet(new, S)
  BY <1>4, <1>7, <1>8, <1>9
<1> QED BY <1>5, <1>10, Zenon DEF Changed, S, new

-----------------------------------------------------------------------------
(***************************************************************************)
(* One price for all.                                                      *)
(***************************************************************************)

\* The orders that a batch matches are those that are not expired, and
\* everybody has what they had.
Unexpired(ws, a) ==
    /\ ws = CancelExpired.orders
    /\ DOMAIN ws = DOMAIN orders \ ExpiredOrders
    /\ \A i \in DOMAIN ws : ws[i] = orders[i]
    /\ a \in Ledgers
    /\ SameWealth(markets, a, ws, balance, orders)

\* A batch that does not fail leaves the orders os and the ledger b.
Settles(s, ws, a, os, b) ==
    /\ s.orders = os /\ s.balance = b
    /\ StillOpen(os, ws, DOMAIN ws) /\ b \in Ledgers
    /\ AsFilled(ws, os, DOMAIN ws) /\ PaidOut(b, a, ws, os)

LEMMA BatchSettles ==
  ASSUME markets \in MarketSeqs, NEW n \in Nat, IsStore(markets, n, orders),
         balance \in Ledgers, Backed(balance, markets, orders), halted = "no",
         NEW ms \in MarketOrders, Batch(ms).halted = "no"
  PROVE  \E ws, a, os, b : Unexpired(ws, a) /\ Settles(Batch(ms), ws, a, os, b)
<1> DEFINE s == CancelExpired
<1>1. Cancelled(s, ExpiredOrders)
  BY CancelExpiredIs
<1>2. Batch(ms) = FillMarkets(s, ms) /\ ms \in SetToSeqs(Matching(s.orders)) /\ s = CancelExpired
  BY DEF Batch, MarketOrders
<1> HIDE DEF s
<1>3. PICK ws, a, g, e :
        /\ s = State(ws, a, g, e)
        /\ e \in Seq(Events)
        /\ \/ g = "dust"
           \/ /\ g = "no"
              /\ Tell(orders, e, ws)
              /\ DOMAIN ws = DOMAIN orders \ ExpiredOrders
              /\ \A i \in DOMAIN ws : ws[i] = orders[i]
              /\ a \in Ledgers
              /\ SameWealth(markets, a, ws, balance, orders)
  BY <1>1 DEF Cancelled
<1>4. g # "dust"
  <2> SUFFICES ASSUME g = "dust" PROVE FALSE
    OBVIOUS
  <2>1. FillMarkets(s, ms).halted = "dust"
    BY <1>3 DEF FillMarkets, State
  <2> QED BY <1>2, <2>1
<1>5. s = State(ws, a, "no", e) /\ s.orders = ws
  BY <1>3, <1>4 DEF State
<1>6. Unexpired(ws, a)
  BY <1>2, <1>3, <1>4, <1>5 DEF Unexpired
<1>7. IsStore(markets, n, ws)
  BY <1>3, <1>4 DEF IsStore
<1>8. Filled(FillMarkets(s, ms), ws, a, DOMAIN ws)
  BY <1>2, <1>3, <1>4, <1>5, <1>7, FillMarketsIs
<1>9. PICK os, b, h, f :
        /\ FillMarkets(s, ms) = State(os, b, h, f)
        /\ \/ h \in {"price", "ratio"}
           \/ /\ StillOpen(os, ws, DOMAIN ws) /\ b \in Ledgers
              /\ AsFilled(ws, os, DOMAIN ws) /\ PaidOut(b, a, ws, os)
  BY <1>8 DEF Filled
<1>10. Batch(ms).orders = os /\ Batch(ms).balance = b /\ h = "no"
  BY <1>2, <1>9 DEF State
<1>11. Settles(Batch(ms), ws, a, os, b)
  BY <1>9, <1>10 DEF Settles
<1> QED BY <1>6, <1>11

\* Another block leaves everybody as wealthy.
LEMMA AgedWealth ==
  ASSUME NEW ms \in MarketSeqs, NEW n \in Nat, NEW os, IsStore(ms, n, os),
         \A i \in DOMAIN os : os[i].age <= os[i].tif,
         NEW aged, DOMAIN aged = DOMAIN os, \A i \in DOMAIN os : aged[i] = Aged(os[i]),
         NEW b, NEW u, NEW d
  PROVE  WealthIn(ms, b, aged, u, d) = WealthIn(ms, b, os, u, d)
<1> DEFINE f == StakesIn(ms, aged, u, d)
           g == StakesIn(ms, os, u, d)
           S == DOMAIN os
<1>1. IsFiniteSet(S)
  BY StakesAreNat
<1>2. ASSUME NEW i \in S PROVE f[i] = g[i]
  <2> DEFINE o == os[i]
             w == aged[i]
  <2>1. o \in OrderIn(ms) /\ o.age <= o.tif /\ w = Aged(o)
    BY DEF IsStore
  <2>2. /\ f[i] = IF w.owner = u /\ CoinIn(ms, w).denom = d THEN CoinIn(ms, w).amount ELSE 0
        /\ g[i] = IF o.owner = u /\ CoinIn(ms, o).denom = d THEN CoinIn(ms, o).amount ELSE 0
    BY DEF StakesIn
  <2> HIDE DEF o, w, f, g
  <2>3. /\ w.owner = o.owner /\ w.market = o.market /\ w.direction = o.direction
        /\ w.price = o.price /\ w.qty = o.qty
    BY <2>1 DEF Aged, OrderIn
  <2>4. CoinIn(ms, w) = CoinIn(ms, o)
    BY <2>3 DEF CoinIn
  <2> QED BY <2>2, <2>3, <2>4
<1>3. WealthIn(ms, b, aged, u, d) = b[<<u, d>>] + SumFunctionOnSet(f, S)
      /\ WealthIn(ms, b, os, u, d) = b[<<u, d>>] + SumFunctionOnSet(g, S)
  BY DEF WealthIn
<1> HIDE DEF f, g, S
<1>4. SumFunctionOnSet(f, S) = SumFunctionOnSet(g, S)
  BY <1>1, <1>2, SumSame
<1> QED BY <1>3, <1>4

\* What a committed block does: the expired orders are cancelled, the rest
\* is filled, and what is left is a block older.
Commits(ws, a, os, b) ==
    /\ Unexpired(ws, a)
    /\ IsStore(markets, seq, ws) /\ markets \in MarketSeqs
    /\ StillOpen(os, ws, DOMAIN ws) /\ b \in Ledgers
    /\ AsFilled(ws, os, DOMAIN ws) /\ PaidOut(b, a, ws, os)

LEMMA BlockCommits ==
  ASSUME ExchangeInv, BlockCommitted
  PROVE  \E ws, a, os, b : /\ Commits(ws, a, os, b)
                           /\ balance' = b /\ markets' = markets
                           /\ orders' = [i \in DOMAIN os |-> Aged(os[i])]
<1>0. /\ markets \in MarketSeqs /\ seq \in Nat /\ IsStore(markets, seq, orders)
      /\ balance \in Ledgers /\ Backed(balance, markets, orders)
  BY InvIs DEF Good
<1>1. PICK ms \in MarketOrders : EndWith(Batch(ms))
  BY DEF BlockCommitted, EndBlock
<1> DEFINE s == Batch(ms)
<1>2. /\ halted = "no" /\ s.halted = "no"
      /\ balance' = s.balance /\ markets' = markets
      /\ orders' = [i \in DOMAIN s.orders |-> Aged(s.orders[i])]
  BY <1>1 DEF EndWith, Aged, BlockCommitted
<1>3. PICK ws, a, os, b : Unexpired(ws, a) /\ Settles(s, ws, a, os, b)
  BY <1>0, <1>2, BatchSettles
<1> HIDE DEF s
<1>4. IsStore(markets, seq, ws)
  BY <1>0, <1>3 DEF Unexpired, IsStore
<1>5. Commits(ws, a, os, b) /\ s.orders = os /\ s.balance = b
  BY <1>0, <1>3, <1>4 DEF Commits, Settles
<1> QED BY <1>2, <1>5

\* What an order earned is what it traded, at the price of its market.
LEMMA EarnedIs ==
  ASSUME NEW ws, NEW a, NEW os, NEW b, Commits(ws, a, os, b),
         orders' = [i \in DOMAIN os |-> Aged(os[i])],
         NEW u, NEW d, NEW i \in DOMAIN ws
  PROVE  Earned(i, u, d, ClearingPrices) =
           IF ws[i].owner = u
           THEN EarnedFor(ws[i], PriceOf(ws, ws[i].market), TradedIn(ws, os, i), d) ELSE 0
<1> DEFINE o == ws[i]
           p == PriceOf(ws, o.market)
           n == TradedIn(ws, os, i)
           prices == ClearingPrices
<1>1. o = orders[i] /\ i \notin ExpiredOrders /\ i \in DOMAIN orders
      /\ ws = CancelExpired.orders
  BY DEF Commits, Unexpired
<1>2. Traded(i) = n
  <2>1. ~ Expired(orders[i])
    BY <1>1 DEF ExpiredOrders
  <2>2. DOMAIN orders' = DOMAIN os /\ \A j \in DOMAIN os : orders'[j] = Aged(os[j])
    OBVIOUS
  <2>3. ASSUME NEW j \in DOMAIN os PROVE Aged(os[j]).qty = os[j].qty
    <3>1. os[j] \in OrderIn(markets)
      BY DEF Commits, StillOpen
    <3> QED BY <3>1 DEF Aged, OrderIn
  <2>4. (IF i \in DOMAIN orders' THEN orders'[i].qty ELSE 0) = LeftIn(os, i)
    BY <2>2, <2>3 DEF LeftIn
  <2> QED BY <1>1, <2>1, <2>4, Zenon DEF Traded, TradedIn
<1>3. n # 0 => prices[o.market] = p
  <2>1. n = FillQty(ws, i)
    BY DEF Commits, AsFilled
  <2>2. n # 0 => o.market \in Matching(ws)
    BY <2>1, Zenon DEF FillQty
  <2>3. prices = [m \in Matching(ws) |-> Match(BookOf(ws, m, "bid"), BookOf(ws, m, "ask")).price]
    BY <1>1, Zenon DEF ClearingPrices
  <2> HIDE DEF prices, n, o
  <2> QED BY <2>2, <2>3 DEF PriceOf
<1> HIDE DEF n, o, p, prices
<1>4. InBase(i) = IF o.direction = "bid" THEN n ELSE - n
  BY <1>1, <1>2, Zenon DEF InBase
<1>5. InQuote(i, prices) = ValueOf(o, p, n)
  <2>1. CASE n = 0
    BY <1>2, <2>1 DEF InQuote, ValueOf
  <2>2. CASE n # 0
    <3>1. prices[orders[i].market] = p
      BY <1>1, <1>3, <2>2
    <3>2. InQuote(i, prices) = IF orders[i].direction = "bid"
                               THEN - Min({RoundUp(n * orders[i].price), RoundUp(n * p) + 1})
                               ELSE (n * Max({orders[i].price, p})) \div Divisor
      BY <1>2, <2>2, <3>1, Zenon DEF InQuote
    <3>3. ValueOf(o, p, n) = IF o.direction = "bid"
                             THEN - Min({RoundUp(n * o.price), RoundUp(n * p) + 1})
                             ELSE (n * Max({o.price, p})) \div Divisor
      BY <2>2, Zenon DEF ValueOf
    <3> QED BY <1>1, <3>2, <3>3, Zenon
  <2> QED BY <2>1, <2>2
<1>6. Earned(i, u, d, prices) =
        IF o.owner # u THEN 0
        ELSE (IF markets[o.market].base = d THEN InBase(i) ELSE 0)
               + (IF markets[o.market].quote = d THEN InQuote(i, prices) ELSE 0)
  BY <1>1, Zenon DEF Earned
<1>7. EarnedFor(o, p, n, d) =
        (IF d = markets[o.market].base THEN InBase(i) ELSE 0)
          + (IF d = markets[o.market].quote THEN InQuote(i, prices) ELSE 0)
  BY <1>4, <1>5, Zenon DEF EarnedFor, InCoin
<1>8. Earned(i, u, d, prices) = IF o.owner = u THEN EarnedFor(o, p, n, d) ELSE 0
  BY <1>6, <1>7, Zenon
<1> QED BY <1>8 DEF o, p, n, prices

\* An order that expired, and is cancelled, earns nothing.
LEMMA ExpiredEarnsNothing ==
  ASSUME NEW i \in ExpiredOrders, NEW u, NEW d, NEW prices
  PROVE  Earned(i, u, d, prices) = 0
<1>1. Traded(i) = 0
  BY DEF Traded, ExpiredOrders
<1>2. InBase(i) = 0
  BY <1>1, NoDebt, Zenon DEF InBase
<1>3. InQuote(i, prices) = 0
  BY <1>1, Zenon DEF InQuote
<1> QED BY <1>2, <1>3 DEF Earned

\* Together the orders earned no more than what changed.
EarnedAll(u, d) ==
  SumFunctionOnSet([i \in DOMAIN orders |-> Earned(i, u, d, ClearingPrices)], DOMAIN orders)

LEMMA EarnedIsChanged ==
  ASSUME ExchangeInv, NEW ws, NEW a, NEW os, NEW b, Commits(ws, a, os, b),
         orders' = [i \in DOMAIN os |-> Aged(os[i])], NEW u, NEW d
  PROVE  /\ EarnedAll(u, d) \in Int
         /\ SumFunctionOnSet(Changes(ws, os, u, d), DOMAIN ws) \in Int
         /\ EarnedAll(u, d) <= SumFunctionOnSet(Changes(ws, os, u, d), DOMAIN ws)
<1> DEFINE S == DOMAIN orders
           T == DOMAIN ws
           f == [i \in S |-> Earned(i, u, d, ClearingPrices)]
           g == Changes(ws, os, u, d)
<1>1. T = S \ ExpiredOrders /\ IsFiniteSet(S)
  <2>1. IsStore(markets, seq, orders) /\ seq \in Nat
    BY InvIs DEF Good
  <2>2. S \in SUBSET (0 .. seq)
    BY <2>1 DEF IsStore
  <2>3. IsFiniteSet(S)
    BY <2>1, <2>2, FiniteUpTo, Zenon
  <2> QED BY <2>3 DEF Commits, Unexpired
<1>2. ASSUME NEW i \in S \ T PROVE f[i] = 0
  <2>1. i \in ExpiredOrders
    BY <1>1
  <2> QED BY <2>1, ExpiredEarnsNothing
<1>3. ASSUME NEW i \in T PROVE f[i] \in Int /\ g[i] \in Int /\ f[i] <= g[i]
  <2> DEFINE o == ws[i]
             p == PriceOf(ws, o.market)
             n == TradedIn(ws, os, i)
  <2>1. o \in OrderIn(markets) /\ p \in Nat /\ n \in Nat /\ n <= o.qty
    <3>1. IsStore(markets, seq, ws) /\ StillOpen(os, ws, DOMAIN ws) /\ seq \in Nat
      BY InvIs DEF Commits, Good
    <3>2. \A j \in DOMAIN ws : ws[j] \in OrderIn(markets)
      BY <3>1 DEF IsStore
    <3> QED BY <3>1, <3>2, PriceIsNat, TradedIsNat
  <2>2. n # 0 => IF o.direction = "bid" THEN o.price >= p ELSE o.price <= p
    <3>1. Fair(ws, i)
      BY InvIs, FillsAreFair DEF Commits, Good
    <3>2. n = FillQty(ws, i)
      BY DEF Commits, AsFilled
    <3> QED BY <3>1, <3>2, Zenon DEF Fair
  <2>3. /\ EarnedFor(o, p, n, d) \in Int
        /\ ChangeFor(o, p, n, d) \in Int
        /\ EarnedFor(o, p, n, d) <= ChangeFor(o, p, n, d)
    <3> HIDE DEF o, p, n
    <3> QED BY <2>1, <2>2, ChangeIsFair
  <2>4. f[i] = IF o.owner = u THEN EarnedFor(o, p, n, d) ELSE 0
    <3>1. f[i] = Earned(i, u, d, ClearingPrices)
      BY <1>1
    <3>2. Earned(i, u, d, ClearingPrices) =
            IF ws[i].owner = u
            THEN EarnedFor(ws[i], PriceOf(ws, ws[i].market), TradedIn(ws, os, i), d) ELSE 0
      BY EarnedIs
    <3> QED BY <3>1, <3>2, Zenon
  <2>5. g[i] = IF o.owner = u THEN ChangeFor(o, p, n, d) ELSE 0
    BY DEF Changes
  <2> HIDE DEF o, p, n, f, g
  <2> QED BY <2>3, <2>4, <2>5
<1>4. EarnedAll(u, d) = SumFunctionOnSet(f, S)
  BY DEF EarnedAll
<1> HIDE DEF f, g, S, T
<1>5. SumFunctionOnSet(f, S) = SumFunctionOnSet(f, T)
  <2>1. T \in SUBSET S /\ \A i \in T : f[i] \in Int
    BY <1>1, <1>3
  <2> QED BY <1>1, <1>2, <2>1, SumOver
<1>6. /\ SumFunctionOnSet(f, T) \in Int /\ SumFunctionOnSet(g, T) \in Int
      /\ SumFunctionOnSet(f, T) <= SumFunctionOnSet(g, T)
  <2>1. IsFiniteSet(T)
    BY <1>1, FS_Subset
  <2> QED BY <1>3, <2>1, SumAtLeast
<1> QED BY <1>4, <1>5, <1>6 DEF g, T

\* The wealth of a user, before and after a step.
LEMMA WealthIs ==
  ASSUME NEW u, NEW d
  PROVE  /\ Wealth(u, d) = WealthIn(markets, balance, orders, u, d)
         /\ Wealth(u, d)' = WealthIn(markets', balance', orders', u, d)
BY Zenon DEF Wealth, Stakes, PostedCoin, WealthIn, StakesIn, CoinIn

\* The state in which a block ends whose batch leaves os and b.
BlockEnds(os, b) ==
  balance' = b /\ markets' = markets /\ orders' = [i \in DOMAIN os |-> Aged(os[i])]

\* A block changes the wealth of a user by what the fills change.
LEMMA WealthChanges ==
  ASSUME ExchangeInv, NEW ws, NEW a, NEW os, NEW b, Commits(ws, a, os, b), BlockEnds(os, b),
         NEW u \in Users, NEW d \in Denoms
  PROVE  /\ Wealth(u, d)' = Wealth(u, d) + SumFunctionOnSet(Changes(ws, os, u, d), DOMAIN ws)
         /\ Wealth(u, d) \in Int
<1> DEFINE change == SumFunctionOnSet(Changes(ws, os, u, d), DOMAIN ws)
<1>0. Commits(ws, a, os, b)
  OBVIOUS
<1>1. balance' = b /\ markets' = markets /\ orders' = [i \in DOMAIN os |-> Aged(os[i])]
  BY DEF BlockEnds
<1>3. /\ markets \in MarketSeqs /\ IsStore(markets, seq, ws) /\ seq \in Nat
      /\ StillOpen(os, ws, DOMAIN ws) /\ a \in Ledgers /\ b \in Ledgers
      /\ PaidOut(b, a, ws, os) /\ Unexpired(ws, a)
  BY <1>0, InvIs DEF Commits, Unexpired, Good
<1>4. Changed(b, os, a, ws, u, d)
  BY <1>3, FilledWealth
<1>5. WealthIn(markets, b, orders', u, d) = WealthIn(markets, b, os, u, d)
  <2>1. DOMAIN orders' = DOMAIN os /\ \A i \in DOMAIN os : orders'[i] = Aged(os[i])
    BY <1>1
  <2>2. /\ DOMAIN os \subseteq DOMAIN ws
        /\ \A i \in DOMAIN os : os[i] \in OrderIn(markets) /\ LeftOf(ws[i], os[i]) /\ os[i].age = ws[i].age
    BY <1>3 DEF StillOpen
  <2>3. IsStore(markets, seq, os)
    BY <1>3, <2>2 DEF IsStore
  <2>4. ASSUME NEW i \in DOMAIN os PROVE os[i].age <= os[i].tif
    <3>1. i \in DOMAIN ws /\ i \in DOMAIN orders /\ i \notin ExpiredOrders /\ ws[i] = orders[i]
      BY <1>3, <2>2 DEF Unexpired
    <3>2. ~ (ws[i].age > ws[i].tif)
      BY <3>1 DEF ExpiredOrders, Expired
    <3>3. os[i].age = ws[i].age /\ os[i].tif = ws[i].tif
      BY <2>2 DEF LeftOf
    <3>4. os[i].age \in Int /\ os[i].tif \in Int
      BY <2>2, ExchangeAssumption DEF OrderIn, AgeCap
    <3> QED BY <3>2, <3>3, <3>4
  <2> QED BY <1>3, <2>1, <2>3, <2>4, AgedWealth
<1>6. WealthIn(markets, a, ws, u, d) = WealthIn(markets, balance, orders, u, d)
  BY <1>3 DEF Unexpired, SameWealth
<1>7. WealthIn(markets, balance, orders, u, d) \in Int
  <2>1. IsStore(markets, seq, orders) /\ balance \in Ledgers
    BY InvIs DEF Good
  <2>2. balance[<<u, d>>] \in Nat
    <3>1. <<u, d>> \in Accounts \X Denoms
      BY ModuleIsNoUser
    <3> QED BY <2>1, <3>1 DEF Ledgers
  <2> DEFINE f == StakesIn(markets, orders, u, d)
             S == DOMAIN orders
  <2>3. IsFiniteSet(S) /\ \A i \in S : f[i] \in Nat
    BY <1>3, <2>1, StakesAreNat
  <2>4. WealthIn(markets, balance, orders, u, d) = balance[<<u, d>>] + SumFunctionOnSet(f, S)
    BY DEF WealthIn
  <2> HIDE DEF f, S
  <2>5. SumFunctionOnSet(f, S) \in Nat
    BY <2>3, SumNat
  <2> QED BY <2>2, <2>4, <2>5
<1>8. /\ Wealth(u, d)' = Wealth(u, d) + change
      /\ Wealth(u, d) \in Int
  <2>1. Wealth(u, d)' = WealthIn(markets, b, os, u, d)
    BY <1>1, <1>5, WealthIs
  <2>2. Wealth(u, d) = WealthIn(markets, a, ws, u, d)
    BY <1>6, WealthIs
  <2> QED BY <1>4, <1>6, <1>7, <2>1, <2>2, Zenon DEF Changed
<1> QED BY <1>8

LEMMA WealthGrows ==
  ASSUME ExchangeInv, BlockCommitted, NEW u \in Users, NEW d \in Denoms
  PROVE  Wealth(u, d)' >= Wealth(u, d) + EarnedAll(u, d)
<1>1. PICK ws, a, os, b : Commits(ws, a, os, b) /\ BlockEnds(os, b)
  BY BlockCommits DEF BlockEnds
<1> DEFINE change == SumFunctionOnSet(Changes(ws, os, u, d), DOMAIN ws)
<1>2. EarnedAll(u, d) \in Int /\ change \in Int /\ EarnedAll(u, d) <= change
  BY <1>1, EarnedIsChanged DEF BlockEnds
<1>3. Wealth(u, d)' = Wealth(u, d) + change /\ Wealth(u, d) \in Int
  BY <1>1, WealthChanges
<1> HIDE DEF change
<1> QED BY <1>2, <1>3

(* In every batch every owner gets, for what traded, at least the clearing *)
(* price: OnePriceForAll, for any orders and any order of the markets.     *)
THEOREM OnePriceTheorem == ExchangeSpec => OnePriceForAll
<1>1. ASSUME ExchangeInv
      PROVE  BlockCommitted =>
               LET prices == ClearingPrices
               IN  \A u \in Users, d \in Denoms :
                     Wealth(u, d)' >=
                       Wealth(u, d) + SumFunctionOnSet([i \in DOMAIN orders |-> Earned(i, u, d, prices)],
                                                       DOMAIN orders)
  BY <1>1, WealthGrows, Zenon DEF EarnedAll
<1>2. ExchangeInv /\ [Next]_exchangeVars =>
        [BlockCommitted =>
           LET prices == ClearingPrices
           IN  \A u \in Users, d \in Denoms :
                 Wealth(u, d)' >=
                   Wealth(u, d) + SumFunctionOnSet([i \in DOMAIN orders |-> Earned(i, u, d, prices)],
                                                   DOMAIN orders)]_exchangeVars
  BY <1>1
<1> QED BY <1>2, ExchangeInvariant, PTL DEF ExchangeSpec, OnePriceForAll

-----------------------------------------------------------------------------
(***************************************************************************)
(* The two sides of a market trade as much.                                *)
(***************************************************************************)

\* What fills of different orders fill, added up by order.
LEMMA TotalById ==
  ASSUME NEW F, IsFiniteSet(F), F \subseteq Fillings, \A f, g \in F : f.id = g.id => f = g,
         NEW h, \A f \in F : h[f.id] = f.filled
  PROVE  SumFunctionOnSet(h, IdsOf(F)) = TotalOf(F)
<1> DEFINE T == {G \in SUBSET F : SumFunctionOnSet(h, IdsOf(G)) = TotalOf(G)}
<1>0. \A f \in F : f.filled \in Nat
  BY DEF Fillings
<1>1. {} \in T
  <2>1. IdsOf({}) = {}
    BY DEF IdsOf
  <2>2. SumFunctionOnSet(h, {}) = 0
    BY SumEmpty
  <2> QED BY <2>1, <2>2, TotalEmpty
<1>2. ASSUME NEW G \in SUBSET F, NEW f \in F, G \in T, f \notin G
      PROVE  G \cup {f} \in T
  <2> DEFINE I == IdsOf(G)
             k == [g \in G |-> g.id]
  <2>1. IsFiniteSet(G) /\ G \subseteq Fillings /\ f \in Fillings
    BY FS_Subset
  <2>2. IsFiniteSet(I)
    <3>1. k \in Surjection(G, I)
      BY DEF Surjection, IdsOf
    <3> HIDE DEF k
    <3> QED BY <2>1, <3>1, FS_Surjection, Zenon
  <2>3. IdsOf(G \cup {f}) = I \cup {f.id} /\ f.id \notin I
    BY <1>2 DEF IdsOf
  <2>4. \A i \in I \cup {f.id} : h[i] \in Int
    BY <1>0 DEF IdsOf
  <2>5. SumFunctionOnSet(h, I) = TotalOf(G)
    BY <1>2
  <2> HIDE DEF I
  <2>6. SumFunctionOnSet(h, I \cup {f.id}) = h[f.id] + SumFunctionOnSet(h, I)
    BY <2>2, <2>3, <2>4, SumAdd
  <2>7. TotalOf(G) \in Nat /\ TotalOf(G \cup {f}) = TotalOf(G) + f.filled
    BY <1>2, <2>1, TotalMore DEF TotalMoreBy
  <2>8. h[f.id] = f.filled /\ f.filled \in Nat
    BY <1>0
  <2>9. SumFunctionOnSet(h, I \cup {f.id}) = TotalOf(G \cup {f})
    BY <2>5, <2>6, <2>7, <2>8
  <2> QED BY <2>3, <2>9
<1>3. F \in T
  <2> HIDE DEF T
  <2> QED BY <1>1, <1>2, OneByOne
<1> QED BY <1>3

\* What is filled of the orders of a side of a market.
QtyFilled(ws) == [i \in DOMAIN ws |-> FillQty(ws, i)]
FilledOn(ws, m, side) == SumFunctionOnSet(QtyFilled(ws), OneSide(ws, m, side))

LEMMA SideIsFinite ==
  ASSUME NEW n \in Nat, NEW ws, IsStore(markets, n, ws), NEW m, NEW side
  PROVE  /\ IsFiniteSet(OneSide(ws, m, side)) /\ OneSide(ws, m, side) \subseteq DOMAIN ws
         /\ \A i \in DOMAIN ws : QtyFilled(ws)[i] \in Nat
<1> DEFINE S == OneSide(ws, m, side)
<1>1. S \in SUBSET (0 .. n) /\ S \subseteq DOMAIN ws
  BY DEF OneSide, IsStore
<1>2. \A i \in DOMAIN ws : QtyFilled(ws)[i] \in Nat
  BY FillsAreFair DEF Fair, QtyFilled
<1> HIDE DEF S
<1>3. IsFiniteSet(S)
  BY <1>1, FiniteUpTo, Zenon
<1> QED BY <1>1, <1>2, <1>3 DEF S

LEMMA FilledOnSide ==
  ASSUME NEW n \in Nat, NEW ws, IsStore(markets, n, ws), NEW m \in Matching(ws), NEW side,
         NEW X, NEW Y, FillsIn(ws, m) = X \cup Y, IsFiniteSet(X), X \subseteq Fillings,
         \A f, g \in X \cup Y : f.id = g.id => f = g,
         \A f \in X : f.id \in OneSide(ws, m, side),
         \A f \in Y : f.id \notin OneSide(ws, m, side)
  PROVE  FilledOn(ws, m, side) = TotalOf(X)
<1> DEFINE S == OneSide(ws, m, side)
           h == QtyFilled(ws)
           F == FillsIn(ws, m)
<1>1. IsFiniteSet(S) /\ S \subseteq DOMAIN ws /\ \A i \in DOMAIN ws : h[i] \in Nat
  BY SideIsFinite
<1>2. \A i \in S : h[i] = IF \E f \in F : f.id = i THEN (CHOOSE f \in F : f.id = i).filled ELSE 0
  BY <1>1 DEF OneSide, FillQty, QtyFilled
<1>3. IdsOf(X) \subseteq S
  BY DEF IdsOf
<1> HIDE DEF h, S, F
<1>4. ASSUME NEW g \in X PROVE h[g.id] = g.filled
  <2>1. g \in F /\ \A f \in F : f.id = g.id => f = g
    BY DEF F
  <2>2. (CHOOSE f \in F : f.id = g.id) = g
    BY <2>1
  <2>3. g.id \in S
    BY DEF S
  <2> QED BY <1>2, <2>1, <2>2, <2>3
<1>5. ASSUME NEW i \in S \ IdsOf(X) PROVE h[i] = 0
  <2>1. \A f \in F : f.id # i
    BY DEF F, IdsOf, S
  <2> QED BY <1>2, <2>1
<1>6. SumFunctionOnSet(h, S) = SumFunctionOnSet(h, IdsOf(X))
  <2>1. \A i \in IdsOf(X) : h[i] \in Int
    BY <1>1, <1>3
  <2> QED BY <1>1, <1>3, <1>5, <2>1, SumOver
<1>7. SumFunctionOnSet(h, IdsOf(X)) = TotalOf(X)
  BY <1>4, TotalById
<1> QED BY <1>6, <1>7, Zenon DEF FilledOn, h, S

\* What is open, which a match never exceeds.
OpenIn(ws) == SumFunctionOnSet(QtyOf(ws), DOMAIN ws)

LEMMA TradesAreOpen ==
  ASSUME NEW n \in Nat, NEW ws, IsStore(markets, n, ws), NEW m, NEW e,
         EntryIs(e, QtyOf(ws), SideOf(ws, m, "bid"), SideOf(ws, m, "ask"))
  PROVE  OpenIn(ws) \in Nat /\ e.supply + e.demand <= OpenIn(ws)
<1> DEFINE w == QtyOf(ws)
           D == DOMAIN ws
           S == IdsOf(Cheap(SideOf(ws, m, "ask"), e.price))
           T == IdsOf(Dear(SideOf(ws, m, "bid"), e.price))
<1>1. e.supply = SumFunctionOnSet(w, S) /\ e.demand = SumFunctionOnSet(w, T)
  BY Zenon DEF EntryIs, Quantity
<1>2. S \subseteq OneSide(ws, m, "ask") /\ T \subseteq OneSide(ws, m, "bid")
  BY DEF IdsOf, Cheap, Dear, SideOf, OfferOf
<1>3. S \cup T \in SUBSET D /\ S \in SUBSET D /\ T \in SUBSET D /\ S \cap T = {}
  BY <1>2 DEF OneSide
<1>4. \A i \in D : w[i] \in Nat
  BY DEF IsStore, OrderIn, QtyOf
<1>5. IsFiniteSet(D)
  <2>1. D \in SUBSET (0 .. n)
    BY DEF IsStore
  <2> HIDE DEF D
  <2> QED BY <2>1, FiniteUpTo, Zenon
<1> HIDE DEF w, D, S, T
<1>6. IsFiniteSet(S) /\ IsFiniteSet(T)
  BY <1>3, <1>5, FS_Subset
<1>7. SumFunctionOnSet(w, S \cup T) = SumFunctionOnSet(w, S) + SumFunctionOnSet(w, T)
  <2>1. \A i \in S \cup T : w[i] \in Int
    BY <1>3, <1>4
  <2> QED BY <1>3, <1>6, <2>1, SumUnion
<1>8. SumFunctionOnSet(w, S \cup T) <= SumFunctionOnSet(w, D)
  <2>1. \A i \in S \cup T : w[i] \in Nat /\ w[i] <= w[i]
    BY <1>3, <1>4
  <2> QED BY <1>3, <1>4, <1>5, <2>1, SumUpTo
<1>9. SumFunctionOnSet(w, D) \in Nat
  BY <1>4, <1>5, SumNat
<1>10. OpenIn(ws) = SumFunctionOnSet(w, D)
  BY DEF OpenIn, w, D
<1> QED BY <1>1, <1>7, <1>8, <1>9, <1>10

\* While less than half of the precision is open, both sides trade as much.
LEMMA MarketBalances ==
  ASSUME NEW n \in Nat, NEW ws, IsStore(markets, n, ws), 2 * OpenIn(ws) < Precision, NEW m
  PROVE  FilledOn(ws, m, "bid") = FilledOn(ws, m, "ask")
<1>1. CASE m \in Matching(ws)
  <2>1. PICK e, ratio, x, y : IsMarketMatch(ws, m, e, ratio, x, y)
    BY <1>1, MarketMatchIs
  <2> DEFINE w == QtyOf(ws)
             B == SideOf(ws, m, "bid")
             A == SideOf(ws, m, "ask")
             r == Match(BookOf(ws, m, "bid"), BookOf(ws, m, "ask"))
  <2>2. /\ r.fills = IF ratio = 0 THEN <<>> ELSE x \o y
        /\ e.supply \in Nat \ {0} /\ e.demand \in Nat \ {0}
        /\ EntryIs(e, w, B, A) /\ Sides(e, ratio, x, y, w, B, A)
    BY <2>1 DEF IsMarketMatch, IsMatchAt
  <2>3. OpenIn(ws) \in Nat /\ e.supply + e.demand <= OpenIn(ws)
    BY <2>2, TradesAreOpen
  <2>4. SideBySide(ws, m, e.price, x, y)
    BY <2>1, MarketFillsAre
  <2>5. FillsIn(ws, m) = Given(r.fills)
    BY DEF FillsIn
  <2> HIDE DEF w, B, A, r
  <2>6. 2 * (e.supply + e.demand) < Precision
    BY <2>2, <2>3, PrecisionAssumption
  <2>7. ratio # 0 /\ Balances(e, x, y)
    BY <2>2, <2>6, SidesBalance
  <2>8. /\ x \in Seq(Fillings) /\ y \in Seq(Fillings)
        /\ x \o y \in Seq(Fillings)
        /\ Given(x \o y) = Given(x) \cup Given(y)
        /\ \A k, l \in 1 .. Len(x \o y) : k # l => (x \o y)[k].id # (x \o y)[l].id
    BY <2>2, <2>4 DEF Sides, SideFills, SideBySide, Apart
  <2>9. FillsIn(ws, m) = Given(x) \cup Given(y)
    BY <2>2, <2>5, <2>7, <2>8
  <2> DEFINE X == Given(x)
             Y == Given(y)
             z == x \o y
  <2>10. \A f, g \in X \cup Y : f.id = g.id => f = g
    <3>1. \A f, g \in Given(z) : f.id = g.id => f = g
      <4> HIDE DEF z
      <4> QED BY <2>8 DEF Given, z
    <3> QED BY <2>8, <3>1
  <2>11. IsFiniteSet(X) /\ IsFiniteSet(Y) /\ X \subseteq Fillings /\ Y \subseteq Fillings
    <3>1. IsFiniteSet(Given(x)) /\ IsFiniteSet(Given(y))
      BY <2>8, GivenFinite
    <3>2. Given(x) \subseteq Fillings /\ Given(y) \subseteq Fillings
      BY <2>8 DEF Given
    <3> QED BY <3>1, <3>2
  <2>12. /\ \A f \in X : f.id \in OneSide(ws, m, "bid")
         /\ \A f \in Y : f.id \in OneSide(ws, m, "ask")
    BY <2>4 DEF SideBySide, Honours
  <2> HIDE DEF X, Y, z
  <2>13. /\ \A f \in X : f.id \notin OneSide(ws, m, "ask")
         /\ \A f \in Y : f.id \notin OneSide(ws, m, "bid")
    BY <2>12 DEF OneSide
  <2>14. FillsIn(ws, m) = X \cup Y /\ FillsIn(ws, m) = Y \cup X
    BY <2>9 DEF X, Y
  <2>15. FilledOn(ws, m, "bid") = TotalOf(X)
    BY <1>1, <2>10, <2>11, <2>12, <2>13, <2>14, FilledOnSide
  <2>16. FilledOn(ws, m, "ask") = TotalOf(Y)
    BY <1>1, <2>10, <2>11, <2>12, <2>13, <2>14, FilledOnSide
  <2> QED BY <2>7, <2>15, <2>16 DEF Balances, X, Y
<1>2. CASE m \notin Matching(ws)
  <2>1. ASSUME NEW side PROVE FilledOn(ws, m, side) = 0
    <3> DEFINE S == OneSide(ws, m, side)
               h == QtyFilled(ws)
    <3>1. IsFiniteSet(S) /\ S \subseteq DOMAIN ws
      BY SideIsFinite
    <3>2. \A i \in S : h[i] = 0
      BY <1>2, <3>1 DEF OneSide, QtyFilled, FillQty
    <3> HIDE DEF S, h
    <3>3. SumFunctionOnSet(h, S) = 0
      BY <3>1, <3>2, SumZero
    <3> QED BY <3>3 DEF FilledOn, S, h
  <2> QED BY <2>1
<1> QED BY <1>1, <1>2

-----------------------------------------------------------------------------
(***************************************************************************)
(* Coins change hands.                                                     *)
(***************************************************************************)

\* What an order buys, or sells, counted against each other.
Net(ws) ==
  [i \in DOMAIN ws |-> IF ws[i].direction = "bid" THEN FillQty(ws, i) ELSE 0 - FillQty(ws, i)]

\* In a market that balances nothing remains.
LEMMA NetOfMarket ==
  ASSUME NEW n \in Nat, NEW ws, IsStore(markets, n, ws),
         NEW m, FilledOn(ws, m, "bid") = FilledOn(ws, m, "ask")
  PROVE  SumFunctionOnSet(Net(ws), OfMarkets(ws, {m})) = 0
<1> DEFINE B == OneSide(ws, m, "bid")
           A == OneSide(ws, m, "ask")
           f == Net(ws)
           h == QtyFilled(ws)
           zero == [i \in DOMAIN ws |-> 0]
<1>1. /\ IsFiniteSet(B) /\ IsFiniteSet(A) /\ B \subseteq DOMAIN ws /\ A \subseteq DOMAIN ws
      /\ \A i \in DOMAIN ws : h[i] \in Nat
  BY SideIsFinite
<1>2. B \cup A = OfMarkets(ws, {m}) /\ B \cap A = {}
  <2>1. \A i \in DOMAIN ws : ws[i].direction \in Directions
    BY DEF IsStore, OrderIn
  <2> QED BY <2>1 DEF OneSide, OfMarkets, Directions
<1>3. \A i \in B : f[i] = h[i]
  BY <1>1 DEF OneSide, Net, QtyFilled
<1>4. \A i \in A : f[i] = 0 - h[i]
  BY <1>1 DEF OneSide, Net, QtyFilled
<1>5. \A i \in A : zero[i] = 0
  BY <1>1
<1>6. FilledOn(ws, m, "bid") = SumFunctionOnSet(h, B) /\ FilledOn(ws, m, "ask") = SumFunctionOnSet(h, A)
  BY DEF FilledOn
<1> HIDE DEF A, B, f, h, zero
<1>7. SumFunctionOnSet(f, B) = SumFunctionOnSet(h, B)
  BY <1>1, <1>3, SumSame
<1>8. SumFunctionOnSet(zero, A) = SumFunctionOnSet(f, A) + SumFunctionOnSet(h, A)
  <2>1. \A i \in A : f[i] \in Int /\ h[i] \in Int /\ zero[i] = f[i] + h[i]
    BY <1>1, <1>4, <1>5
  <2> QED BY <1>1, <2>1, SumBoth
<1>9. SumFunctionOnSet(zero, A) = 0
  BY <1>1, <1>5, SumZero
<1>10. SumFunctionOnSet(f, B \cup A) = SumFunctionOnSet(f, B) + SumFunctionOnSet(f, A)
  <2>1. \A i \in B \cup A : f[i] \in Int
    BY <1>1, <1>3, <1>4
  <2> QED BY <1>1, <1>2, <2>1, SumUnion
<1>11. /\ SumFunctionOnSet(h, B) \in Int /\ SumFunctionOnSet(h, A) \in Int
       /\ SumFunctionOnSet(f, A) \in Int
  <2>1. (\A i \in B : h[i] \in Int) /\ \A i \in A : h[i] \in Int /\ f[i] \in Int
    BY <1>1, <1>4
  <2> QED BY <1>1, <2>1, SumInt
<1>12. SumFunctionOnSet(f, B \cup A) = 0
  BY <1>6, <1>7, <1>8, <1>9, <1>10, <1>11
<1> QED BY <1>2, <1>12 DEF f

\* Nor does anything when each market counts with a weight of its own.
LEMMA NetIsNothing ==
  ASSUME markets \in MarketSeqs, NEW n \in Nat, NEW ws, IsStore(markets, n, ws),
         2 * OpenIn(ws) < Precision,
         NEW w, \A m \in DOMAIN markets : w[m] \in Int,
         NEW g, \A i \in DOMAIN ws : g[i] = w[ws[i].market] * Net(ws)[i]
  PROVE  /\ \A i \in DOMAIN ws : g[i] \in Int /\ Net(ws)[i] \in Int
         /\ SumFunctionOnSet(g, DOMAIN ws) = 0
<1> DEFINE f == Net(ws)
           D == DOMAIN ws
           M == DOMAIN markets
           T == {Q \in SUBSET M : SumFunctionOnSet(g, OfMarkets(ws, Q)) = 0}
<1>1. \A i \in D : ws[i].market \in M /\ f[i] \in Int
  <2>1. \A i \in D : ws[i].market \in M /\ FillQty(ws, i) \in Nat
    BY FillsAreFair DEF Fair, IsStore, OrderIn
  <2> QED BY <2>1 DEF Net
<1>2. \A i \in D : g[i] \in Int
  <2> SUFFICES ASSUME NEW i \in D PROVE g[i] \in Int
    OBVIOUS
  <2> DEFINE a == w[ws[i].market]
             b == f[i]
  <2>1. a \in Int /\ b \in Int /\ g[i] = a * b
    BY <1>1
  <2> HIDE DEF a, b
  <2> QED BY <2>1
<1>3. IsFiniteSet(D) /\ IsFiniteSet(M)
  <2>1. D \in SUBSET (0 .. n) /\ M \in SUBSET (0 .. Len(markets)) /\ Len(markets) \in Nat
    BY DEF IsStore, MarketSeqs
  <2> HIDE DEF D, M
  <2> QED BY <2>1, FiniteUpTo, Zenon
<1>4. {} \in T
  <2>1. OfMarkets(ws, {}) = {}
    BY DEF OfMarkets
  <2> QED BY <2>1, SumEmpty
<1>5. ASSUME NEW Q \in SUBSET M, NEW m \in M, Q \in T, m \notin Q
      PROVE  Q \cup {m} \in T
  <2> DEFINE X == OfMarkets(ws, Q)
             Y == OfMarkets(ws, {m})
  <2>1. X \cup Y = OfMarkets(ws, Q \cup {m}) /\ X \cap Y = {} /\ X \subseteq D /\ Y \subseteq D
    BY <1>5 DEF OfMarkets
  <2>2. \A i \in Y : ws[i].market = m
    BY DEF OfMarkets
  <2>3. SumFunctionOnSet(f, Y) = 0
    BY MarketBalances, NetOfMarket
  <2>4. SumFunctionOnSet(g, X) = 0
    BY <1>5
  <2> HIDE DEF X, Y, f, D, M
  <2>5. IsFiniteSet(X) /\ IsFiniteSet(Y)
    BY <1>3, <2>1, FS_Subset
  <2>6. SumFunctionOnSet(g, Y) = w[m] * SumFunctionOnSet(f, Y)
    <3>1. w[m] \in Int
      BY DEF M
    <3>2. \A i \in Y : f[i] \in Int /\ g[i] = w[m] * f[i]
      BY <1>1, <2>1, <2>2 DEF f, D
    <3> DEFINE k == w[m]
    <3> HIDE DEF k
    <3>3. k \in Int /\ \A i \in Y : f[i] \in Int /\ g[i] = k * f[i]
      BY <3>1, <3>2 DEF k
    <3>4. SumFunctionOnSet(g, Y) = k * SumFunctionOnSet(f, Y)
      BY <2>5, <3>3, SumTimes
    <3> QED BY <3>4 DEF k
  <2>7. SumFunctionOnSet(g, X \cup Y) = SumFunctionOnSet(g, X) + SumFunctionOnSet(g, Y)
    <3>1. \A i \in X \cup Y : g[i] \in Int
      BY <1>2, <2>1
    <3> QED BY <2>1, <2>5, <3>1, SumUnion
  <2>8. w[m] * 0 = 0
    BY DEF M
  <2>9. SumFunctionOnSet(g, X \cup Y) = 0
    BY <2>3, <2>4, <2>6, <2>7, <2>8
  <2> QED BY <2>1, <2>9
<1>6. M \in T
  <2> HIDE DEF T
  <2> QED BY <1>3, <1>4, <1>5, OneByOne
<1>7. OfMarkets(ws, M) = D
  BY <1>1 DEF OfMarkets
<1> QED BY <1>1, <1>2, <1>6, <1>7

\* What a fill changes in the quote coin of its market, but for rounding.
QuoteFor(o, p, n) == IF o.direction = "bid" THEN 0 - BidCost(o, p, n) ELSE NormalizeQuote(p, n)
NetOf(o, n)       == IF o.direction = "bid" THEN n ELSE 0 - n

LEMMA ChangeSplits ==
  ASSUME NEW o \in OrderIn(markets), NEW p \in Nat, NEW n \in Nat, n <= o.qty, NEW d
  PROVE  /\ QuoteFor(o, p, n) \in Int /\ NetOf(o, n) \in Int
         /\ ChangeFor(o, p, n, d) = InCoin(d, markets[o.market].base, NetOf(o, n))
                                      + InCoin(d, markets[o.market].quote, QuoteFor(o, p, n))
<1> DEFINE base == markets[o.market].base
           quote == markets[o.market].quote
           q == o.qty
           x == NormalizeQuote(o.price, q - n)
           y == NormalizeQuote(o.price, q)
           r == RefundOf(o, p, n)
           v == NormalizeQuote(p, n)
<1>1. q \in Nat /\ q - n \in Nat /\ o.direction \in {"bid", "ask"} /\ o.price \in Nat
  BY DEF OrderIn, Directions
<1>2. x \in Nat /\ y \in Nat /\ v \in Nat /\ r \in Nat /\ BidCost(o, p, n) = y - x - r
  <2>1. q <= q /\ q - n <= q - n /\ n <= n
    BY <1>1
  <2> QED BY <1>1, <2>1, NormalizeUpTo, RefundIs DEF BidCost
<1>3. CASE o.direction = "bid"
  <2>1. QuoteFor(o, p, n) = 0 - BidCost(o, p, n) /\ NetOf(o, n) = n
    BY <1>3 DEF QuoteFor, NetOf
  <2>2. ChangeFor(o, p, n, d) = InCoin(d, base, n) + InCoin(d, quote, r) + InCoin(d, quote, x) - InCoin(d, quote, y)
    BY <1>3 DEF ChangeFor, PaidFor, StakeFor
  <2> HIDE DEF x, y, r, v, q, base, quote
  <2>3. 0 - BidCost(o, p, n) = r + x - y
    BY <1>2
  <2>4. InCoin(d, base, n) + InCoin(d, quote, r) + InCoin(d, quote, x) - InCoin(d, quote, y)
          = InCoin(d, base, n) + InCoin(d, quote, r + x - y)
    BY <1>2 DEF InCoin
  <2>5. r + x - y \in Int
    BY <1>2
  <2>6. QuoteFor(o, p, n) = r + x - y
    BY <2>1, <2>3
  <2>7. ChangeFor(o, p, n, d) = InCoin(d, base, NetOf(o, n)) + InCoin(d, quote, QuoteFor(o, p, n))
    BY <2>1, <2>2, <2>4, <2>6, Zenon
  <2> QED BY <2>1, <2>5, <2>6, <2>7 DEF base, quote
<1>4. CASE o.direction = "ask"
  <2>1. QuoteFor(o, p, n) = v /\ NetOf(o, n) = 0 - n
    BY <1>4 DEF QuoteFor, NetOf
  <2>2. ChangeFor(o, p, n, d) = InCoin(d, quote, v) + InCoin(d, base, q - n) - InCoin(d, base, q)
    BY <1>4 DEF ChangeFor, PaidFor, StakeFor
  <2> HIDE DEF x, y, r, v, q, base, quote
  <2>3. InCoin(d, quote, v) + InCoin(d, base, q - n) - InCoin(d, base, q)
          = InCoin(d, base, 0 - n) + InCoin(d, quote, v)
    BY <1>1, <1>2 DEF InCoin
  <2>4. 0 - n \in Int /\ v \in Int
    BY <1>2
  <2>5. ChangeFor(o, p, n, d) = InCoin(d, base, NetOf(o, n)) + InCoin(d, quote, QuoteFor(o, p, n))
    BY <2>1, <2>2, <2>3, Zenon
  <2> QED BY <2>1, <2>4, <2>5 DEF base, quote
<1> QED BY <1>1, <1>3, <1>4

\* Rounding gives away less than a unit to a bid, and nothing to an ask.
Slack(o) == IF o.direction = "bid" THEN Divisor - 1 ELSE 0

\* A bid that gets n at no more than its limit.
LEMMA BidRounds ==
  ASSUME NEW o \in OrderIn(markets), o.direction = "bid",
         NEW p \in Nat, p <= o.price, NEW n \in Nat, n <= o.qty
  PROVE  /\ QuoteFor(o, p, n) \in Int /\ p * n \in Nat
         /\ Divisor * QuoteFor(o, p, n) <= Divisor - 1 - p * n
<1> DEFINE q == o.qty
           limit == o.price
           a == limit * (q - n)
           b == (limit - p) * n
           c == p * n
           f == (a + b + c) \div Divisor
           g == a \div Divisor
           h == b \div Divisor
<1>0. Divisor \in Nat \ {0}
  BY ExchangeAssumption
<1>1. limit \in Nat /\ limit - p \in Nat /\ q \in Nat /\ q - n \in Nat
  BY DEF OrderIn
<1>2. a \in Nat /\ b \in Nat /\ c \in Nat
  BY <1>1
<1>3. limit * q = a + b + c
  <2>1. /\ limit * (q - n) = limit * q - limit * n
        /\ (limit - p) * n = limit * n - p * n
        /\ limit * q \in Int /\ limit * n \in Int /\ p * n \in Int
    BY <1>1
  <2> QED BY <2>1
<1>4. NormalizeQuote(limit, q) = f /\ NormalizeQuote(limit, q - n) = g
  BY <1>3 DEF NormalizeQuote
<1>5. RefundOf(o, p, n) = h
  <2>1. CASE p < limit
    BY <2>1 DEF RefundOf, NormalizeQuote
  <2>2. CASE ~ (p < limit)
    <3>1. limit - p = 0
      BY <1>1, <2>2
    <3>2. b = 0
      BY <3>1
    <3> HIDE DEF b
    <3>3. h = 0
      BY <1>0, <3>2
    <3>4. RefundOf(o, p, n) = 0
      BY <2>2 DEF RefundOf
    <3> QED BY <3>3, <3>4
  <2> QED BY <2>1, <2>2
<1>6. QuoteFor(o, p, n) = 0 - (f - g - h)
  BY <1>4, <1>5 DEF QuoteFor, BidCost
<1>7. f \in Nat /\ g \in Nat /\ h \in Nat
      /\ a + b + c < Divisor * f + Divisor /\ Divisor * g <= a /\ Divisor * h <= b
  <2> HIDE DEF a, b, c
  <2>1. a + b + c \in Nat
    BY <1>2
  <2> QED BY <1>0, <1>2, <2>1, Quotient
<1> HIDE DEF a, b, f, g, h, q, limit
<1>8. /\ Divisor * (0 - (f - g - h)) = Divisor * g + Divisor * h - Divisor * f
      /\ Divisor * f \in Int /\ Divisor * g \in Int /\ Divisor * h \in Int
  BY <1>0, <1>7
<1> HIDE DEF c
<1>9. Divisor * g + Divisor * h - Divisor * f <= Divisor - 1 - c
  BY <1>0, <1>2, <1>7, <1>8
<1>10. Divisor * QuoteFor(o, p, n) <= Divisor - 1 - c /\ QuoteFor(o, p, n) \in Int
  BY <1>6, <1>7, <1>8, <1>9
<1> QED BY <1>2, <1>10 DEF c

\* A bid that gets nothing pays nothing.
LEMMA BidIdles ==
  ASSUME NEW o \in OrderIn(markets), NEW p \in Nat, o.direction = "bid"
  PROVE  QuoteFor(o, p, 0) = 0 /\ NetOf(o, 0) = 0
<1> DEFINE y == NormalizeQuote(o.price, o.qty)
<1>1. o.qty \in Nat /\ o.price \in Nat
  BY DEF OrderIn
<1>2. y \in Nat
  <2>1. o.qty <= o.qty
    BY <1>1
  <2> QED BY <1>1, <2>1, NormalizeUpTo
<1>3. RefundOf(o, p, 0) = 0
  BY <1>1, RefundIs
<1>4. BidCost(o, p, 0) = y - y - RefundOf(o, p, 0)
  <2>1. o.qty - 0 = o.qty
    BY <1>1
  <2> QED BY <2>1, Zenon DEF BidCost
<1>5. BidCost(o, p, 0) = 0
  <2> HIDE DEF y
  <2> QED BY <1>2, <1>3, <1>4
<1> QED BY <1>5 DEF QuoteFor, NetOf

\* An ask that gives n.
LEMMA AskRounds ==
  ASSUME NEW o, o.direction = "ask", NEW p \in Nat, NEW n \in Nat
  PROVE  /\ QuoteFor(o, p, n) \in Int /\ p * n \in Nat
         /\ p * NetOf(o, n) = 0 - p * n
         /\ Divisor * QuoteFor(o, p, n) <= p * n
<1> DEFINE c == p * n
           f == c \div Divisor
<1>0. Divisor \in Nat \ {0}
  BY ExchangeAssumption
<1>1. c \in Nat
  OBVIOUS
<1>2. QuoteFor(o, p, n) = f /\ NetOf(o, n) = 0 - n
  BY DEF QuoteFor, NetOf, NormalizeQuote
<1>3. f \in Nat /\ Divisor * f <= c
  <2> HIDE DEF c
  <2> QED BY <1>0, <1>1, Quotient
<1>4. p * (0 - n) = 0 - c
  OBVIOUS
<1> QED BY <1>1, <1>2, <1>3, <1>4

LEMMA QuoteRounds ==
  ASSUME NEW o \in OrderIn(markets), NEW p \in Nat, NEW n \in Nat, n <= o.qty,
         n # 0 /\ o.direction = "bid" => p <= o.price
  PROVE  /\ QuoteFor(o, p, n) \in Int /\ p * NetOf(o, n) \in Int
         /\ Divisor * QuoteFor(o, p, n) <= Slack(o) - p * NetOf(o, n)
<1>0. Divisor \in Nat \ {0} /\ o.direction \in {"bid", "ask"}
  BY ExchangeAssumption DEF OrderIn, Directions
<1>1. CASE o.direction = "bid" /\ n = 0
  <2>1. QuoteFor(o, p, n) = 0 /\ NetOf(o, n) = 0 /\ Slack(o) = Divisor - 1
    BY <1>1, BidIdles DEF Slack
  <2> QED BY <1>0, <2>1
<1>2. CASE o.direction = "bid" /\ n # 0
  <2> DEFINE x == QuoteFor(o, p, n)
             c == p * n
  <2>1. x \in Int /\ c \in Nat /\ Divisor * x <= Divisor - 1 - c
    BY <1>2, BidRounds
  <2>2. p * NetOf(o, n) = c /\ Slack(o) = Divisor - 1
    BY <1>2 DEF NetOf, Slack
  <2> HIDE DEF x, c
  <2>3. p * NetOf(o, n) \in Int /\ Divisor * x <= Slack(o) - p * NetOf(o, n)
    BY <2>1, <2>2
  <2> QED BY <2>1, <2>3 DEF x
<1>3. CASE o.direction = "ask"
  <2> DEFINE x == QuoteFor(o, p, n)
             c == p * n
  <2>1. x \in Int /\ c \in Nat /\ p * NetOf(o, n) = 0 - c /\ Divisor * x <= c
    BY <1>3, AskRounds
  <2>2. Slack(o) = 0
    BY <1>3 DEF Slack
  <2> HIDE DEF x, c
  <2>3. Divisor * x \in Int
    BY <1>0, <2>1
  <2>4. p * NetOf(o, n) \in Int /\ Divisor * x <= Slack(o) - p * NetOf(o, n)
    BY <2>1, <2>2, <2>3
  <2> QED BY <2>1, <2>4 DEF x
<1> QED BY <1>0, <1>1, <1>2, <1>3

\* The bids of a store.
BidsOf(ws) == {i \in DOMAIN ws : ws[i].direction = "bid"}

\* What all the orders change of d, whoever owns them.
ChangeAll(ws, os, d) ==
  [i \in DOMAIN ws |-> ChangeFor(ws[i], PriceOf(ws, ws[i].market), TradedIn(ws, os, i), d)]

\* An order changes a base coin by what it trades, and a quote coin by what that costs.
BaseFor(ws, d)  ==
  [i \in DOMAIN ws |-> InCoin(d, markets[ws[i].market].base, NetOf(ws[i], FillQty(ws, i)))]
QuotesFor(ws, d) ==
  [i \in DOMAIN ws |-> InCoin(d, markets[ws[i].market].quote,
                              QuoteFor(ws[i], PriceOf(ws, ws[i].market), FillQty(ws, i)))]

LEMMA ChangesSplit ==
  ASSUME markets \in MarketSeqs, NEW n \in Nat, NEW ws, IsStore(markets, n, ws),
         NEW os, StillOpen(os, ws, DOMAIN ws), AsFilled(ws, os, DOMAIN ws), NEW d, NEW i \in DOMAIN ws
  PROVE  /\ ChangeAll(ws, os, d)[i] = BaseFor(ws, d)[i] + QuotesFor(ws, d)[i]
         /\ BaseFor(ws, d)[i] \in Int /\ QuotesFor(ws, d)[i] \in Int
<1> DEFINE o == ws[i]
           p == PriceOf(ws, o.market)
           k == FillQty(ws, i)
<1>1. o \in OrderIn(markets) /\ p \in Nat /\ k \in Nat /\ k <= o.qty /\ TradedIn(ws, os, i) = k
  <2>1. Fair(ws, i) /\ o \in OrderIn(markets) /\ p \in Nat
    BY FillsAreFair, PriceIsNat DEF IsStore
  <2> QED BY <2>1, TradedIsNat DEF Fair, AsFilled
<1> DEFINE x == QuoteFor(o, p, k)
           y == NetOf(o, k)
<1>2. /\ x \in Int /\ y \in Int
      /\ ChangeFor(o, p, k, d) = InCoin(d, markets[o.market].base, y) + InCoin(d, markets[o.market].quote, x)
  <2> HIDE DEF o, p, k
  <2> QED BY <1>1, ChangeSplits
<1>3. BaseFor(ws, d)[i] = InCoin(d, markets[o.market].base, y)
      /\ QuotesFor(ws, d)[i] = InCoin(d, markets[o.market].quote, x)
  BY DEF BaseFor, QuotesFor
<1>4. ChangeAll(ws, os, d)[i] = ChangeFor(o, p, k, d)
  BY <1>1 DEF ChangeAll
<1> HIDE DEF o, p, k, x, y
<1>5. InCoin(d, markets[o.market].base, y) \in Int /\ InCoin(d, markets[o.market].quote, x) \in Int
  BY <1>2 DEF InCoin
<1> QED BY <1>2, <1>3, <1>4, <1>5

\* The base coins that change hands add up to nothing.
LEMMA BaseIsKept ==
  ASSUME markets \in MarketSeqs, NEW n \in Nat, NEW ws, IsStore(markets, n, ws),
         2 * OpenIn(ws) < Precision, NEW d
  PROVE  SumFunctionOnSet(BaseFor(ws, d), DOMAIN ws) = 0
<1> DEFINE w == [m \in DOMAIN markets |-> IF d = markets[m].base THEN 1 ELSE 0]
           g == BaseFor(ws, d)
<1>1. \A m \in DOMAIN markets : w[m] \in Int
  OBVIOUS
<1>2. ASSUME NEW i \in DOMAIN ws PROVE g[i] = w[ws[i].market] * Net(ws)[i]
  <2> DEFINE o == ws[i]
             k == FillQty(ws, i)
             y == NetOf(o, k)
  <2>1. k \in Nat /\ o.market \in DOMAIN markets
    BY FillsAreFair DEF Fair, IsStore, OrderIn
  <2>2. Net(ws)[i] = y
    BY DEF Net, NetOf
  <2>3. y \in Int
    <3> HIDE DEF k, o
    <3> QED BY <2>1 DEF NetOf
  <2>4. g[i] = IF d = markets[o.market].base THEN y ELSE 0
    BY DEF BaseFor, InCoin
  <2>5. w[o.market] = IF d = markets[o.market].base THEN 1 ELSE 0
    BY <2>1
  <2> HIDE DEF o, k, y, w, g
  <2>6. g[i] = w[o.market] * y
    BY <2>3, <2>4, <2>5
  <2> QED BY <2>2, <2>6 DEF o
<1> HIDE DEF w, g
<1>3. SumFunctionOnSet(g, DOMAIN ws) = 0
  BY <1>1, <1>2, NetIsNothing
<1> QED BY <1>3 DEF g

\* A coin that is no quote of a market pays for nothing.
LEMMA NoQuoteNoCost ==
  ASSUME NEW n \in Nat, NEW ws, IsStore(markets, n, ws), NEW d, d \notin QuoteDenoms
  PROVE  SumFunctionOnSet(QuotesFor(ws, d), DOMAIN ws) = 0
<1> DEFINE D == DOMAIN ws
           f == QuotesFor(ws, d)
<1>1. IsFiniteSet(D)
  <2>1. D \in SUBSET (0 .. n)
    BY DEF IsStore
  <2> HIDE DEF D
  <2> QED BY <2>1, FiniteUpTo, Zenon
<1>2. ASSUME NEW i \in D PROVE f[i] = 0
  <2>1. ws[i].market \in DOMAIN markets
    BY DEF IsStore, OrderIn
  <2>2. d # markets[ws[i].market].quote
    BY <2>1 DEF QuoteDenoms
  <2> QED BY <2>2 DEF QuotesFor, InCoin
<1> HIDE DEF D, f
<1>3. SumFunctionOnSet(f, D) = 0
  BY <1>1, <1>2, SumZero
<1> QED BY <1>3 DEF D, f

\* All the slack that rounding leaves.
SlackOf(ws) == [i \in DOMAIN ws |-> Slack(ws[i])]

LEMMA SlackIs ==
  ASSUME NEW n \in Nat, NEW ws, IsStore(markets, n, ws)
  PROVE  /\ SumFunctionOnSet(SlackOf(ws), DOMAIN ws) = (Divisor - 1) * Cardinality(BidsOf(ws))
         /\ \A i \in DOMAIN ws : SlackOf(ws)[i] \in Nat
<1> DEFINE D == DOMAIN ws
           c == Divisor - 1
           T == BidsOf(ws)
           f == SlackOf(ws)
<1>1. c \in Nat
  BY ExchangeAssumption
<1>2. T \in SUBSET D
  BY DEF BidsOf
<1>3. \A i \in D : f[i] = IF i \in T THEN c ELSE 0
  BY DEF BidsOf, SlackOf, Slack
<1>4. IsFiniteSet(D)
  <2>1. D \in SUBSET (0 .. n)
    BY DEF IsStore
  <2> HIDE DEF D
  <2> QED BY <2>1, FiniteUpTo, Zenon
<1> HIDE DEF D, c, T, f
<1>5. SumFunctionOnSet(f, D) = c * Cardinality(T)
  BY <1>1, <1>2, <1>3, <1>4, SumConstant
<1>6. \A i \in D : f[i] \in Nat
  BY <1>1, <1>3
<1> QED BY <1>5, <1>6 DEF D, c, T, f

\* The quote coins that change hands add up to no more than the slack.
LEMMA QuotesGrowBySlack ==
  ASSUME markets \in MarketSeqs, NEW n \in Nat, NEW ws, IsStore(markets, n, ws),
         2 * OpenIn(ws) < Precision, NEW d
  PROVE  /\ SumFunctionOnSet(QuotesFor(ws, d), DOMAIN ws) \in Int
         /\ Divisor * SumFunctionOnSet(QuotesFor(ws, d), DOMAIN ws)
              <= (Divisor - 1) * Cardinality(BidsOf(ws))
<1> DEFINE D == DOMAIN ws
           w == [m \in DOMAIN markets |-> IF d = markets[m].quote THEN 0 - PriceOf(ws, m) ELSE 0]
           net == Net(ws)
           f == QuotesFor(ws, d)
           s == SlackOf(ws)
           g == [i \in D |-> w[ws[i].market] * net[i]]
           h == [i \in D |-> Divisor * f[i]]
           e == [i \in D |-> s[i] + g[i]]
<1>0. IsFiniteSet(D) /\ Divisor \in Int
  <2>1. D \in SUBSET (0 .. n)
    BY DEF IsStore
  <2>2. IsFiniteSet(D)
    <3> HIDE DEF D
    <3> QED BY <2>1, FiniteUpTo, Zenon
  <2> QED BY <2>2, ExchangeAssumption
<1>1. \A m \in DOMAIN markets : w[m] \in Int
  <2>1. \A m \in DOMAIN markets : PriceOf(ws, m) \in Nat
    BY PriceIsNat
  <2> QED BY <2>1
<1>2. \A i \in D : g[i] = w[ws[i].market] * net[i] /\ h[i] = Divisor * f[i] /\ e[i] = s[i] + g[i]
  OBVIOUS
<1>3. \A i \in D : s[i] \in Nat
  BY SlackIs
<1>4. (\A i \in D : g[i] \in Int) /\ SumFunctionOnSet(g, D) = 0
  <2> HIDE DEF w, g, e, h
  <2> QED BY <1>1, <1>2, NetIsNothing
<1>5. ASSUME NEW i \in D PROVE f[i] \in Int /\ h[i] \in Int /\ h[i] <= e[i]
  <2> DEFINE o == ws[i]
             p == PriceOf(ws, o.market)
             k == FillQty(ws, i)
             x == QuoteFor(o, p, k)
             y == NetOf(o, k)
             quote == markets[o.market].quote
  <2>1. /\ o \in OrderIn(markets) /\ p \in Nat /\ k \in Nat /\ k <= o.qty
        /\ k # 0 /\ o.direction = "bid" => p <= o.price
        /\ o.market \in DOMAIN markets
    <3>1. Fair(ws, i) /\ o \in OrderIn(markets) /\ p \in Nat
      BY FillsAreFair, PriceIsNat DEF IsStore
    <3>2. o.price \in Nat /\ o.market \in DOMAIN markets
      BY <3>1 DEF OrderIn
    <3> QED BY <3>1, <3>2 DEF Fair
  <2>2. x \in Int /\ p * y \in Int /\ Divisor * x <= Slack(o) - p * y
    <3> HIDE DEF o, p, k
    <3> QED BY <2>1, QuoteRounds
  <2>3. f[i] = IF d = quote THEN x ELSE 0
    BY DEF QuotesFor, InCoin
  <2>4. w[o.market] = IF d = quote THEN 0 - p ELSE 0
    BY <2>1
  <2>5. net[i] = y /\ y \in Int
    <3>1. net[i] = y
      BY DEF Net, NetOf
    <3>2. y \in Int
      <4> HIDE DEF k, o
      <4> QED BY <2>1 DEF NetOf
    <3> QED BY <3>1, <3>2
  <2>6. s[i] = Slack(o) /\ Slack(o) \in Nat
    BY <1>3 DEF SlackOf
  <2>7. g[i] = w[o.market] * y /\ h[i] = Divisor * f[i] /\ e[i] = s[i] + g[i]
    BY <1>2, <2>5
  <2> HIDE DEF p, k, x, y, quote, w, net, f, s, g, h, e
  <2>8. CASE d = quote
    <3>1. (0 - p) * y = 0 - p * y /\ Divisor * x \in Int
      BY <1>0, <2>1, <2>2, <2>5
    <3>2. f[i] = x /\ g[i] = 0 - p * y /\ h[i] = Divisor * x
      BY <2>3, <2>4, <2>7, <2>8, <3>1
    <3> DEFINE z == p * y
               v == Divisor * x
    <3>3. z \in Int /\ v \in Int /\ v <= Slack(o) - z /\ h[i] = v /\ g[i] = 0 - z
      BY <2>2, <3>1, <3>2
    <3> HIDE DEF z, v
    <3>4. h[i] \in Int /\ h[i] <= e[i]
      BY <2>6, <2>7, <3>3
    <3> QED BY <2>2, <3>2, <3>4
  <2>9. CASE d # quote
    <3>1. f[i] = 0 /\ w[o.market] = 0
      BY <2>3, <2>4, <2>9
    <3>2. g[i] = 0 /\ h[i] = 0
      BY <1>0, <2>5, <2>7, <3>1
    <3> QED BY <2>6, <2>7, <3>1, <3>2
  <2> QED BY <2>8, <2>9
<1>6. /\ SumFunctionOnSet(s, D) = (Divisor - 1) * Cardinality(BidsOf(ws))
  BY SlackIs
<1> HIDE DEF D, w, net, f, s, g, h, e
<1>7. SumFunctionOnSet(f, D) \in Int /\ SumFunctionOnSet(h, D) = Divisor * SumFunctionOnSet(f, D)
  <2>1. \A i \in D : f[i] \in Int /\ h[i] = Divisor * f[i]
    BY <1>2, <1>5
  <2> QED BY <1>0, <2>1, SumTimes
<1>8. SumFunctionOnSet(e, D) = SumFunctionOnSet(s, D) + SumFunctionOnSet(g, D)
  <2>1. \A i \in D : s[i] \in Int /\ g[i] \in Int /\ e[i] = s[i] + g[i]
    BY <1>2, <1>3, <1>4
  <2> QED BY <1>0, <2>1, SumBoth
<1>9. SumFunctionOnSet(h, D) <= SumFunctionOnSet(e, D)
  <2>1. \A i \in D : h[i] \in Int /\ e[i] \in Int /\ h[i] <= e[i]
    <3>1. \A i \in D : e[i] \in Int
      BY <1>2, <1>3, <1>4
    <3> QED BY <1>5, <3>1
  <2> QED BY <1>0, <2>1, SumAtLeast
<1>10. SumFunctionOnSet(s, D) \in Nat
  BY <1>0, <1>3, SumNat
<1>11. SumFunctionOnSet(e, D) = SumFunctionOnSet(s, D)
  BY <1>4, <1>8, <1>10
<1>12. Divisor * SumFunctionOnSet(f, D) <= (Divisor - 1) * Cardinality(BidsOf(ws))
  BY <1>6, <1>7, <1>9, <1>11
<1> QED BY <1>7, <1>12 DEF f, D

\* What everybody has of d.
HoldingsIn(ms, b, os, d) == [u \in Users |-> WealthIn(ms, b, os, u, d)]

LEMMA CirculatingIs ==
  ASSUME NEW d
  PROVE  /\ Circulating(d) = SumFunctionOnSet(HoldingsIn(markets, balance, orders, d), Users)
         /\ Circulating(d)' = SumFunctionOnSet(HoldingsIn(markets', balance', orders', d), Users)
<1>1. [u \in Users |-> Wealth(u, d)] = HoldingsIn(markets, balance, orders, d)
  BY WealthIs, Zenon DEF HoldingsIn
<1>2. [u \in Users |-> Wealth(u, d)]' = HoldingsIn(markets', balance', orders', d)
  BY WealthIs, Zenon DEF HoldingsIn
<1> QED BY <1>1, <1>2, Zenon DEF Circulating

\* Each order changes what its owner has, and nobody else has anything of it.
LEMMA OwnersChange ==
  ASSUME markets \in MarketSeqs, NEW n \in Nat, NEW ws, IsStore(markets, n, ws),
         NEW os, StillOpen(os, ws, DOMAIN ws), AsFilled(ws, os, DOMAIN ws), NEW d
  PROVE  SumFunctionOnSet([u \in Users |-> SumFunctionOnSet(Changes(ws, os, u, d), DOMAIN ws)], Users)
           = SumFunctionOnSet(ChangeAll(ws, os, d), DOMAIN ws)
<1> DEFINE S == DOMAIN ws
           c == ChangeAll(ws, os, d)
           own == [i \in S |-> ws[i].owner]
           g == [u \in Users |-> Changes(ws, os, u, d)]
           h == [u \in Users |-> SumFunctionOnSet(Changes(ws, os, u, d), S)]
<1>0. IsFiniteSet(Users)
  BY ExchangeAssumption
<1>1. IsFiniteSet(S)
  <2>1. S \in SUBSET (0 .. n)
    BY DEF IsStore
  <2> HIDE DEF S
  <2> QED BY <2>1, FiniteUpTo, Zenon
<1>2. \A i \in S : c[i] \in Int /\ own[i] \in Users
  <2> SUFFICES ASSUME NEW i \in S PROVE c[i] \in Int /\ own[i] \in Users
    OBVIOUS
  <2>1. c[i] = BaseFor(ws, d)[i] + QuotesFor(ws, d)[i] /\ BaseFor(ws, d)[i] \in Int /\ QuotesFor(ws, d)[i] \in Int
    BY ChangesSplit
  <2>2. own[i] \in Users
    BY DEF IsStore, OrderIn
  <2> HIDE DEF c, own
  <2> QED BY <2>1, <2>2
<1>3. \A u \in Users, i \in S : g[u][i] = IF own[i] = u THEN c[i] ELSE 0
  BY Zenon DEF Changes, ChangeAll
<1>4. \A u \in Users : h[u] = SumFunctionOnSet(g[u], S)
  BY Zenon
<1> HIDE DEF S, c, own, g, h
<1>5. ByOwner(h, Users, c, S, own, g)
  BY <1>2, <1>3, <1>4, Zenon DEF ByOwner
<1>6. SumFunctionOnSet(h, Users) = SumFunctionOnSet(c, S)
  BY <1>0, <1>1, <1>5, SumByOwner
<1> QED BY <1>6 DEF h, c, S

\* A block changes what circulates by what the quotes round.
LEMMA CirculatingChanges ==
  ASSUME ExchangeInv, NEW ws, NEW a, NEW os, NEW b, Commits(ws, a, os, b), BlockEnds(os, b),
         2 * OpenIn(ws) < Precision, NEW d \in Denoms
  PROVE  /\ Circulating(d)' = Circulating(d) + SumFunctionOnSet(QuotesFor(ws, d), DOMAIN ws)
         /\ Circulating(d) \in Int
<1> DEFINE before == HoldingsIn(markets, balance, orders, d)
           after == HoldingsIn(markets', balance', orders', d)
           h == [u \in Users |-> SumFunctionOnSet(Changes(ws, os, u, d), DOMAIN ws)]
           S == DOMAIN ws
           f == BaseFor(ws, d)
           g == QuotesFor(ws, d)
           c == ChangeAll(ws, os, d)
<1>1. /\ markets \in MarketSeqs /\ IsStore(markets, seq, ws) /\ seq \in Nat
      /\ StillOpen(os, ws, DOMAIN ws) /\ AsFilled(ws, os, DOMAIN ws)
  BY InvIs DEF Commits, Good
<1>2. \A i \in S : f[i] \in Int /\ g[i] \in Int /\ c[i] = f[i] + g[i]
  BY <1>1, ChangesSplit
<1>3. SumFunctionOnSet(f, S) = 0
  BY <1>1, BaseIsKept
<1>4. IsFiniteSet(S) /\ IsFiniteSet(Users)
  <2>1. S \in SUBSET (0 .. seq)
    BY <1>1 DEF IsStore
  <2>2. IsFiniteSet(S)
    <3> HIDE DEF S
    <3> QED BY <1>1, <2>1, FiniteUpTo, Zenon
  <2> QED BY <2>2, ExchangeAssumption
<1>5. SumFunctionOnSet(h, Users) = SumFunctionOnSet(c, S)
  BY <1>1, OwnersChange
<1>6. ASSUME NEW u \in Users
      PROVE  before[u] \in Int /\ h[u] \in Int /\ after[u] = before[u] + h[u]
  <2>1. Wealth(u, d)' = Wealth(u, d) + SumFunctionOnSet(Changes(ws, os, u, d), DOMAIN ws)
        /\ Wealth(u, d) \in Int
    BY WealthChanges
  <2>2. /\ Wealth(u, d) = WealthIn(markets, balance, orders, u, d)
        /\ Wealth(u, d)' = WealthIn(markets', balance', orders', u, d)
    BY WealthIs
  <2>3. before[u] = WealthIn(markets, balance, orders, u, d)
        /\ after[u] = WealthIn(markets', balance', orders', u, d)
    BY DEF HoldingsIn
  <2>4. h[u] = SumFunctionOnSet(Changes(ws, os, u, d), DOMAIN ws)
    OBVIOUS
  <2>5. h[u] \in Int
    <3>1. \A i \in S : c[i] \in Int
      <4> HIDE DEF c, f, g
      <4> QED BY <1>2
    <3> DEFINE k == Changes(ws, os, u, d)
    <3>2. \A i \in S : k[i] = IF ws[i].owner = u THEN c[i] ELSE 0
      BY Zenon DEF Changes, ChangeAll
    <3> HIDE DEF k, c, S
    <3>3. \A i \in S : k[i] \in Int
      BY <3>1, <3>2
    <3>4. SumFunctionOnSet(k, S) \in Int
      BY <1>4, <3>3, SumInt
    <3> QED BY <2>4, <3>4 DEF k, S
  <2>6. after[u] = before[u] + h[u] /\ before[u] \in Int
    BY <2>1, <2>2, <2>3, <2>4, Zenon
  <2> QED BY <2>5, <2>6
<1>7. Circulating(d) = SumFunctionOnSet(before, Users) /\ Circulating(d)' = SumFunctionOnSet(after, Users)
  BY CirculatingIs
<1> HIDE DEF before, after, h, S, f, g, c
<1>8. SumFunctionOnSet(after, Users) = SumFunctionOnSet(before, Users) + SumFunctionOnSet(h, Users)
  BY <1>4, <1>6, SumBoth
<1>9. SumFunctionOnSet(c, S) = SumFunctionOnSet(f, S) + SumFunctionOnSet(g, S)
  BY <1>2, <1>4, SumBoth
<1>10. SumFunctionOnSet(g, S) \in Int /\ SumFunctionOnSet(before, Users) \in Int
  BY <1>2, <1>4, <1>6, SumInt
<1>11. SumFunctionOnSet(after, Users) = SumFunctionOnSet(before, Users) + SumFunctionOnSet(g, S)
  BY <1>3, <1>5, <1>8, <1>9, <1>10
<1> QED BY <1>7, <1>10, <1>11 DEF g, S

\* Slack of less than a unit for each of k bids is less than k units.
LEMMA LessThanAUnit ==
  ASSUME NEW x \in Int, NEW j \in Nat, NEW k \in Nat, j <= k,
         Divisor * x <= (Divisor - 1) * j
  PROVE  x <= 0 \/ x < k
<1>0. Divisor \in Nat \ {0}
  BY ExchangeAssumption
<1> SUFFICES ASSUME x >= k, x >= 1 PROVE FALSE
  OBVIOUS
<1>1. x >= j
  OBVIOUS
<1> DEFINE c == Divisor - 1
<1>2. c \in Nat /\ Divisor = c + 1
  BY <1>0
<1>3. Divisor * x = c * x + x
  BY <1>2
<1>4. c * j <= c * x
  <2> DEFINE y == x - j
  <2>1. y \in Nat /\ x = j + y
    BY <1>1
  <2> HIDE DEF y, c
  <2>2. c * (j + y) = c * j + c * y /\ c * y \in Nat /\ c * j \in Nat
    BY <1>2, <2>1
  <2> QED BY <2>1, <2>2
<1> DEFINE p == c * x
           q == c * j
<1>5. p \in Int /\ q \in Int
  BY <1>2
<1>6. p + x <= q
  BY <1>3
<1>7. q <= p
  BY <1>4
<1> HIDE DEF p, q
<1> QED BY <1>5, <1>6, <1>7

\* Nothing is open in a batch that was not open before.
LEMMA LessIsOpen ==
  ASSUME ExchangeInv, NEW ws, NEW a, Unexpired(ws, a)
  PROVE  /\ OpenIn(ws) \in Nat /\ OpenIn(orders) \in Nat /\ OpenIn(ws) <= OpenIn(orders)
         /\ Cardinality(BidsOf(ws)) \in Nat /\ Cardinality(OpenBids) \in Nat
         /\ Cardinality(BidsOf(ws)) <= Cardinality(OpenBids)
<1> DEFINE S == DOMAIN orders
           T == DOMAIN ws
           f == QtyOf(ws)
           g == QtyOf(orders)
<1>1. IsStore(markets, seq, orders) /\ seq \in Nat
  BY InvIs DEF Good
<1>2. T \in SUBSET S /\ \A i \in T : ws[i] = orders[i]
  BY DEF Unexpired
<1>3. IsFiniteSet(S)
  <2>1. S \in SUBSET (0 .. seq)
    BY <1>1 DEF IsStore
  <2> HIDE DEF S
  <2> QED BY <1>1, <2>1, FiniteUpTo, Zenon
<1>4. \A i \in S : g[i] \in Nat
  BY <1>1 DEF QtyOf, IsStore, OrderIn
<1>5. \A i \in T : f[i] = g[i]
  BY <1>2 DEF QtyOf
<1>6. BidsOf(ws) \subseteq OpenBids /\ OpenBids \subseteq S
  BY <1>2 DEF BidsOf, OpenBids
<1>7. OpenIn(ws) = SumFunctionOnSet(f, T) /\ OpenIn(orders) = SumFunctionOnSet(g, S)
  BY DEF OpenIn
<1> HIDE DEF S, T, f, g
<1>8. \A i \in T : f[i] \in Nat /\ f[i] <= g[i]
  BY <1>2, <1>4, <1>5
<1>9. SumFunctionOnSet(f, T) <= SumFunctionOnSet(g, S)
  BY <1>2, <1>3, <1>4, <1>8, SumUpTo
<1>10. IsFiniteSet(T)
  BY <1>2, <1>3, FS_Subset
<1>11. SumFunctionOnSet(f, T) \in Nat /\ SumFunctionOnSet(g, S) \in Nat
  BY <1>3, <1>4, <1>8, <1>10, SumNat
<1>12. IsFiniteSet(OpenBids)
  BY <1>3, <1>6, FS_Subset
<1>13. /\ IsFiniteSet(BidsOf(ws))
       /\ Cardinality(BidsOf(ws)) <= Cardinality(OpenBids)
  BY <1>6, <1>12, FS_Subset
<1>14. Cardinality(BidsOf(ws)) \in Nat /\ Cardinality(OpenBids) \in Nat
  BY <1>12, <1>13, FS_CardinalityType
<1> QED BY <1>7, <1>9, <1>11, <1>13, <1>14

\* What is open is less than half the unit of sdk.Dec, 10^18: no ration is
\* rounded so coarsely that one side of a market would trade more.
FitsPrecision == 2 * OpenIn(orders) < Precision

\* A block that commits conserves the coins.
Conserves(d) ==
  IF d \in QuoteDenoms
  THEN \/ Circulating(d)' <= Circulating(d)
       \/ Circulating(d)' < Circulating(d) + Cardinality(OpenBids)
  ELSE Circulating(d)' = Circulating(d)

LEMMA BlockConserves ==
  ASSUME ExchangeInv, FitsPrecision, BlockCommitted, NEW d \in Denoms
  PROVE  Conserves(d)
<1>1. PICK ws, a, os, b : Commits(ws, a, os, b) /\ BlockEnds(os, b)
  BY BlockCommits DEF BlockEnds
<1> DEFINE change == SumFunctionOnSet(QuotesFor(ws, d), DOMAIN ws)
           j == Cardinality(BidsOf(ws))
           k == Cardinality(OpenBids)
<1>2. markets \in MarketSeqs /\ IsStore(markets, seq, ws) /\ seq \in Nat
  BY <1>1, InvIs DEF Commits, Good
<1>3. 2 * OpenIn(ws) < Precision /\ j \in Nat /\ k \in Nat /\ j <= k
  <2>1. Unexpired(ws, a)
    BY <1>1 DEF Commits
  <2>2. /\ OpenIn(ws) \in Nat /\ OpenIn(orders) \in Nat /\ OpenIn(ws) <= OpenIn(orders)
        /\ j \in Nat /\ k \in Nat /\ j <= k
    BY <2>1, LessIsOpen
  <2> HIDE DEF j, k
  <2> QED BY <2>2, PrecisionAssumption DEF FitsPrecision
<1>4. Circulating(d)' = Circulating(d) + change /\ Circulating(d) \in Int
  BY <1>1, <1>3, CirculatingChanges
<1>5. change \in Int /\ Divisor * change <= (Divisor - 1) * j
  BY <1>2, <1>3, QuotesGrowBySlack
<1>6. d \notin QuoteDenoms => change = 0
  BY <1>2, NoQuoteNoCost
<1> HIDE DEF change, j
<1>7. change <= 0 \/ change < k
  <2> HIDE DEF k
  <2> QED BY <1>3, <1>5, LessThanAUnit
<1>8. CASE d \in QuoteDenoms
  <2>1. \/ Circulating(d)' <= Circulating(d)
        \/ Circulating(d)' < Circulating(d) + k
    <3> HIDE DEF k
    <3> QED BY <1>3, <1>4, <1>5, <1>7
  <2> QED BY <1>8, <2>1, Zenon DEF Conserves
<1>9. CASE d \notin QuoteDenoms
  <2>1. Circulating(d)' = Circulating(d)
    BY <1>4, <1>6, <1>9
  <2> QED BY <1>9, <2>1, Zenon DEF Conserves
<1> QED BY <1>8, <1>9

(* A batch only moves coins between people: CoinsChangeHands, while the    *)
(* quantities in the book stay below half of the precision of a ration.    *)
THEOREM CoinsTheorem ==
  ExchangeSpec /\ []FitsPrecision => CoinsChangeHands
<1>1. ExchangeInv /\ FitsPrecision /\ [Next]_exchangeVars =>
        [BlockCommitted =>
           \A d \in Denoms :
             IF d \in QuoteDenoms
             THEN \/ Circulating(d)' <= Circulating(d)
                  \/ Circulating(d)' < Circulating(d) + Cardinality(OpenBids)
             ELSE Circulating(d)' = Circulating(d)]_exchangeVars
  BY BlockConserves, Zenon DEF Conserves
<1> QED BY <1>1, ExchangeInvariant, PTL DEF ExchangeSpec, CoinsChangeHands

-----------------------------------------------------------------------------
(***************************************************************************)
(* The embedded order keeper.                                              *)
(***************************************************************************)
Statuses == {"OPEN", "FILLED", "CANCELLED"}
Rows == [owner : Users, market : Nat, qty : Nat, filled : Nat, status : Statuses]

CreatedEvents == [type : {"created"}, id : Nat, owner : Users, market : Nat, qty : Nat]
QueueEvents   == Events \cup CreatedEvents

Table(r, o, w) == [rows |-> r, open |-> o, owned |-> w]

\* The open index when a row is written.
Opened(o, id, row) ==
  IF row.status = "OPEN" THEN o \cup {<<row.market, id>>} ELSE o \ {<<row.market, id>>}

\* Set writes the row and the open index.
LEMMA SetRowIs ==
  ASSUME NEW r, NEW o, NEW w, NEW id, NEW row
  PROVE  SetRow(Table(r, o, w), id, row) = Table(With(r, id, row), Opened(o, id, row), w)
<1> DEFINE v == Table(r, o, w)
           a == With(r, id, row)
           b == Opened(o, id, row)
<1>1. v.rows = r /\ v.open = o /\ v.owned = w
  BY DEF Table
<1>2. SetRow(v, id, row) = [v EXCEPT !.rows = a, !.open = b]
  BY <1>1 DEF SetRow, Opened
<1> HIDE DEF a, b
<1>3. [v EXCEPT !.rows = a, !.open = b] = Table(a, b, w)
  <2> DEFINE u == [v EXCEPT !.rows = a]
  <2>1. u = Table(a, o, w)
    BY DEF Table
  <2>2. [u EXCEPT !.open = b] = Table(a, b, w)
    <3> HIDE DEF u
    <3> QED BY <2>1 DEF Table
  <2> QED BY <2>2
<1> QED BY <1>2, <1>3 DEF a, b

\* The row of a new order.
NewRow(e) ==
  [owner |-> e.owner, market |-> e.market, qty |-> e.qty, filled |-> 0, status |-> "OPEN"]

AfterCreated(r, o, w, e) ==
  Table(With(r, e.id, NewRow(e)), o \cup {<<e.market, e.id>>}, w \cup {<<e.owner, e.id>>})

\* A new order is written, open, and the owner's index last.
LEMMA CreatedIs ==
  ASSUME NEW r, NEW o, NEW w, NEW e \in CreatedEvents
  PROVE  OnEvent(Table(r, o, w), e) = AfterCreated(r, o, w, e)
<1> DEFINE row == NewRow(e)
           v == SetRow(Table(r, o, w), e.id, row)
<1>1. e.type = "created"
  BY DEF CreatedEvents
<1>2. OnEvent(Table(r, o, w), e) = [v EXCEPT !.owned = @ \cup {<<e.owner, e.id>>}]
  BY <1>1 DEF OnEvent, OnOrderCreated, NewRow
<1>3. row.status = "OPEN" /\ row.market = e.market
  BY DEF NewRow
<1> HIDE DEF row
<1>4. v = Table(With(r, e.id, row), Opened(o, e.id, row), w)
  BY SetRowIs
<1> HIDE DEF v
<1>5. Opened(o, e.id, row) = o \cup {<<e.market, e.id>>}
  BY <1>3 DEF Opened
<1>6. OnEvent(Table(r, o, w), e)
        = Table(With(r, e.id, row), Opened(o, e.id, row), w \cup {<<e.owner, e.id>>})
  BY <1>2, <1>4 DEF Table
<1> QED BY <1>5, <1>6 DEF row, AfterCreated

\* What a fill or a cancellation makes of a row.
Written(row, e) ==
  IF e.type = "cancelled" THEN [row EXCEPT !.status = "CANCELLED"]
  ELSE LET more == [row EXCEPT !.filled = @ + e.filled]
       IN  IF FilledUp(more) THEN [more EXCEPT !.status = "FILLED"] ELSE more

\* Other events than the creation write a row that is there, or nothing.
LEMMA ChangeIs ==
  ASSUME NEW r, NEW o, NEW w, NEW e \in Events
  PROVE  OnEvent(Table(r, o, w), e)
           = IF e.type = "batch" \/ e.id \notin DOMAIN r THEN Table(r, o, w)
             ELSE Table(With(r, e.id, Written(r[e.id], e)),
                        Opened(o, e.id, Written(r[e.id], e)), w)
<1> DEFINE v == Table(r, o, w)
           row == Written(r[e.id], e)
<1>1. e.type \in {"batch", "cancelled", "fill"}
  BY DEF Events, BatchEvents
<1>2. v.rows = r
  BY DEF Table
<1>3. SetRow(v, e.id, row) = Table(With(r, e.id, row), Opened(o, e.id, row), w)
  BY SetRowIs
<1>4. CASE e.type = "batch"
  BY <1>4 DEF OnEvent
<1>5. CASE e.type = "cancelled"
  <2>1. OnEvent(v, e) = IF e.id \notin DOMAIN r THEN v ELSE SetRow(v, e.id, row)
    BY <1>2, <1>5 DEF OnEvent, OnOrderCancelled, Written
  <2> QED BY <1>3, <1>5, <2>1
<1>6. CASE e.type = "fill"
  <2>1. OnEvent(v, e) = IF e.id \notin DOMAIN r THEN v ELSE SetRow(v, e.id, row)
    BY <1>2, <1>6 DEF OnEvent, OnFill, Written
  <2> QED BY <1>3, <1>6, <2>1
<1> QED BY <1>1, <1>4, <1>5, <1>6

\* A row stays that of its order, and one that is not open stays so.
LEMMA WrittenIs ==
  ASSUME NEW row \in Rows, NEW e \in Events, e.type # "batch"
  PROVE  /\ Written(row, e) \in Rows
         /\ Written(row, e).owner = row.owner
         /\ Written(row, e).market = row.market
         /\ Written(row, e).qty = row.qty
         /\ row.status # "OPEN" => Written(row, e).status # "OPEN"
<1>1. CASE e.type = "cancelled"
  <2> DEFINE x == [row EXCEPT !.status = "CANCELLED"]
  <2>1. Written(row, e) = x
    BY <1>1 DEF Written
  <2>2. x \in Rows /\ x.owner = row.owner /\ x.market = row.market /\ x.qty = row.qty /\ x.status = "CANCELLED"
    BY DEF Rows, Statuses
  <2> QED BY <2>1, <2>2
<1>2. CASE e.type # "cancelled"
  <2> DEFINE n == row.filled + e.filled
             x == [row EXCEPT !.filled = n]
             y == [x EXCEPT !.status = "FILLED"]
  <2>1. Written(row, e) = IF FilledUp(x) THEN y ELSE x
    BY <1>2 DEF Written
  <2>2. n \in Nat
    <3>1. e.filled \in Nat
      BY <1>2 DEF Events, BatchEvents
    <3>2. row.filled \in Nat
      BY DEF Rows
    <3> QED BY <3>1, <3>2
  <2> HIDE DEF n
  <2>3. /\ x \in Rows /\ x.owner = row.owner /\ x.market = row.market /\ x.qty = row.qty
        /\ x.status = row.status
    BY <2>2 DEF Rows
  <2> HIDE DEF x
  <2>4. /\ y \in Rows /\ y.owner = x.owner /\ y.market = x.market /\ y.qty = x.qty
        /\ y.status = "FILLED"
    BY <2>3 DEF Rows, Statuses
  <2> HIDE DEF y
  <2> QED BY <2>1, <2>3, <2>4
<1> QED BY <1>1, <1>2

RowsOK(r) == DOMAIN r \subseteq Nat /\ \A id \in DOMAIN r : r[id] \in Rows

\* The open index o lists the open rows of r.
Listed(r, o) == o = {<<r[id].market, id>> : id \in {i \in DOMAIN r : r[i].status = "OPEN"}}

\* Writing a row keeps it so, unless the order moved to another market.
LEMMA ListedStays ==
  ASSUME NEW r, NEW o, Listed(r, o), NEW id, NEW row,
         id \in DOMAIN r => r[id].market = row.market
  PROVE  Listed(With(r, id, row), Opened(o, id, row))
<1> DEFINE s == With(r, id, row)
           Open(t) == {i \in DOMAIN t : t[i].status = "OPEN"}
           m == row.market
<1>1. DOMAIN s = DOMAIN r \cup {id} /\ s[id] = row /\ \A i \in DOMAIN r \ {id} : s[i] = r[i]
  BY DEF With
<1>2. o = {<<r[i].market, i>> : i \in Open(r)}
  BY DEF Listed
<1>3. o \ {<<m, id>>} = {<<r[i].market, i>> : i \in Open(r) \ {id}}
  <2>1. ASSUME NEW i \in Open(r), i # id
        PROVE  <<r[i].market, i>> \in o \ {<<m, id>>}
    BY <1>2, <2>1
  <2>2. ASSUME NEW x \in o \ {<<m, id>>}
        PROVE  x \in {<<r[i].market, i>> : i \in Open(r) \ {id}}
    <3>1. PICK i \in Open(r) : x = <<r[i].market, i>>
      BY <1>2
    <3>2. i # id
      BY <3>1
    <3> QED BY <3>1, <3>2
  <2> QED BY <2>1, <2>2
<1>4. Open(s) \ {id} = Open(r) \ {id}
  BY <1>1
<1>5. {<<s[i].market, i>> : i \in Open(s) \ {id}} = {<<r[i].market, i>> : i \in Open(r) \ {id}}
  BY <1>1, <1>4
<1> HIDE DEF s
<1>6. CASE row.status = "OPEN"
  <2>1. id \in Open(s) /\ s[id].market = m
    BY <1>1, <1>6
  <2>2. {<<s[i].market, i>> : i \in Open(s)} = {<<s[i].market, i>> : i \in Open(s) \ {id}} \cup {<<m, id>>}
    BY <2>1
  <2>3. o \cup {<<m, id>>} = (o \ {<<m, id>>}) \cup {<<m, id>>}
    OBVIOUS
  <2> HIDE DEF Open, m
  <2>4. {<<s[i].market, i>> : i \in Open(s)} = o \cup {<<m, id>>}
    BY <1>3, <1>5, <2>2, <2>3
  <2> QED BY <1>6, <2>4 DEF Listed, Opened, Open, m, s
<1>7. CASE row.status # "OPEN"
  <2>1. Open(s) = Open(s) \ {id}
    BY <1>1, <1>7
  <2> HIDE DEF Open, m
  <2>2. {<<s[i].market, i>> : i \in Open(s)} = o \ {<<m, id>>}
    BY <1>3, <1>5, <2>1
  <2> QED BY <1>7, <2>2 DEF Listed, Opened, Open, m, s
<1> QED BY <1>6, <1>7

\* The tables r, o, w became s, p, x by the event e.
Applied(r, o, w, e, s, p, x) ==
  /\ RowsOK(s)
  /\ DOMAIN r \subseteq DOMAIN s
  /\ \A id \in DOMAIN s :
       \/ e.type = "created" /\ id = e.id /\ s[id] = NewRow(e)
       \/ /\ id \in DOMAIN r /\ s[id].owner = r[id].owner /\ s[id].market = r[id].market
          /\ r[id].status # "OPEN" => s[id].status # "OPEN"
  /\ e.type = "created" => e.id \in DOMAIN s
  /\ x = IF e.type = "created" THEN w \cup {<<e.owner, e.id>>} ELSE w
  /\ (Listed(r, o) /\ (e.type = "created" /\ e.id \in DOMAIN r => r[e.id].market = e.market))
       => Listed(s, p)

\* What an event does to the tables.
LEMMA EventIs ==
  ASSUME NEW r, RowsOK(r), NEW o, NEW w, NEW e \in QueueEvents
  PROVE  \E s, p, x : OnEvent(Table(r, o, w), e) = Table(s, p, x) /\ Applied(r, o, w, e, s, p, x)
<1>1. CASE e \in CreatedEvents
  <2> DEFINE row == NewRow(e)
             s == With(r, e.id, row)
             p == o \cup {<<e.market, e.id>>}
             x == w \cup {<<e.owner, e.id>>}
  <2>1. OnEvent(Table(r, o, w), e) = Table(s, p, x)
    <3>1. OnEvent(Table(r, o, w), e) = AfterCreated(r, o, w, e)
      BY <1>1, CreatedIs
    <3>2. AfterCreated(r, o, w, e) = Table(s, p, x)
      BY DEF AfterCreated
    <3> QED BY <3>1, <3>2
  <2>2. e.type = "created" /\ e.id \in Nat
    BY <1>1 DEF CreatedEvents
  <2>3. row \in Rows /\ row.status = "OPEN" /\ row.market = e.market
    BY <1>1 DEF NewRow, Rows, CreatedEvents, Statuses
  <2>4. row = NewRow(e)
    OBVIOUS
  <2> HIDE DEF row
  <2>5. DOMAIN s = DOMAIN r \cup {e.id} /\ s[e.id] = row /\ \A i \in DOMAIN r \ {e.id} : s[i] = r[i]
    BY DEF With
  <2>6. p = Opened(o, e.id, row)
    BY <2>3 DEF Opened
  <2>7. Listed(r, o) /\ (e.id \in DOMAIN r => r[e.id].market = e.market) => Listed(s, p)
    BY <2>3, <2>6, ListedStays
  <2> HIDE DEF s, p, x
  <2>8. RowsOK(s)
    BY <2>2, <2>3, <2>5 DEF RowsOK
  <2>9. Applied(r, o, w, e, s, p, x)
    BY <2>2, <2>4, <2>5, <2>7, <2>8 DEF Applied, x
  <2> QED BY <2>1, <2>9
<1>2. CASE e \in Events /\ (e.type = "batch" \/ e.id \notin DOMAIN r)
  <2>1. OnEvent(Table(r, o, w), e) = Table(r, o, w)
    BY <1>2, ChangeIs
  <2>2. e.type # "created"
    BY <1>2 DEF Events, BatchEvents
  <2>3. Applied(r, o, w, e, r, o, w)
    BY <2>2 DEF Applied
  <2> QED BY <2>1, <2>3
<1>3. CASE e \in Events /\ ~ (e.type = "batch" \/ e.id \notin DOMAIN r)
  <2> DEFINE row == Written(r[e.id], e)
             s == With(r, e.id, row)
             p == Opened(o, e.id, row)
  <2>1. OnEvent(Table(r, o, w), e) = Table(s, p, w)
    BY <1>3, ChangeIs
  <2>2. e.type # "created" /\ e.id \in DOMAIN r /\ r[e.id] \in Rows
    BY <1>3 DEF Events, BatchEvents, RowsOK
  <2>3. /\ row \in Rows /\ row.owner = r[e.id].owner /\ row.market = r[e.id].market
        /\ r[e.id].status # "OPEN" => row.status # "OPEN"
    BY <1>3, <2>2, WrittenIs
  <2> HIDE DEF row
  <2>4. DOMAIN s = DOMAIN r \cup {e.id} /\ s[e.id] = row /\ \A i \in DOMAIN r \ {e.id} : s[i] = r[i]
    BY DEF With
  <2>5. Listed(r, o) => Listed(s, p)
    BY <2>3, ListedStays
  <2> HIDE DEF s, p
  <2>6. RowsOK(s)
    BY <2>2, <2>3, <2>4 DEF RowsOK
  <2>7. Applied(r, o, w, e, s, p, w)
    BY <2>2, <2>3, <2>4, <2>5, <2>6 DEF Applied
  <2> QED BY <2>1, <2>7
<1> QED BY <1>1, <1>2, <1>3 DEF QueueEvents

\* What a block executes.
MarketOps  == [type : {"market"}, owner : Nominees, pair : AssetPairs]
PostOps    == [type : {"post", "failed"}, owner : Users, market : Nat, direction : Directions,
               price : Prices, qty : Quantities, tif : 1 .. MaxTimeInForce]
CancelOps  == [type : {"cancel"}, owner : Users, id : Nat]
EndOps     == [type : {"end"}]
Operations == MarketOps \cup PostOps \cup CancelOps \cup EndOps

\* The order id of the store is as it was, but for what is left of it, or it
\* is the one that op has posted.
Kept(op, os, n, os2, id) ==
  \/ id \in DOMAIN os /\ os2[id].owner = os[id].owner /\ os2[id].market = os[id].market
  \/ op.type = "post" /\ id = n /\ os2[id].owner = op.owner /\ os2[id].market = op.market

\* The event of a new order is that of the operation.
Announced(op, n, e) ==
  /\ op.type \in {"post", "failed"}
  /\ op.type = "post" => e.id = n
  /\ e.owner = op.owner /\ e.market = op.market

\* An operation made the store os, with the last id n, of the store before,
\* and has published the events in add.
Ran(op, os, n, os2, n2, add) ==
  /\ n2 = IF op.type = "post" THEN n + 1 ELSE n
  /\ \A id \in DOMAIN os2 : Kept(op, os, n2, os2, id)
  /\ add \in Seq(QueueEvents)
  /\ \A i \in 1 .. Len(add) : add[i].type = "created" => Announced(op, n2, add[i])
  /\ op.type \in {"post", "failed"} => op.market \in DOMAIN markets

\* The node publishes what the batch and Post tell.
Published(op) ==
  \E add : Ran(op, orders, seq, orders', seq', add) /\ queue' = queue \o add

\* The markets stay, or there is one more.
MarketsStay(op) ==
  \/ op.type # "market" /\ markets' = markets
  \/ op.type = "market" /\ Len(markets) < MaxMarkets
     /\ Len(markets') = Len(markets) + 1 /\ markets' \in MarketSeqs

\* Nothing is published.
LEMMA Silent ==
  ASSUME NEW q \in Seq(QueueEvents)
  PROVE  q \o <<>> = q /\ <<>> \in Seq(QueueEvents) /\ Len(<<>>) = 0
OBVIOUS

\* A new market publishes nothing.
LEMMA MarketRuns ==
  ASSUME ExchangeInv, queue \in Seq(QueueEvents), NEW op \in MarketOps,
         CreateMarket(op.owner, op.pair), queue' = queue
  PROVE  ExchangeInv' /\ Published(op) /\ MarketsStay(op)
<1>1. op.type = "market" /\ op.owner \in Users /\ op.pair \in AssetPairs
  BY ExchangeAssumption DEF MarketOps
<1>2. ExchangeInv'
  BY <1>1, CreateMarketIsGood
<1>3. orders' = orders /\ seq' = seq /\ Len(markets) < MaxMarkets
  BY DEF CreateMarket
<1>4. Ran(op, orders, seq, orders', seq', <<>>)
  BY <1>1, <1>3, Silent DEF Ran, Kept
<1>5. markets' \in MarketSeqs /\ Len(markets') = Len(markets) + 1
  <2>1. markets \in MarketSeqs /\ markets' \in MarketSeqs
    BY <1>2, InvIs DEF Good
  <2> DEFINE m == [base |-> op.pair[1], quote |-> op.pair[2]]
  <2>2. markets' = Append(markets, m)
    BY DEF CreateMarket
  <2> HIDE DEF m
  <2> QED BY <2>1, <2>2 DEF MarketSeqs
<1>6. queue' = queue \o <<>>
  BY Silent
<1>7. Published(op)
  BY <1>4, <1>6 DEF Published
<1>8. MarketsStay(op)
  BY <1>1, <1>3, <1>5 DEF MarketsStay
<1> QED BY <1>2, <1>7, <1>8

\* A message that cancels publishes nothing.
LEMMA CancelRuns ==
  ASSUME ExchangeInv, queue \in Seq(QueueEvents), NEW op \in CancelOps,
         MsgCancel(op.owner, op.id), queue' = queue
  PROVE  ExchangeInv' /\ Published(op) /\ MarketsStay(op)
<1>1. op.type = "cancel" /\ op.owner \in Users /\ op.id \in DOMAIN orders
  BY DEF CancelOps, MsgCancel
<1>2. ExchangeInv'
  BY <1>1, MsgCancelIsGood
<1>3. orders' = Without(orders, op.id) /\ seq' = seq /\ markets' = markets
  BY DEF MsgCancel
<1>4. \A id \in DOMAIN orders' : Kept(op, orders, seq', orders', id)
  BY <1>3 DEF Without, Kept
<1>5. Ran(op, orders, seq, orders', seq', <<>>)
  BY <1>1, <1>3, <1>4, Silent DEF Ran
<1>6. queue' = queue \o <<>>
  BY Silent
<1>7. Published(op)
  BY <1>5, <1>6 DEF Published
<1> QED BY <1>1, <1>2, <1>3, <1>7 DEF MarketsStay

\* The event of a new order.
LEMMA OrderCreatedIs ==
  ASSUME NEW id \in Nat, NEW o, o.owner \in Users, o.market \in Nat, o.qty \in Nat,
         NEW q \in Seq(QueueEvents)
  PROVE  LET e == OrderCreated(id, o)
         IN  /\ e \in CreatedEvents /\ <<e>> \in Seq(QueueEvents)
             /\ e.id = id /\ e.owner = o.owner /\ e.market = o.market /\ e.qty = o.qty
             /\ e.type = "created"
             /\ q \o <<e>> = Append(q, e) /\ Len(<<e>>) = 1 /\ <<e>>[1] = e
<1> DEFINE e == OrderCreated(id, o)
<1>1. /\ e \in CreatedEvents
      /\ e.id = id /\ e.owner = o.owner /\ e.market = o.market /\ e.qty = o.qty /\ e.type = "created"
  BY DEF OrderCreated, CreatedEvents
<1> HIDE DEF e
<1>2. e \in QueueEvents
  BY <1>1 DEF QueueEvents
<1>3. <<e>> \in Seq(QueueEvents) /\ q \o <<e>> = Append(q, e) /\ Len(<<e>>) = 1 /\ <<e>>[1] = e
  BY <1>2
<1> QED BY <1>1, <1>3 DEF e

\* A new order is announced with its id.
LEMMA PostRuns ==
  ASSUME ExchangeInv, queue \in Seq(QueueEvents), NEW op \in PostOps, op.type = "post",
         Post(op.owner, op.market, op.direction, op.price, op.qty, op.tif),
         queue' = queue \o <<OrderCreated(seq', orders'[seq'])>>
  PROVE  ExchangeInv' /\ Published(op) /\ MarketsStay(op)
<1> DEFINE o == NewOrder(op.owner, op.market, op.direction, op.price, op.qty, op.tif)
           n == seq + 1
           e == OrderCreated(n, o)
<1>1. /\ op.owner \in Users /\ op.market \in DOMAIN markets /\ op.direction \in Directions
      /\ op.price \in Prices /\ op.qty \in Quantities /\ op.tif \in 1 .. MaxTimeInForce
      /\ op.market \in Nat
  BY DEF PostOps, Post
<1>2. ExchangeInv'
  BY <1>1, PostIsGood
<1>3. orders' = With(orders, n, o) /\ seq' = n /\ markets' = markets
  BY DEF Post
<1>4. seq \in Nat /\ n \in Nat
  BY InvIs DEF Good
<1>5. o.owner = op.owner /\ o.market = op.market /\ o.qty = op.qty
  BY DEF NewOrder
<1> HIDE DEF o
<1>6. orders'[n] = o /\ \A id \in DOMAIN orders' : Kept(op, orders, seq', orders', id)
  <2>1. /\ DOMAIN orders' = DOMAIN orders \cup {n} /\ orders'[n] = o
        /\ \A id \in DOMAIN orders \ {n} : orders'[id] = orders[id]
    BY <1>3 DEF With
  <2> QED BY <1>3, <1>5, <2>1 DEF Kept
<1>7. op.qty \in Nat
  BY <1>1, ExchangeAssumption, Zenon
<1>8. /\ e \in CreatedEvents /\ <<e>> \in Seq(QueueEvents)
      /\ e.id = n /\ e.owner = o.owner /\ e.market = o.market
      /\ Len(<<e>>) = 1 /\ <<e>>[1] = e
  BY <1>1, <1>4, <1>5, <1>7, OrderCreatedIs
<1> HIDE DEF e
<1>9. Ran(op, orders, seq, orders', seq', <<e>>)
  <2>1. Announced(op, seq', e)
    BY <1>3, <1>5, <1>8 DEF Announced
  <2>2. \A i \in 1 .. Len(<<e>>) : <<e>>[i] = e
    BY <1>8
  <2> DEFINE add == <<e>>
  <2>3. add \in Seq(QueueEvents) /\ \A i \in 1 .. Len(add) : add[i] = e
    BY <1>8, <2>2
  <2> HIDE DEF add
  <2>4. Ran(op, orders, seq, orders', seq', add)
    BY <1>1, <1>3, <1>6, <2>1, <2>3 DEF Ran
  <2> QED BY <2>4 DEF add
<1>10. queue' = queue \o <<e>>
  BY <1>3, <1>6 DEF e
<1>11. Published(op)
  BY <1>9, <1>10, Zenon DEF Published
<1> QED BY <1>2, <1>3, <1>11 DEF MarketsStay

\* An order that is discarded leaves nothing but its event.
LEMMA FailedRuns ==
  ASSUME ExchangeInv, queue \in Seq(QueueEvents), NEW op \in PostOps, op.type = "failed",
         Discarded(ChainState, op)
  PROVE  ExchangeInv' /\ Published(op) /\ MarketsStay(op)
<1> DEFINE o == NewOrder(op.owner, op.market, op.direction, op.price, op.qty, op.tif)
           e == OrderCreated(seq + 1, o)
<1>0. ChainState.seq = seq /\ ChainState.markets = markets
  BY DEF ChainState
<1>1. op.market \in DOMAIN markets /\ queue' = queue \o <<e>>
  BY <1>0 DEF Discarded, Publish
<1>2. /\ markets' = markets /\ orders' = orders /\ seq' = seq
      /\ balance' = balance /\ halted' = halted
  BY DEF Discarded, exchangeVars
<1>3. ExchangeInv'
  <2>1. Good(markets, seq, orders, balance, halted)
    BY InvIs
  <2> QED BY <1>2, <2>1, InvIs
<1>4. seq + 1 \in Nat
  BY InvIs DEF Good
<1>5. /\ o.owner = op.owner /\ o.market = op.market /\ o.qty = op.qty
      /\ op.owner \in Users /\ op.market \in Nat /\ op.qty \in Nat
  BY ExchangeAssumption, Zenon DEF NewOrder, PostOps
<1> HIDE DEF o
<1>6. /\ <<e>> \in Seq(QueueEvents) /\ e.owner = o.owner /\ e.market = o.market
      /\ Len(<<e>>) = 1 /\ <<e>>[1] = e
  BY <1>4, <1>5, OrderCreatedIs
<1> HIDE DEF e
<1>7. Ran(op, orders, seq, orders', seq', <<e>>)
  <2>1. Announced(op, seq', e)
    BY <1>5, <1>6 DEF Announced
  <2>2. \A i \in 1 .. Len(<<e>>) : <<e>>[i] = e
    BY <1>6
  <2> DEFINE add == <<e>>
  <2>3. add \in Seq(QueueEvents) /\ \A i \in 1 .. Len(add) : add[i] = e
    BY <1>6, <2>2
  <2> HIDE DEF add
  <2>4. \A id \in DOMAIN orders' : Kept(op, orders, seq', orders', id)
    BY <1>2 DEF Kept
  <2>5. Ran(op, orders, seq, orders', seq', add)
    BY <1>1, <1>2, <2>1, <2>3, <2>4, Zenon DEF Ran
  <2> QED BY <2>5 DEF add
<1>8. Published(op)
  BY <1>1, <1>7, Zenon DEF Published
<1> QED BY <1>2, <1>3, <1>8 DEF MarketsStay

\* How a block ends: with what its events tell, a block older, or halted.
Ends(add) ==
  /\ add \in Seq(Events) /\ queue' = queue \o add
  /\ \/ halted' # "no" /\ orders' = orders
     \/ \E os : /\ Tell(orders, add, os)
                /\ DOMAIN os \subseteq DOMAIN orders
                /\ \A i \in DOMAIN os : os[i] \in OrderIn(markets) /\ LeftOf(orders[i], os[i])
                /\ orders' = [i \in DOMAIN os |-> Aged(os[i])]

\* The batch ends a block so.
LEMMA EndIs ==
  ASSUME ExchangeInv, \E s \in {Batch(ms) : ms \in MarketOrders} : EndWith(s) /\ Publish(s.events)
  PROVE  /\ ExchangeInv' /\ seq' = seq /\ markets' = markets
         /\ \E add : Ends(add)
<1>1. PICK ms \in MarketOrders : EndWith(Batch(ms)) /\ Publish(Batch(ms).events)
  OBVIOUS
<1>2. EndBlock
  BY <1>1 DEF EndBlock
<1>3. ExchangeInv'
  BY <1>2, EndBlockIsGood
<1> DEFINE s == Batch(ms)
<1>4. /\ halted = "no" /\ halted' = s.halted /\ markets' = markets /\ seq' = seq
      /\ \/ s.halted = "no" /\ orders' = [i \in DOMAIN s.orders |-> Aged(s.orders[i])]
         \/ s.halted # "no" /\ orders' = orders
      /\ queue' = queue \o s.events
  BY <1>1, Zenon DEF EndWith, Aged, Publish
<1>5. BatchEnds(s)
  <2>1. /\ markets \in MarketSeqs /\ seq \in Nat /\ IsStore(markets, seq, orders)
        /\ balance \in Ledgers /\ Backed(balance, markets, orders)
    BY InvIs DEF Good
  <2> QED BY <1>4, <2>1, BatchIs
<1> HIDE DEF s
<1>6. PICK os, b, h, e :
        /\ s = State(os, b, h, e)
        /\ e \in Seq(Events)
        /\ \/ h \in {"dust", "price", "ratio"}
           \/ /\ h = "no"
              /\ Tell(orders, e, os)
              /\ DOMAIN os \subseteq DOMAIN orders
              /\ \A i \in DOMAIN os : /\ os[i] \in OrderIn(markets) /\ os[i].age <= os[i].tif
                                     /\ LeftOf(orders[i], os[i])
              /\ b \in Ledgers
              /\ Backed(b, markets, os)
  BY <1>5 DEF BatchEnds
<1>7. s.halted = h /\ s.orders = os /\ s.events = e
  BY <1>6 DEF State
<1>8. CASE h = "no"
  <2>1. orders' = [i \in DOMAIN os |-> Aged(os[i])] /\ queue' = queue \o e
    BY <1>4, <1>7, <1>8
  <2>2. /\ Tell(orders, e, os) /\ DOMAIN os \subseteq DOMAIN orders
        /\ \A i \in DOMAIN os : os[i] \in OrderIn(markets) /\ LeftOf(orders[i], os[i])
    BY <1>6, <1>8
  <2>3. Ends(e)
    BY <1>6, <2>1, <2>2 DEF Ends
  <2> QED BY <1>3, <1>4, <2>3
<1>9. CASE h # "no"
  <2>1. halted' # "no" /\ orders' = orders /\ queue' = queue \o e
    BY <1>4, <1>7, <1>9
  <2>2. Ends(e)
    BY <1>6, <2>1 DEF Ends
  <2> QED BY <1>3, <1>4, <2>2
<1> QED BY <1>8, <1>9

\* The orders a block older.
LEMMA AgedStore ==
  ASSUME NEW os, \A i \in DOMAIN os : os[i] \in OrderIn(markets),
         NEW o2, o2 = [i \in DOMAIN os |-> Aged(os[i])]
  PROVE  /\ DOMAIN o2 = DOMAIN os
         /\ \A i \in DOMAIN os : /\ o2[i].owner = os[i].owner /\ o2[i].market = os[i].market
                                 /\ o2[i].qty = os[i].qty
<1>1. ASSUME NEW i \in DOMAIN os
      PROVE  /\ o2[i].owner = os[i].owner /\ o2[i].market = os[i].market
             /\ o2[i].qty = os[i].qty
  <2> DEFINE a == Min({os[i].age + 1, AgeCap})
  <2>1. o2[i] = [os[i] EXCEPT !.age = a]
    BY DEF Aged
  <2> HIDE DEF a
  <2> QED BY <2>1 DEF OrderIn
<1> QED BY <1>1

\* The end of the block publishes what the batch tells.
LEMMA EndRuns ==
  ASSUME ExchangeInv, NEW op \in EndOps,
         \E s \in {Batch(ms) : ms \in MarketOrders} : EndWith(s) /\ Publish(s.events)
  PROVE  ExchangeInv' /\ Published(op) /\ MarketsStay(op)
<1>1. op.type = "end"
  BY DEF EndOps
<1>2. ExchangeInv' /\ seq' = seq /\ markets' = markets
  BY EndIs
<1>3. PICK add : Ends(add)
  BY EndIs
<1>4. \A id \in DOMAIN orders' : Kept(op, orders, seq', orders', id)
  <2>1. CASE orders' = orders
    BY <2>1 DEF Kept
  <2>2. CASE orders' # orders
    <3>1. PICK os :
            /\ DOMAIN os \subseteq DOMAIN orders
            /\ \A i \in DOMAIN os : os[i] \in OrderIn(markets) /\ LeftOf(orders[i], os[i])
            /\ orders' = [i \in DOMAIN os |-> Aged(os[i])]
      BY <1>3, <2>2 DEF Ends
    <3>2. /\ DOMAIN orders' = DOMAIN os
          /\ \A i \in DOMAIN os : orders'[i].owner = os[i].owner /\ orders'[i].market = os[i].market
      BY <3>1, AgedStore
    <3> QED BY <3>1, <3>2 DEF Kept, LeftOf
  <2> QED BY <2>1, <2>2
<1>5. add \in Seq(Events) /\ queue' = queue \o add
  BY <1>3 DEF Ends
<1>6. add \in Seq(QueueEvents) /\ \A i \in 1 .. Len(add) : add[i].type # "created"
  <2>1. Events \subseteq QueueEvents /\ \A e \in Events : e.type # "created"
    BY DEF QueueEvents, Events, BatchEvents
  <2> QED BY <1>5, <2>1
<1>7. Ran(op, orders, seq, orders', seq', add)
  BY <1>1, <1>2, <1>4, <1>6 DEF Ran
<1> QED BY <1>1, <1>2, <1>5, <1>7 DEF Published, MarketsStay

\* Every operation keeps the books of the exchange and publishes its events.
LEMMA ExecuteIs ==
  ASSUME ExchangeInv, queue \in Seq(QueueEvents), NEW op \in Operations, Execute(op)
  PROVE  /\ ExchangeInv' /\ Published(op) /\ MarketsStay(op)
         /\ halted = "no"
<1>1. CASE op.type = "market"
  <2>1. op \in MarketOps
    BY <1>1 DEF Operations, PostOps, CancelOps, EndOps
  <2>2. CreateMarket(op.owner, op.pair) /\ queue' = queue
    BY <1>1 DEF Execute
  <2>3. halted = "no"
    BY <2>2 DEF CreateMarket
  <2> QED BY <2>1, <2>2, <2>3, MarketRuns
<1>2. CASE op.type = "post"
  <2>1. op \in PostOps
    BY <1>2 DEF Operations, MarketOps, CancelOps, EndOps
  <2>2. /\ Post(op.owner, op.market, op.direction, op.price, op.qty, op.tif)
        /\ queue' = queue \o <<OrderCreated(seq', orders'[seq'])>>
    BY <1>2 DEF Execute, Publish
  <2>3. halted = "no"
    BY <2>2 DEF Post
  <2> QED BY <1>2, <2>1, <2>2, <2>3, PostRuns
<1>3. CASE op.type = "failed"
  <2>1. op \in PostOps
    BY <1>3 DEF Operations, MarketOps, CancelOps, EndOps
  <2>2. Discarded(ChainState, op)
    BY <1>3 DEF Execute
  <2>3. halted = "no"
    BY <2>2 DEF Discarded
  <2> QED BY <1>3, <2>1, <2>2, <2>3, FailedRuns
<1>4. CASE op.type = "cancel"
  <2>1. op \in CancelOps
    BY <1>4 DEF Operations, MarketOps, PostOps, EndOps
  <2>2. MsgCancel(op.owner, op.id) /\ queue' = queue
    BY <1>4 DEF Execute
  <2>3. halted = "no"
    BY <2>2 DEF MsgCancel
  <2> QED BY <2>1, <2>2, <2>3, CancelRuns
<1>5. CASE op.type = "end"
  <2>1. op \in EndOps
    BY <1>5 DEF Operations, MarketOps, PostOps, CancelOps
  <2>2. \E s \in {Batch(ms) : ms \in MarketOrders} : EndWith(s) /\ Publish(s.events)
    BY <1>5 DEF Execute
  <2>3. halted = "no"
    BY <2>2 DEF EndWith
  <2> QED BY <2>1, <2>2, <2>3, EndRuns
<1> QED BY <1>1, <1>2, <1>3, <1>4, <1>5 DEF Execute

-----------------------------------------------------------------------------
(***************************************************************************)
(* The node: what holds of its state whatever fails.                       *)
(***************************************************************************)
CommittedIsGood ==
  Good(committed.markets, committed.seq, committed.orders, committed.balance, "no")

NodeInv ==
  /\ ExchangeInv
  /\ CommittedIsGood
  /\ log \in Seq(Operations) /\ replay \in Seq(Operations)
  /\ queue \in Seq(QueueEvents)
  /\ RowsOK(rows)
  /\ crashes \in Nat /\ discards \in Nat
  /\ crashes = 0 => replay = <<>>

\* What is left of a sequence without its first element.
LEMMA TailIs ==
  ASSUME NEW V, NEW q \in Seq(V), q # <<>>
  PROVE  /\ Head(q) \in V /\ Head(q) = q[1] /\ Tail(q) \in Seq(V)
         /\ Len(q) \in Nat /\ Len(q) >= 1 /\ Len(Tail(q)) = Len(q) - 1
         /\ \A i \in 1 .. Len(q) - 1 : Tail(q)[i] = q[i + 1]
OBVIOUS

\* The consumer applies the first event of the queue.
LEMMA ConsumeIs ==
  ASSUME NodeInv, Consume
  PROVE  /\ queue # <<>> /\ queue' = Tail(queue)
         /\ Head(queue) \in QueueEvents
         /\ OnEvent(Table(rows, openIndex, ownerIndex), Head(queue)) = Table(rows', openIndex', ownerIndex')
         /\ Applied(rows, openIndex, ownerIndex, Head(queue), rows', openIndex', ownerIndex')
<1> DEFINE e == Head(queue)
           v == OnEvent(Table(rows, openIndex, ownerIndex), e)
<1>1. View = Table(rows, openIndex, ownerIndex)
  BY DEF View, Table
<1>2. queue # <<>> /\ queue' = Tail(queue) /\ rows' = v.rows /\ openIndex' = v.open /\ ownerIndex' = v.owned
  BY <1>1 DEF Consume
<1>3. e \in QueueEvents
  BY <1>2, TailIs DEF NodeInv
<1> HIDE DEF e
<1>4. PICK s, p, x : v = Table(s, p, x) /\ Applied(rows, openIndex, ownerIndex, e, s, p, x)
  BY <1>3, EventIs, Zenon DEF NodeInv
<1> HIDE DEF v
<1>5. rows' = s /\ openIndex' = p /\ ownerIndex' = x
  BY <1>2, <1>4 DEF Table
<1>6. v = Table(rows', openIndex', ownerIndex')
      /\ Applied(rows, openIndex, ownerIndex, e, rows', openIndex', ownerIndex')
  BY <1>4, <1>5
<1> QED BY <1>2, <1>3, <1>6 DEF e, v

\* A crash leaves the rows before or after the event that was being consumed.
LEMMA PartlyIs ==
  ASSUME NodeInv, PartlyConsumed
  PROVE  /\ ownerIndex' = ownerIndex
         /\ \/ rows' = rows
            \/ /\ queue # <<>> /\ Head(queue) \in QueueEvents
               /\ \E p, x : Applied(rows, openIndex, ownerIndex, Head(queue), rows', p, x)
<1>1. CASE UNCHANGED viewTables
  BY <1>1 DEF viewTables
<1>2. CASE ~ UNCHANGED viewTables
  <2> DEFINE e == Head(queue)
             v == OnEvent(Table(rows, openIndex, ownerIndex), e)
  <2>1. View = Table(rows, openIndex, ownerIndex)
    BY DEF View, Table
  <2>2. queue # <<>> /\ rows' = v.rows /\ ownerIndex' = ownerIndex
    BY <1>2, <2>1 DEF PartlyConsumed
  <2>3. e \in QueueEvents
    BY <2>2, TailIs DEF NodeInv
  <2> HIDE DEF e
  <2>4. PICK s, p, x : v = Table(s, p, x) /\ Applied(rows, openIndex, ownerIndex, e, s, p, x)
    BY <2>3, EventIs, Zenon DEF NodeInv
  <2> HIDE DEF v
  <2>5. rows' = s
    BY <2>2, <2>4 DEF Table
  <2>6. \E q, y : Applied(rows, openIndex, ownerIndex, e, rows', q, y)
    BY <2>4, <2>5
  <2> QED BY <2>2, <2>3, <2>6 DEF e
<1> QED BY <1>1, <1>2

\* A block executes operations, the lost block's first.
LEMMA DeliverIs ==
  ASSUME NodeInv, Deliver
  PROVE  \E op \in Operations :
           /\ Execute(op) /\ log' = Append(log, op)
           /\ \/ /\ replay = <<>> /\ replay' = <<>>
                 /\ discards' = IF op.type = "failed" THEN discards + 1 ELSE discards
              \/ /\ replay # <<>> /\ op = Head(replay) /\ replay' = Tail(replay)
                 /\ discards' = discards
<1>1. PICK op \in IF replay = <<>> THEN Messages ELSE {Head(replay)} :
        /\ Execute(op) /\ log' = Append(log, op)
        /\ discards' = IF replay = <<>> /\ op.type = "failed" THEN discards + 1 ELSE discards
  BY DEF Deliver
<1>2. replay' = IF replay = <<>> THEN <<>> ELSE Tail(replay)
  BY DEF Deliver
<1>3. CASE replay # <<>>
  <2>1. op = Head(replay) /\ Head(replay) \in Operations
    BY <1>1, <1>3, TailIs DEF NodeInv
  <2> QED BY <1>1, <1>2, <1>3, <2>1
<1>4. CASE replay = <<>>
  <2>1. DOMAIN markets \subseteq Nat /\ DOMAIN orders \subseteq Nat
    <3>1. markets \in MarketSeqs /\ IsStore(markets, seq, orders) /\ seq \in Nat
      BY InvIs DEF NodeInv, Good
    <3> QED BY <3>1 DEF MarketSeqs, IsStore
  <2>2. PostMessages({"post"}) \subseteq PostOps /\ PostMessages({"failed"}) \subseteq PostOps
    BY <2>1 DEF PostMessages, PostOps
  <2>3. [type : {"cancel"}, owner : Users, id : DOMAIN orders] \subseteq CancelOps
    BY <2>1 DEF CancelOps
  <2>4. \/ op \in [type : {"market"}, owner : Nominees, pair : AssetPairs]
        \/ op \in PostMessages({"post"}) \/ op \in PostMessages({"failed"})
        \/ op \in [type : {"cancel"}, owner : Users, id : DOMAIN orders]
        \/ op \in [type : {"end"}]
    BY <1>1, <1>4 DEF Messages
  <2>5. op \in Operations
    BY <2>2, <2>3, <2>4 DEF Operations, MarketOps, EndOps
  <2> QED BY <1>1, <1>2, <1>4, <2>5
<1> QED BY <1>3, <1>4

\* The node starts so.
LEMMA NodeInit == ViewInit => NodeInv
<1> SUFFICES ASSUME ViewInit PROVE NodeInv
  OBVIOUS
<1>1. ExchangeInv
  BY InitIsGood DEF ViewInit
<1>2. halted = "no"
  BY DEF ViewInit, Init
<1>3. committed.markets = markets /\ committed.seq = seq /\ committed.orders = orders
      /\ committed.balance = balance
  BY DEF ViewInit, ChainState
<1>4. CommittedIsGood
  BY <1>1, <1>2, <1>3, InvIs DEF CommittedIsGood
<1>5. RowsOK(rows)
  BY DEF ViewInit, RowsOK
<1> QED BY <1>1, <1>4, <1>5 DEF ViewInit, NodeInv

\* The committed state stays good while it stays.
LEMMA CommittedStays ==
  ASSUME NodeInv, committed' = committed
  PROVE  CommittedIsGood'
BY DEF NodeInv, CommittedIsGood

\* The books stay good while they stay.
LEMMA BooksStay ==
  ASSUME NodeInv, UNCHANGED exchangeVars
  PROVE  ExchangeInv'
<1>1. Good(markets, seq, orders, balance, halted)
  BY InvIs DEF NodeInv
<1>2. /\ markets' = markets /\ seq' = seq /\ orders' = orders
      /\ balance' = balance /\ halted' = halted
  BY DEF exchangeVars
<1> QED BY <1>1, <1>2, InvIs

\* The consumer keeps the rows well formed.
LEMMA NodeConsume == ASSUME NodeInv, Consume PROVE NodeInv'
<1>1. /\ UNCHANGED exchangeVars
      /\ committed' = committed /\ log' = log /\ replay' = replay
      /\ crashes' = crashes /\ discards' = discards
  BY DEF Consume, nodeVars
<1>2. ExchangeInv' /\ CommittedIsGood'
  BY <1>1, BooksStay, CommittedStays
<1>3. RowsOK(rows')
  BY ConsumeIs DEF Applied
<1>4. queue' \in Seq(QueueEvents)
  BY ConsumeIs, TailIs, Zenon DEF NodeInv
<1> QED BY <1>1, <1>2, <1>3, <1>4 DEF NodeInv

\* The queue grows by events.
LEMMA QueueGrows ==
  ASSUME queue \in Seq(QueueEvents), NEW op, Published(op)
  PROVE  queue' \in Seq(QueueEvents)
<1>1. PICK add : add \in Seq(QueueEvents) /\ queue' = queue \o add
  BY Zenon DEF Published, Ran
<1> QED BY <1>1

\* An operation of the block keeps the books.
LEMMA NodeDeliver == ASSUME NodeInv, Deliver PROVE NodeInv'
<1>1. PICK op \in Operations :
           /\ Execute(op) /\ log' = Append(log, op)
           /\ \/ /\ replay = <<>> /\ replay' = <<>>
                 /\ discards' = IF op.type = "failed" THEN discards + 1 ELSE discards
              \/ /\ replay # <<>> /\ op = Head(replay) /\ replay' = Tail(replay)
                 /\ discards' = discards
  BY DeliverIs
<1>2. rows' = rows /\ committed' = committed /\ crashes' = crashes
  BY DEF Deliver, viewTables
<1>3. ExchangeInv' /\ Published(op)
  BY <1>1, ExecuteIs DEF NodeInv
<1>4. queue' \in Seq(QueueEvents)
  BY <1>3, QueueGrows DEF NodeInv
<1>5. CommittedIsGood'
  BY <1>2, CommittedStays
<1>6. log' \in Seq(Operations)
  BY <1>1 DEF NodeInv
<1>7. replay' \in Seq(Operations) /\ (crashes' = 0 => replay' = <<>>)
  BY <1>1, <1>2, TailIs, Zenon DEF NodeInv
<1>8. discards' \in Nat
  BY <1>1 DEF NodeInv
<1> QED BY <1>2, <1>3, <1>4, <1>5, <1>6, <1>7, <1>8 DEF NodeInv

\* What is committed is good, because the chain is.
LEMMA NodeCommit == ASSUME NodeInv, Commit PROVE NodeInv'
<1>1. /\ UNCHANGED exchangeVars /\ queue' = queue /\ rows' = rows
      /\ log' = <<>> /\ replay' = replay
      /\ crashes' = crashes /\ discards' = discards /\ halted = "no"
  BY DEF Commit, viewTables
<1>2. ExchangeInv'
  BY <1>1, BooksStay
<1>3. /\ committed'.markets = markets /\ committed'.seq = seq /\ committed'.orders = orders
      /\ committed'.balance = balance
  BY DEF Commit, ChainState
<1>4. CommittedIsGood'
  BY <1>1, <1>3, InvIs DEF CommittedIsGood, NodeInv
<1> QED BY <1>1, <1>2, <1>4 DEF NodeInv

\* A simulated message leaves nothing but its event.
LEMMA SimulateIs ==
  ASSUME NodeInv, Simulate
  PROVE  /\ UNCHANGED <<exchangeVars, viewTables, committed, log, replay, crashes>>
         /\ discards' = discards + 1
         /\ \E e \in CreatedEvents : /\ queue' = queue \o <<e>> /\ <<e>> \in Seq(QueueEvents)
                                     /\ e.market \in DOMAIN committed.markets
<1>1. PICK op \in PostMessages({"simulated"}) : Discarded(committed, op)
  BY DEF Simulate
<1> DEFINE o == NewOrder(op.owner, op.market, op.direction, op.price, op.qty, op.tif)
           e == OrderCreated(committed.seq + 1, o)
<1>2. UNCHANGED <<exchangeVars, viewTables, committed, log, replay, crashes>> /\ discards' = discards + 1
  BY <1>1 DEF Simulate, Discarded
<1>3. op.market \in DOMAIN committed.markets /\ queue' = queue \o <<e>>
  BY <1>1 DEF Discarded, Publish
<1>4. committed.seq + 1 \in Nat /\ DOMAIN committed.markets \subseteq Nat
  BY DEF NodeInv, CommittedIsGood, Good, MarketSeqs
<1>5. /\ o.owner = op.owner /\ o.market = op.market /\ o.qty = op.qty
      /\ op.owner \in Users /\ op.market \in Nat /\ op.qty \in Nat
  BY <1>3, <1>4, ExchangeAssumption, Zenon DEF NewOrder, PostMessages
<1> HIDE DEF o
<1>6. e \in CreatedEvents /\ <<e>> \in Seq(QueueEvents) /\ e.market = o.market
  BY <1>4, <1>5, OrderCreatedIs DEF NodeInv
<1> HIDE DEF e
<1> QED BY <1>2, <1>3, <1>5, <1>6, Zenon

\* A simulated message keeps all of it.
LEMMA NodeSimulate == ASSUME NodeInv, Simulate PROVE NodeInv'
<1>1. /\ UNCHANGED <<exchangeVars, viewTables, committed, log, replay, crashes>>
      /\ discards' = discards + 1
  BY SimulateIs
<1>2. PICK e : queue' = queue \o <<e>> /\ <<e>> \in Seq(QueueEvents)
  BY SimulateIs, Zenon
<1>3. queue' \in Seq(QueueEvents)
  <2> DEFINE add == <<e>>
  <2>1. add \in Seq(QueueEvents) /\ queue' = queue \o add /\ queue \in Seq(QueueEvents)
    BY <1>2 DEF NodeInv
  <2> HIDE DEF add
  <2> QED BY <2>1
<1>4. ExchangeInv' /\ CommittedIsGood'
  BY <1>1, BooksStay, CommittedStays
<1> QED BY <1>1, <1>3, <1>4 DEF NodeInv, viewTables

\* A node that starts again has the good books of its last commit.
LEMMA NodeCrash == ASSUME NodeInv, Crash PROVE NodeInv'
<1>1. /\ halted = "no" /\ halted' = halted
      /\ markets' = committed.markets /\ orders' = committed.orders
      /\ seq' = committed.seq /\ balance' = committed.balance
      /\ queue' = <<>> /\ log' = <<>> /\ replay' = log \o replay
      /\ crashes' = crashes + 1 /\ committed' = committed /\ discards' = discards
      /\ PartlyConsumed
  BY DEF Crash
<1>2. ExchangeInv'
  <2>1. Good(markets', seq', orders', balance', halted')
    BY <1>1 DEF NodeInv, CommittedIsGood
  <2> QED BY <2>1, InvIs
<1>3. CommittedIsGood'
  BY <1>1, CommittedStays
<1>4. RowsOK(rows')
  BY <1>1, PartlyIs DEF Applied, NodeInv
<1>5. replay' \in Seq(Operations)
  BY <1>1 DEF NodeInv
<1> QED BY <1>1, <1>2, <1>3, <1>4, <1>5 DEF NodeInv

\* No step, no change.
LEMMA NodeStays == ASSUME NodeInv, UNCHANGED viewVars PROVE NodeInv'
<1>1. UNCHANGED <<exchangeVars, queue, viewTables, nodeVars>>
  BY DEF viewVars
<1>2. /\ UNCHANGED exchangeVars /\ queue' = queue /\ rows' = rows
      /\ committed' = committed /\ log' = log /\ replay' = replay
      /\ crashes' = crashes /\ discards' = discards
  BY <1>1 DEF viewTables, nodeVars
<1>3. ExchangeInv' /\ CommittedIsGood'
  BY <1>2, BooksStay, CommittedStays
<1> QED BY <1>2, <1>3 DEF NodeInv

\* Every step of the node keeps the invariant.
LEMMA NodeInductive == NodeInv /\ [ViewNext]_viewVars => NodeInv'
BY NodeConsume, NodeDeliver, NodeCommit, NodeSimulate, NodeCrash, NodeStays DEF ViewNext

\* It holds in every state.
LEMMA NodeInvariant == ViewSpec => []NodeInv
BY NodeInit, NodeInductive, PTL DEF ViewSpec

-----------------------------------------------------------------------------
(***************************************************************************)
(* Whose order an id is: who[id] is <<owner, market>>.  The operations p   *)
(* of the block, executed and still to be executed again, number the       *)
(* orders from base on; after the first l of them the last id is n, after  *)
(* all of them top.                                                        *)
(***************************************************************************)
Numbered(who, at, p, l, base, n, top) ==
  /\ at[0] = base /\ at[l] = n /\ at[Len(p)] = top
  /\ \A k \in 0 .. Len(p) : at[k] \in Nat /\ at[k] <= top
  /\ \A k \in 1 .. Len(p) :
       /\ p[k].type # "failed"
       /\ at[k] = IF p[k].type = "post" THEN at[k - 1] + 1 ELSE at[k - 1]
       /\ p[k].type = "post" => who[at[k]] = <<p[k].owner, p[k].market>>

\* The last id after op, and whose it is.
Count(op, n)         == IF op.type = "post" THEN n + 1 ELSE n
GivenTo(who, op, id) == op.type = "post" => who[id] = <<op.owner, op.market>>

\* The orders or rows os are those of who.
Known(who, top, os) ==
  \A id \in DOMAIN os : id \in 0 .. top /\ who[id] = <<os[id].owner, os[id].market>>

\* And so are the events of new orders.
Meant(who, top, e) ==
  e.type = "created" => e.id \in 0 .. top /\ who[e.id] = <<e.owner, e.market>>
Expected(who, top, q) == \A i \in 1 .. Len(q) : Meant(who, top, q[i])

\* And the entries of the owners' index, which all have a row.
Indexed(who, r, w) == \A x \in w : \E id \in DOMAIN r : x = <<who[id][1], id>>

\* The next operation of a lost block is executed again.
LEMMA NumberedAgain ==
  ASSUME NEW who, NEW at, NEW p \in Seq(Operations), NEW l \in Nat, l < Len(p),
         NEW base, NEW n, NEW top, Numbered(who, at, p, l, base, n, top),
         NEW op, op = p[l + 1], NEW n2, n2 = Count(op, n)
  PROVE  /\ Numbered(who, at, p, l + 1, base, n2, top)
         /\ n2 \in 0 .. top /\ op.type # "failed" /\ GivenTo(who, op, n2)
<1>1. l + 1 \in 1 .. Len(p) /\ l + 1 \in 0 .. Len(p) /\ (l + 1) - 1 = l
  OBVIOUS
<1> DEFINE m == l + 1
<1>2. m \in 1 .. Len(p) /\ m \in 0 .. Len(p) /\ m - 1 = l
  BY <1>1
<1> HIDE DEF m
<1>3. at[m] = IF p[m].type = "post" THEN at[m - 1] + 1 ELSE at[m - 1]
  BY <1>2 DEF Numbered
<1>4. at[m] = n2
  BY <1>2, <1>3 DEF Numbered, m, Count
<1>5. Numbered(who, at, p, m, base, n2, top)
  BY <1>4, Zenon DEF Numbered
<1>6. at[m] \in Nat /\ at[m] <= top
  BY <1>2 DEF Numbered
<1>7. top \in Nat
  <2>1. Len(p) \in 0 .. Len(p)
    OBVIOUS
  <2> QED BY <2>1 DEF Numbered
<1>8. n2 \in 0 .. top
  BY <1>4, <1>6, <1>7
<1>9. p[m].type # "failed" /\ (p[m].type = "post" => who[at[m]] = <<p[m].owner, p[m].market>>)
  BY <1>2 DEF Numbered
<1> QED BY <1>4, <1>5, <1>8, <1>9 DEF m, GivenTo

\* who2 is as who, up to top.
Agree(who2, who, top) == \A i \in 0 .. top : who2[i] = who[i]

\* An operation that is executed for the first time.
LEMMA NumberedMore ==
  ASSUME NEW who, NEW at, NEW p \in Seq(Operations), NEW base \in Nat, NEW n \in Nat,
         Numbered(who, at, p, Len(p), base, n, n),
         NEW op \in Operations, op.type # "failed",
         NEW n2, n2 = Count(op, n)
  PROVE  \E who2, at2 :
           /\ Numbered(who2, at2, Append(p, op), Len(p) + 1, base, n2, n2)
           /\ Agree(who2, who, n) /\ GivenTo(who2, op, n2)
<1> DEFINE l == Len(p)
           f == Append(p, op)
           who2 == [i \in Nat |-> IF i = n + 1 THEN <<op.owner, op.market>> ELSE who[i]]
           at2  == [k \in 0 .. l + 1 |-> IF k = l + 1 THEN n2 ELSE at[k]]
<1>1. l \in Nat /\ Len(f) = l + 1 /\ f[l + 1] = op /\ \A k \in 1 .. l : f[k] = p[k]
  OBVIOUS
<1>2. n2 \in Nat /\ n <= n2 /\ n2 <= n + 1 /\ n2 = IF op.type = "post" THEN n + 1 ELSE n
  BY DEF Count
<1>3. /\ at[0] = base /\ at[l] = n
      /\ \A k \in 0 .. l : at[k] \in Nat /\ at[k] <= n
      /\ \A k \in 1 .. l : /\ p[k].type # "failed"
                           /\ at[k] = IF p[k].type = "post" THEN at[k - 1] + 1 ELSE at[k - 1]
                           /\ p[k].type = "post" => who[at[k]] = <<p[k].owner, p[k].market>>
  BY DEF Numbered
<1>4. /\ who2[n + 1] = <<op.owner, op.market>>
      /\ \A i \in 0 .. n : who2[i] = who[i]
  OBVIOUS
<1> HIDE DEF l, f, who2
<1>5. /\ at2[l + 1] = n2
      /\ \A k \in 0 .. l : at2[k] = at[k]
  BY <1>1
<1> HIDE DEF at2
<1>6. at2[0] = base
  BY <1>1, <1>3, <1>5
<1>7. ASSUME NEW k \in 0 .. l + 1
      PROVE  at2[k] \in Nat /\ at2[k] <= n2
  <2>1. CASE k = l + 1
    BY <1>2, <1>5, <2>1
  <2>2. CASE k # l + 1
    <3>1. k \in 0 .. l
      BY <1>1, <2>2
    <3>2. at2[k] \in Nat /\ at2[k] <= n
      BY <1>3, <1>5, <3>1
    <3> QED BY <1>2, <3>2
  <2> QED BY <2>1, <2>2
<1>8. ASSUME NEW k \in 1 .. l + 1
      PROVE  /\ f[k].type # "failed"
             /\ at2[k] = IF f[k].type = "post" THEN at2[k - 1] + 1 ELSE at2[k - 1]
             /\ f[k].type = "post" => who2[at2[k]] = <<f[k].owner, f[k].market>>
  <2>1. CASE k = l + 1
    <3>1. k - 1 = l /\ l \in 0 .. l
      BY <1>1, <2>1
    <3>2. at2[k - 1] = n
      BY <1>3, <1>5, <3>1
    <3>3. f[k] = op /\ at2[k] = n2
      BY <1>1, <1>5, <2>1
    <3> QED BY <1>2, <1>4, <3>2, <3>3
  <2>2. CASE k # l + 1
    <3>1. k \in 1 .. l /\ k \in 0 .. l /\ k - 1 \in 0 .. l
      BY <1>1, <2>2
    <3>2. f[k] = p[k] /\ at2[k] = at[k] /\ at2[k - 1] = at[k - 1]
      BY <1>1, <1>5, <3>1
    <3>3. at[k] \in 0 .. n
      BY <1>3, <3>1
    <3>4. who2[at[k]] = who[at[k]]
      BY <1>4, <3>3
    <3> QED BY <1>3, <3>1, <3>2, <3>4, Zenon
  <2> QED BY <2>1, <2>2
<1>9. Numbered(who2, at2, f, l + 1, base, n2, n2)
  BY <1>1, <1>5, <1>6, <1>7, <1>8 DEF Numbered
<1>10. Agree(who2, who, n) /\ GivenTo(who2, op, n2)
  BY <1>2, <1>4 DEF Agree, GivenTo
<1> QED BY <1>9, <1>10 DEF l, f

\* The block is committed: what is left is a lost one.
LEMMA NumberedRest ==
  ASSUME NEW who, NEW at, NEW a \in Seq(Operations), NEW b \in Seq(Operations),
         NEW base, NEW n, NEW top, Numbered(who, at, a \o b, Len(a), base, n, top)
  PROVE  \E at2 : Numbered(who, at2, b, 0, n, n, top)
<1> DEFINE l == Len(a)
           m == Len(b)
           p == a \o b
           at2 == [k \in 0 .. m |-> at[l + k]]
<1>1. /\ l \in Nat /\ m \in Nat /\ Len(p) = l + m
      /\ \A k \in 1 .. l + m : p[k] = IF k <= l THEN a[k] ELSE b[k - l]
  BY Joined
<1>2. \A k \in 1 .. m : p[l + k] = b[k]
  <2> SUFFICES ASSUME NEW k \in 1 .. m PROVE p[l + k] = b[k]
    OBVIOUS
  <2> HIDE DEF p, l, m
  <2>1. l + k \in 1 .. l + m /\ ~ (l + k <= l) /\ (l + k) - l = k
    BY <1>1
  <2> QED BY <1>1, <2>1
<1>3. /\ at[l] = n /\ at[l + m] = top
      /\ \A k \in 0 .. l + m : at[k] \in Nat /\ at[k] <= top
      /\ \A k \in 1 .. l + m :
           /\ p[k].type # "failed"
           /\ at[k] = IF p[k].type = "post" THEN at[k - 1] + 1 ELSE at[k - 1]
           /\ p[k].type = "post" => who[at[k]] = <<p[k].owner, p[k].market>>
  <2> HIDE DEF p, l, m
  <2> QED BY <1>1, Zenon DEF Numbered, p, l
<1> HIDE DEF p, l, m
<1>4. \A k \in 0 .. m : at2[k] = at[l + k]
  OBVIOUS
<1> HIDE DEF at2
<1>5. at2[0] = n /\ at2[m] = top
  <2>1. 0 \in 0 .. m /\ m \in 0 .. m /\ l + 0 = l
    BY <1>1
  <2> QED BY <1>3, <1>4, <2>1
<1>6. ASSUME NEW k \in 0 .. m PROVE at2[k] \in Nat /\ at2[k] <= top
  <2>1. l + k \in 0 .. l + m
    BY <1>1
  <2> QED BY <1>3, <1>4, <2>1
<1>7. ASSUME NEW k \in 1 .. m
      PROVE  /\ b[k].type # "failed"
             /\ at2[k] = IF b[k].type = "post" THEN at2[k - 1] + 1 ELSE at2[k - 1]
             /\ b[k].type = "post" => who[at2[k]] = <<b[k].owner, b[k].market>>
  <2> DEFINE i == l + k
  <2>1. i \in 1 .. l + m /\ i - 1 = l + (k - 1) /\ k \in 0 .. m /\ k - 1 \in 0 .. m
    BY <1>1
  <2>2. p[i] = b[k] /\ at2[k] = at[i]
    BY <1>2, <1>4, <2>1
  <2>3. at2[k - 1] = at[l + (k - 1)]
    BY <1>4, <2>1
  <2> HIDE DEF i
  <2>4. at2[k - 1] = at[i - 1]
    BY <2>1, <2>3
  <2>5. /\ p[i].type # "failed"
        /\ at[i] = IF p[i].type = "post" THEN at[i - 1] + 1 ELSE at[i - 1]
        /\ p[i].type = "post" => who[at[i]] = <<p[i].owner, p[i].market>>
    BY <1>3, <2>1
  <2> QED BY <2>2, <2>4, <2>5
<1>8. Numbered(who, at2, b, 0, n, n, top)
  BY <1>5, <1>6, <1>7, Zenon DEF Numbered, m
<1> QED BY <1>8

\* The numbering starts again from the committed state.
LEMMA NumberedLost ==
  ASSUME NEW who, NEW at, NEW p, NEW l, NEW base, NEW n, NEW top,
         Numbered(who, at, p, l, base, n, top)
  PROVE  Numbered(who, at, p, 0, base, base, top)
BY Zenon DEF Numbered

\* What is known stays known.
LEMMA KnownMore ==
  ASSUME NEW who, NEW who2, NEW top \in Nat, NEW top2 \in Nat, top <= top2, Agree(who2, who, top)
  PROVE  /\ \A os : Known(who, top, os) => Known(who2, top2, os)
         /\ \A e : Meant(who, top, e) => Meant(who2, top2, e)
         /\ \A r, w : Known(who, top, r) /\ Indexed(who, r, w) => Indexed(who2, r, w)
<1>1. 0 .. top \subseteq 0 .. top2
  OBVIOUS
<1>2. ASSUME NEW os, Known(who, top, os) PROVE Known(who2, top2, os)
  BY <1>1, <1>2 DEF Known, Agree
<1>3. ASSUME NEW e, Meant(who, top, e) PROVE Meant(who2, top2, e)
  BY <1>1, <1>3 DEF Meant, Agree
<1>4. ASSUME NEW r, NEW w, Known(who, top, r), Indexed(who, r, w) PROVE Indexed(who2, r, w)
  <2> SUFFICES ASSUME NEW x \in w PROVE \E id \in DOMAIN r : x = <<who2[id][1], id>>
    BY DEF Indexed
  <2>1. PICK id \in DOMAIN r : x = <<who[id][1], id>>
    BY <1>4 DEF Indexed
  <2>2. who2[id] = who[id]
    BY <1>4 DEF Known, Agree
  <2> QED BY <2>1, <2>2
<1> QED BY <1>2, <1>3, <1>4

\* An operation's order and events are known.
LEMMA RanKnown ==
  ASSUME NEW who, NEW who2, NEW top \in Nat, NEW top2 \in Nat, top <= top2, Agree(who2, who, top),
         NEW op, op.type # "failed", NEW os, NEW n, NEW os2, NEW n2, NEW q \in Seq(QueueEvents),
         NEW add, Ran(op, os, n, os2, n2, add),
         n2 \in 0 .. top2, GivenTo(who2, op, n2),
         Known(who, top, os), Expected(who, top, q)
  PROVE  Known(who2, top2, os2) /\ Expected(who2, top2, q \o add)
<1>1. Known(who2, top2, os)
  BY KnownMore
<1>2. ASSUME NEW id \in DOMAIN os2
      PROVE  id \in 0 .. top2 /\ who2[id] = <<os2[id].owner, os2[id].market>>
  <2>1. Kept(op, os, n2, os2, id)
    BY DEF Ran
  <2> QED BY <1>1, <2>1 DEF Kept, Known, GivenTo
<1>3. Known(who2, top2, os2)
  BY <1>2 DEF Known
<1>4. ASSUME NEW i \in 1 .. Len(q) PROVE Meant(who2, top2, q[i])
  <2>1. Meant(who, top, q[i])
    BY DEF Expected
  <2> QED BY <2>1, KnownMore
<1>5. ASSUME NEW i \in 1 .. Len(add) PROVE Meant(who2, top2, add[i])
  <2>1. add[i].type = "created" => Announced(op, n2, add[i])
    BY DEF Ran
  <2> QED BY <2>1 DEF Announced, Meant, GivenTo
<1>6. add \in Seq(QueueEvents)
  BY DEF Ran
<1> DEFINE f == q \o add
           k == Len(q)
           m == Len(add)
<1>7. /\ k \in Nat /\ m \in Nat /\ Len(f) = k + m
      /\ \A i \in 1 .. k + m : f[i] = IF i <= k THEN q[i] ELSE add[i - k]
  BY <1>6, Joined
<1> HIDE DEF f, k, m
<1>8. ASSUME NEW i \in 1 .. k + m PROVE Meant(who2, top2, f[i])
  <2>1. CASE i <= k
    <3>1. i \in 1 .. k /\ f[i] = q[i]
      BY <1>7, <2>1
    <3> QED BY <1>4, <3>1 DEF k
  <2>2. CASE ~ (i <= k)
    <3>1. i - k \in 1 .. m /\ f[i] = add[i - k]
      BY <1>7, <2>2
    <3> QED BY <1>5, <3>1 DEF m
  <2> QED BY <2>1, <2>2
<1>9. Expected(who2, top2, f)
  BY <1>7, <1>8 DEF Expected
<1> QED BY <1>3, <1>9 DEF f

\* A consumed event keeps the rows and the owners' index known.
LEMMA AppliedKnown ==
  ASSUME NEW who, NEW top, NEW r, NEW o, NEW w, NEW e, NEW s, NEW p, NEW x,
         Known(who, top, r), Indexed(who, r, w), Meant(who, top, e),
         Applied(r, o, w, e, s, p, x)
  PROVE  Known(who, top, s) /\ Indexed(who, s, x) /\ Indexed(who, s, w)
<1>1. DOMAIN r \subseteq DOMAIN s
  BY DEF Applied
<1>2. Known(who, top, s)
  <2> SUFFICES ASSUME NEW id \in DOMAIN s
               PROVE  id \in 0 .. top /\ who[id] = <<s[id].owner, s[id].market>>
    BY DEF Known
  <2>1. \/ e.type = "created" /\ id = e.id /\ s[id] = NewRow(e)
        \/ id \in DOMAIN r /\ s[id].owner = r[id].owner /\ s[id].market = r[id].market
    BY DEF Applied
  <2>2. NewRow(e).owner = e.owner /\ NewRow(e).market = e.market
    BY DEF NewRow
  <2> QED BY <2>1, <2>2 DEF Known, Meant
<1>3. Indexed(who, s, w)
  BY <1>1 DEF Indexed
<1>4. Indexed(who, s, x)
  <2>1. CASE e.type # "created"
    <3>1. x = w
      BY <2>1 DEF Applied
    <3> QED BY <1>3, <3>1
  <2>2. CASE e.type = "created"
    <3>1. x = w \cup {<<e.owner, e.id>>} /\ e.id \in DOMAIN s
      BY <2>2 DEF Applied
    <3>2. who[e.id][1] = e.owner
      <4>1. who[e.id] = <<e.owner, e.market>>
        BY <2>2 DEF Meant
      <4> QED BY <4>1
    <3> QED BY <1>3, <3>1, <3>2 DEF Indexed
  <2> QED BY <2>1, <2>2
<1> QED BY <1>2, <1>3, <1>4

\* Through crashes and what is executed again, an id stays that of the same
\* order: in the store, on disk, in the queue and in the owners' index.
AreKnown(who, top) ==
  /\ Known(who, top, orders) /\ Known(who, top, committed.orders) /\ Known(who, top, rows)
  /\ Expected(who, top, queue)
  /\ Indexed(who, rows, ownerIndex)

OwnersKnown ==
  \E who, at : \E top \in Nat :
    /\ Numbered(who, at, log \o replay, Len(log), committed.seq, seq, top)
    /\ AreKnown(who, top)

OwnersInv == discards = 0 => OwnersKnown

\* Nobody has an order yet.
LEMMA OwnersInit == ViewInit => OwnersInv
<1> SUFFICES ASSUME ViewInit PROVE OwnersKnown
  BY DEF OwnersInv
<1> DEFINE who == [i \in Nat |-> <<0, 0>>]
           at == [i \in {0} |-> 0]
<1>1. log = <<>> /\ replay = <<>> /\ seq = 0 /\ committed.seq = seq /\ committed.orders = orders
  BY DEF ViewInit, Init, ChainState
<1>2. DOMAIN orders = {} /\ DOMAIN rows = {} /\ queue = <<>> /\ ownerIndex = {}
  BY DEF ViewInit, Init, NoOrders
<1>3. log \o replay = <<>> /\ Len(<<>>) = 0
  BY <1>1
<1>4. at[0] = 0
  OBVIOUS
<1> HIDE DEF who, at
<1>5. Numbered(who, at, <<>>, 0, 0, 0, 0)
  BY <1>4 DEF Numbered
<1>6. AreKnown(who, 0)
  BY <1>1, <1>2 DEF AreKnown, Known, Expected, Indexed
<1>7. Numbered(who, at, log \o replay, Len(log), committed.seq, seq, 0)
  BY <1>1, <1>3, <1>5
<1> QED BY <1>6, <1>7 DEF OwnersKnown

\* The consumer writes what is known.
LEMMA OwnersConsume == ASSUME NodeInv, OwnersInv, Consume PROVE OwnersInv'
<1>1. /\ UNCHANGED exchangeVars
      /\ committed' = committed /\ log' = log /\ replay' = replay /\ discards' = discards
  BY DEF Consume, nodeVars
<1>2. seq' = seq /\ orders' = orders
  BY <1>1 DEF exchangeVars
<1> SUFFICES ASSUME OwnersKnown PROVE OwnersKnown'
  BY <1>1 DEF OwnersInv
<1>3. PICK who, at : \E t \in Nat : /\ Numbered(who, at, log \o replay, Len(log), committed.seq, seq, t)
                                    /\ AreKnown(who, t)
  BY DEF OwnersKnown
<1>4. PICK top \in Nat : /\ Numbered(who, at, log \o replay, Len(log), committed.seq, seq, top)
                         /\ AreKnown(who, top)
  BY <1>3
<1>5. /\ queue # <<>> /\ queue' = Tail(queue) /\ Head(queue) = queue[1]
      /\ Len(queue) \in Nat /\ Len(queue) >= 1 /\ Len(Tail(queue)) = Len(queue) - 1
      /\ \A i \in 1 .. Len(queue) - 1 : Tail(queue)[i] = queue[i + 1]
  BY ConsumeIs, TailIs DEF NodeInv
<1>6. Expected(who, top, queue')
  <2> SUFFICES ASSUME NEW i \in 1 .. Len(queue') PROVE Meant(who, top, queue'[i])
    BY DEF Expected
  <2>1. i + 1 \in 1 .. Len(queue) /\ queue'[i] = queue[i + 1]
    BY <1>5
  <2> QED BY <1>4, <2>1 DEF AreKnown, Expected
<1>7. Meant(who, top, Head(queue))
  <2>1. 1 \in 1 .. Len(queue)
    BY <1>5
  <2>2. Meant(who, top, queue[1])
    BY <1>4, <2>1 DEF AreKnown, Expected
  <2> QED BY <1>5, <2>2
<1>8. Known(who, top, rows') /\ Indexed(who, rows', ownerIndex')
  BY <1>4, <1>7, ConsumeIs, AppliedKnown DEF AreKnown
<1>9. AreKnown(who, top)'
  BY <1>1, <1>2, <1>4, <1>6, <1>8 DEF AreKnown
<1>10. Numbered(who, at, log' \o replay', Len(log'), committed'.seq, seq', top)
  BY <1>1, <1>2, <1>4
<1> QED BY <1>4, <1>9, <1>10 DEF OwnersKnown

\* The block with the next operation of the lost one.
LEMMA Replayed ==
  ASSUME NEW V, NEW a \in Seq(V), NEW b \in Seq(V), b # <<>>
  PROVE  /\ Append(a, Head(b)) \o Tail(b) = a \o b
         /\ Len(Append(a, Head(b))) = Len(a) + 1 /\ Len(a) < Len(a \o b)
         /\ (a \o b)[Len(a) + 1] = Head(b)
         /\ a \o b \in Seq(V)
<1> DEFINE l == Len(a)
           m == Len(b)
           p == a \o b
           c == Append(a, Head(b))
           d == Tail(b)
           f == c \o d
<1>1. /\ Head(b) \in V /\ Head(b) = b[1] /\ d \in Seq(V)
      /\ m \in Nat /\ m >= 1 /\ Len(d) = m - 1
      /\ \A i \in 1 .. m - 1 : d[i] = b[i + 1]
  BY TailIs
<1>2. p \in Seq(V) /\ Len(p) = l + m /\ l \in Nat
      /\ \A i \in 1 .. l + m : p[i] = IF i <= l THEN a[i] ELSE b[i - l]
  BY Joined
<1>3. c \in Seq(V) /\ Len(c) = l + 1 /\ c[l + 1] = Head(b) /\ \A i \in 1 .. l : c[i] = a[i]
  BY <1>1
<1> HIDE DEF c, d
<1>4. f \in Seq(V) /\ Len(f) = Len(c) + Len(d)
      /\ \A i \in 1 .. Len(c) + Len(d) : f[i] = IF i <= Len(c) THEN c[i] ELSE d[i - Len(c)]
  BY <1>1, <1>3, Joined
<1> HIDE DEF f, p, l, m
<1>5. Len(f) = l + m /\ \A i \in 1 .. l + m : f[i] = IF i <= l + 1 THEN c[i] ELSE d[i - (l + 1)]
  BY <1>1, <1>2, <1>3, <1>4
<1>6. ASSUME NEW i \in 1 .. l + m PROVE f[i] = p[i]
  <2>1. CASE i <= l
    <3>1. i \in 1 .. l /\ i <= l + 1
      BY <1>2, <2>1
    <3> QED BY <1>2, <1>3, <1>5, <2>1, <3>1, Zenon
  <2>2. CASE i = l + 1
    <3>1. f[i] = c[l + 1] /\ p[i] = b[i - l] /\ i - l = 1
      BY <1>2, <1>5, <2>2
    <3> QED BY <1>1, <1>3, <3>1
  <2>3. CASE ~ (i <= l) /\ i # l + 1
    <3>1. ~ (i <= l + 1) /\ i - (l + 1) \in 1 .. m - 1 /\ (i - (l + 1)) + 1 = i - l
      BY <1>1, <1>2, <2>3
    <3>2. f[i] = d[i - (l + 1)] /\ p[i] = b[i - l]
      BY <1>2, <1>5, <2>3, <3>1
    <3>3. d[i - (l + 1)] = b[(i - (l + 1)) + 1]
      BY <1>1, <3>1, Zenon
    <3> QED BY <3>1, <3>2, <3>3
  <2> QED BY <2>1, <2>2, <2>3
<1>7. f = p
  <2>1. Len(f) = Len(p) /\ f = [i \in 1 .. Len(f) |-> f[i]] /\ p = [i \in 1 .. Len(p) |-> p[i]]
    BY <1>2, <1>4, <1>5
  <2>2. \A i \in 1 .. Len(p) : f[i] = p[i]
    BY <1>2, <1>6
  <2> QED BY <2>1, <2>2, Zenon
<1>8. l + 1 \in 1 .. l + m /\ ~ (l + 1 <= l) /\ (l + 1) - l = 1 /\ l < l + m
  BY <1>1, <1>2
<1>9. p[l + 1] = Head(b)
  BY <1>1, <1>2, <1>8
<1> QED BY <1>2, <1>3, <1>7, <1>8, <1>9, Zenon DEF f, p, c, d, l, m

\* What an operation of a block leaves known.
LEMMA OperationKnown ==
  ASSUME NodeInv, NEW op \in Operations, Execute(op), op.type # "failed",
         NEW who, NEW top \in Nat, AreKnown(who, top),
         NEW who2, NEW top2 \in Nat, top <= top2, Agree(who2, who, top),
         seq' \in 0 .. top2, GivenTo(who2, op, seq'),
         rows' = rows, ownerIndex' = ownerIndex, committed' = committed
  PROVE  AreKnown(who2, top2)'
<1>1. Published(op)
  BY ExecuteIs DEF NodeInv
<1>2. PICK add : Ran(op, orders, seq, orders', seq', add) /\ queue' = queue \o add
  BY <1>1, Zenon DEF Published
<1>3. Known(who, top, orders) /\ Expected(who, top, queue) /\ queue \in Seq(QueueEvents)
  BY DEF AreKnown, NodeInv
<1>4. Known(who2, top2, orders') /\ Expected(who2, top2, queue \o add)
  BY <1>2, <1>3, RanKnown, Zenon
<1>5. /\ Known(who2, top2, committed.orders) /\ Known(who2, top2, rows)
      /\ Indexed(who2, rows, ownerIndex)
  BY KnownMore DEF AreKnown
<1> QED BY <1>2, <1>4, <1>5 DEF AreKnown

\* An operation executed again gives its order the id it had.
LEMMA OwnersDeliver == ASSUME NodeInv, OwnersInv, Deliver PROVE OwnersInv'
<1>1. PICK op \in Operations :
           /\ Execute(op) /\ log' = Append(log, op)
           /\ \/ /\ replay = <<>> /\ replay' = <<>>
                 /\ discards' = IF op.type = "failed" THEN discards + 1 ELSE discards
              \/ /\ replay # <<>> /\ op = Head(replay) /\ replay' = Tail(replay)
                 /\ discards' = discards
  BY DeliverIs
<1>2. rows' = rows /\ ownerIndex' = ownerIndex /\ committed' = committed
  BY DEF Deliver, viewTables
<1>3. log \in Seq(Operations) /\ replay \in Seq(Operations) /\ discards \in Nat /\ seq \in Nat
      /\ committed.seq \in Nat
  BY InvIs DEF NodeInv, Good, CommittedIsGood
<1> SUFFICES ASSUME discards' = 0 PROVE OwnersKnown'
  BY DEF OwnersInv
<1>4. discards = 0 /\ (replay = <<>> => op.type # "failed")
  BY <1>1, <1>3
<1>5. PICK who, at : \E t \in Nat : /\ Numbered(who, at, log \o replay, Len(log), committed.seq, seq, t)
                                    /\ AreKnown(who, t)
  BY <1>4 DEF OwnersInv, OwnersKnown
<1>6. PICK top \in Nat : /\ Numbered(who, at, log \o replay, Len(log), committed.seq, seq, top)
                         /\ AreKnown(who, top)
  BY <1>5
<1>7. seq' = Count(op, seq)
  <2>1. Published(op)
    BY <1>1, ExecuteIs DEF NodeInv
  <2> QED BY <2>1 DEF Published, Ran, Count
<1>8. CASE replay # <<>>
  <2> DEFINE p == log \o replay
             l == Len(log)
  <2>1. op = Head(replay) /\ replay' = Tail(replay) /\ log' = Append(log, op)
    BY <1>1, <1>8
  <2>2. /\ log' \o replay' = p /\ Len(log') = l + 1 /\ l < Len(p) /\ p[l + 1] = op
        /\ p \in Seq(Operations) /\ l \in Nat
    <3>1. /\ Append(log, Head(replay)) \o Tail(replay) = log \o replay
          /\ Len(Append(log, Head(replay))) = Len(log) + 1 /\ Len(log) < Len(log \o replay)
          /\ (log \o replay)[Len(log) + 1] = Head(replay)
          /\ log \o replay \in Seq(Operations)
      BY <1>3, <1>8, Replayed, Zenon
    <3>2. Len(log) \in Nat
      BY <1>3
    <3> QED BY <2>1, <3>1, <3>2, Zenon
  <2> HIDE DEF p, l
  <2>3. Numbered(who, at, p, l, committed.seq, seq, top)
    BY <1>6 DEF p, l
  <2> DEFINE n == seq
             base == committed.seq
  <2>4. PICK n2 : n2 = seq' /\ n2 = Count(op, n)
    BY <1>7
  <2> HIDE DEF n, base
  <2>5. /\ Numbered(who, at, p, l + 1, base, n2, top)
        /\ n2 \in 0 .. top /\ op.type # "failed" /\ GivenTo(who, op, n2)
    <3>1. op = p[l + 1] /\ Numbered(who, at, p, l, base, n, top)
      BY <2>2, <2>3 DEF n, base
    <3> QED BY <2>2, <2>4, <3>1, NumberedAgain
  <2>6. seq' \in 0 .. top /\ op.type # "failed" /\ GivenTo(who, op, seq')
    BY <2>4, <2>5
  <2>7. Agree(who, who, top)
    BY DEF Agree
  <2>8. AreKnown(who, top)'
    <3>1. AreKnown(who, top)
      BY <1>6
    <3>2. top <= top /\ Execute(op)
      BY <1>1
    <3> QED BY <1>2, <2>6, <2>7, <3>1, <3>2, OperationKnown, Zenon
  <2>9. Numbered(who, at, log' \o replay', Len(log'), committed'.seq, seq', top)
    BY <1>2, <2>2, <2>4, <2>5 DEF base
  <2> QED BY <2>8, <2>9 DEF OwnersKnown
<1>9. CASE replay = <<>>
  <2>1. replay' = <<>> /\ log' = Append(log, op) /\ op.type # "failed"
    BY <1>1, <1>4, <1>9
  <2>2. log \o replay = log /\ log' \o replay' = log' /\ Len(log') = Len(log) + 1
    BY <1>3, <1>9, <2>1
  <2>3. top = seq
    BY <1>6, <2>2 DEF Numbered
  <2>4. Numbered(who, at, log, Len(log), committed.seq, seq, seq)
    BY <1>6, <2>2, <2>3
  <2> DEFINE n == seq
             base == committed.seq
             p == log
  <2>5. PICK n2 : n2 = seq' /\ n2 = Count(op, n)
    BY <1>7
  <2>6. n \in Nat /\ base \in Nat /\ p \in Seq(Operations) /\ n2 \in Nat /\ n <= n2
    BY <1>3, <2>5 DEF Count
  <2>7. Numbered(who, at, p, Len(p), base, n, n)
    BY <2>4
  <2> HIDE DEF n, base, p
  <2>8. PICK who2, at2 :
           /\ Numbered(who2, at2, Append(p, op), Len(p) + 1, base, n2, n2)
           /\ Agree(who2, who, n) /\ GivenTo(who2, op, n2)
    BY <2>1, <2>5, <2>6, <2>7, NumberedMore, Zenon
  <2>9. AreKnown(who2, n2)'
    <3>1. AreKnown(who, top) /\ top = n
      BY <1>6, <2>3 DEF n
    <3>2. n2 \in 0 .. n2
      BY <2>6
    <3> QED BY <1>1, <1>2, <2>1, <2>5, <2>6, <2>8, <3>1, <3>2, OperationKnown
  <2>10. Numbered(who2, at2, log' \o replay', Len(log'), committed'.seq, seq', n2)
    BY <1>2, <2>1, <2>2, <2>5, <2>8 DEF p, base
  <2> QED BY <2>6, <2>9, <2>10 DEF OwnersKnown
<1> QED BY <1>8, <1>9

\* A commit starts the next block where the last one ended.
LEMMA OwnersCommit == ASSUME NodeInv, OwnersInv, Commit PROVE OwnersInv'
<1>1. /\ UNCHANGED exchangeVars /\ queue' = queue /\ rows' = rows /\ ownerIndex' = ownerIndex
      /\ log' = <<>> /\ replay' = replay /\ discards' = discards
  BY DEF Commit, viewTables
<1>2. seq' = seq /\ orders' = orders /\ committed'.seq = seq /\ committed'.orders = orders
  BY <1>1 DEF Commit, ChainState, exchangeVars
<1> SUFFICES ASSUME OwnersKnown PROVE OwnersKnown'
  BY <1>1 DEF OwnersInv
<1>3. PICK who, at : \E t \in Nat : /\ Numbered(who, at, log \o replay, Len(log), committed.seq, seq, t)
                                    /\ AreKnown(who, t)
  BY DEF OwnersKnown
<1>4. PICK top \in Nat : /\ Numbered(who, at, log \o replay, Len(log), committed.seq, seq, top)
                         /\ AreKnown(who, top)
  BY <1>3
<1>5. log \in Seq(Operations) /\ replay \in Seq(Operations)
  BY DEF NodeInv
<1>6. PICK at2 : Numbered(who, at2, replay, 0, seq, seq, top)
  BY <1>4, <1>5, NumberedRest
<1>7. log' \o replay' = replay /\ Len(log') = 0
  BY <1>1, <1>5
<1>8. Numbered(who, at2, log' \o replay', Len(log'), committed'.seq, seq', top)
  BY <1>2, <1>6, <1>7
<1>9. AreKnown(who, top)'
  BY <1>1, <1>2, <1>4 DEF AreKnown
<1> QED BY <1>8, <1>9 DEF OwnersKnown

\* A crash goes back to the commit, and what was lost is still numbered.
LEMMA OwnersCrash == ASSUME NodeInv, OwnersInv, Crash PROVE OwnersInv'
<1>1. /\ orders' = committed.orders /\ seq' = committed.seq
      /\ queue' = <<>> /\ log' = <<>> /\ replay' = log \o replay
      /\ committed' = committed /\ discards' = discards
      /\ PartlyConsumed
  BY DEF Crash
<1> SUFFICES ASSUME OwnersKnown PROVE OwnersKnown'
  BY <1>1 DEF OwnersInv
<1>3. PICK who, at : \E t \in Nat : /\ Numbered(who, at, log \o replay, Len(log), committed.seq, seq, t)
                                    /\ AreKnown(who, t)
  BY DEF OwnersKnown
<1>4. PICK top \in Nat : /\ Numbered(who, at, log \o replay, Len(log), committed.seq, seq, top)
                         /\ AreKnown(who, top)
  BY <1>3
<1>5. log \in Seq(Operations) /\ replay \in Seq(Operations)
  BY DEF NodeInv
<1>6. log' \o replay' = log \o replay /\ Len(log') = 0
  BY <1>1, <1>5
<1>7. Numbered(who, at, log' \o replay', Len(log'), committed'.seq, seq', top)
  BY <1>1, <1>4, <1>6, NumberedLost
<1>8. Known(who, top, rows') /\ Indexed(who, rows', ownerIndex')
  <2>1. ownerIndex' = ownerIndex
    BY <1>1, PartlyIs
  <2>2. CASE rows' = rows
    BY <1>4, <2>1, <2>2 DEF AreKnown
  <2>3. CASE rows' # rows
    <3>1. PICK p, x : queue # <<>> /\ Applied(rows, openIndex, ownerIndex, Head(queue), rows', p, x)
      BY <1>1, <2>3, PartlyIs
    <3>2. Head(queue) = queue[1] /\ 1 \in 1 .. Len(queue)
      BY <3>1, TailIs DEF NodeInv
    <3>3. Meant(who, top, Head(queue))
      BY <1>4, <3>2 DEF AreKnown, Expected
    <3>4. Known(who, top, rows) /\ Indexed(who, rows, ownerIndex)
      BY <1>4 DEF AreKnown
    <3>5. Known(who, top, rows') /\ Indexed(who, rows', ownerIndex)
      BY <3>1, <3>3, <3>4, AppliedKnown
    <3> QED BY <2>1, <3>5
  <2> QED BY <2>2, <2>3
<1>9. AreKnown(who, top)'
  <2>1. Expected(who, top, <<>>)
    BY DEF Expected
  <2> QED BY <1>1, <1>4, <1>8, <2>1 DEF AreKnown
<1> QED BY <1>7, <1>9 DEF OwnersKnown

\* Every step keeps what is known.
LEMMA OwnersInductive == NodeInv /\ OwnersInv /\ [ViewNext]_viewVars => OwnersInv'
<1> SUFFICES ASSUME NodeInv, OwnersInv, [ViewNext]_viewVars PROVE OwnersInv'
  OBVIOUS
<1>1. CASE Consume
  BY <1>1, OwnersConsume
<1>2. CASE Deliver
  BY <1>2, OwnersDeliver
<1>3. CASE Commit
  BY <1>3, OwnersCommit
<1>4. CASE Simulate
  <2>1. discards' = discards + 1 /\ discards \in Nat
    BY <1>4, SimulateIs DEF NodeInv
  <2>2. discards' # 0
    BY <2>1
  <2> QED BY <2>2 DEF OwnersInv
<1>5. CASE Crash
  BY <1>5, OwnersCrash
<1>6. CASE UNCHANGED viewVars
  <2>1. UNCHANGED <<exchangeVars, queue, viewTables, nodeVars>>
    BY <1>6 DEF viewVars
  <2>2. /\ seq' = seq /\ orders' = orders /\ queue' = queue /\ rows' = rows /\ ownerIndex' = ownerIndex
        /\ committed' = committed /\ log' = log /\ replay' = replay /\ discards' = discards
    BY <2>1 DEF exchangeVars, viewTables, nodeVars
  <2>3. OwnersKnown => OwnersKnown'
    BY <2>2 DEF OwnersKnown, AreKnown
  <2> QED BY <2>2, <2>3 DEF OwnersInv
<1> QED BY <1>1, <1>2, <1>3, <1>4, <1>5, <1>6 DEF ViewNext

\* So the index of the owners has each order under its owner.
LEMMA OwnersSeen == NodeInv /\ OwnersInv => OwnersSeeTheirOrders
<1> SUFFICES ASSUME OwnersKnown, NEW entry \in ownerIndex
             PROVE  /\ entry[2] \in DOMAIN rows
                    /\ rows[entry[2]].owner = entry[1]
                    /\ entry[2] \in DOMAIN orders => orders[entry[2]].owner = entry[1]
  BY DEF OwnersInv, OwnersSeeTheirOrders
<1>1. PICK who, at : \E t \in Nat : AreKnown(who, t)
  BY DEF OwnersKnown
<1>2. PICK top \in Nat : AreKnown(who, top)
  BY <1>1
<1>3. PICK id \in DOMAIN rows : entry = <<who[id][1], id>>
  BY <1>2 DEF AreKnown, Indexed
<1>4. entry[2] = id /\ entry[1] = who[id][1]
  BY <1>3
<1>5. who[id] = <<rows[id].owner, rows[id].market>>
  BY <1>2 DEF AreKnown, Known
<1>6. id \in DOMAIN orders => who[id] = <<orders[id].owner, orders[id].market>>
  BY <1>2 DEF AreKnown, Known
<1> QED BY <1>4, <1>5, <1>6

\* It holds in every state.
LEMMA OwnersInvariant == ViewSpec => [](NodeInv /\ OwnersInv)
BY NodeInit, NodeInductive, OwnersInit, OwnersInductive, PTL DEF ViewSpec

(* Whatever is posted, matched, lost in crashes and executed again, while  *)
(* no order is discarded an owner is only shown orders of his own:         *)
(* OwnersSeeTheirOrders.                                                   *)
THEOREM OwnersTheorem == ViewSpec => []OwnersSeeTheirOrders
BY OwnersInvariant, OwnersSeen, PTL

-----------------------------------------------------------------------------
(***************************************************************************)
(* The index of the open orders.                                           *)
(***************************************************************************)

\* The next event does not move a row to another market.
SameMarket ==
  queue # <<>> /\ Head(queue).type = "created" /\ Head(queue).id \in DOMAIN rows
    => rows[Head(queue).id].market = Head(queue).market

IndexIsListed == Listed(rows, openIndex)

\* Then it keeps the index.
LEMMA ListedConsume ==
  ASSUME NodeInv, SameMarket, IndexIsListed, Consume
  PROVE  IndexIsListed'
<1>1. queue # <<>> /\ Applied(rows, openIndex, ownerIndex, Head(queue), rows', openIndex', ownerIndex')
  BY ConsumeIs
<1>2. Listed(rows', openIndex')
  BY <1>1 DEF Applied, SameMarket, IndexIsListed
<1> QED BY <1>2 DEF IndexIsListed

\* What another action does with it.
LEMMA ListedElse ==
  ASSUME NodeInv, [ViewNext]_viewVars, ~ Consume
  PROVE  crashes' = 0 => rows' = rows /\ openIndex' = openIndex
<1>1. CASE Deliver
  BY <1>1 DEF Deliver, viewTables
<1>2. CASE Commit
  BY <1>2 DEF Commit, viewTables
<1>3. CASE Simulate
  BY <1>3 DEF Simulate, viewTables
<1>4. CASE Crash
  <2>1. crashes' = crashes + 1 /\ crashes \in Nat
    BY <1>4 DEF Crash, NodeInv
  <2> QED BY <2>1
<1>5. CASE UNCHANGED viewVars
  BY <1>5 DEF viewVars, viewTables
<1> QED BY <1>1, <1>2, <1>3, <1>4, <1>5 DEF ViewNext

\* While no order is discarded, an id is always the same order.
ListedInv == crashes = 0 /\ discards = 0 => IndexIsListed

\* There are no rows and no entries.
LEMMA ListedInit == ViewInit => IndexIsListed
BY DEF ViewInit, IndexIsListed, Listed

\* While the owner and market of an id are known, they do not change.
LEMMA OwnersSameMarket == NodeInv /\ OwnersInv /\ discards = 0 => SameMarket
<1> SUFFICES ASSUME NodeInv, OwnersKnown, queue # <<>>, Head(queue).type = "created",
                    Head(queue).id \in DOMAIN rows
             PROVE  rows[Head(queue).id].market = Head(queue).market
  BY DEF OwnersInv, SameMarket
<1> DEFINE e == Head(queue)
<1>1. PICK who, at : \E t \in Nat : AreKnown(who, t)
  BY DEF OwnersKnown
<1>2. PICK top \in Nat : AreKnown(who, top)
  BY <1>1
<1>3. e = queue[1] /\ 1 \in 1 .. Len(queue)
  BY TailIs DEF NodeInv
<1>4. Meant(who, top, e)
  BY <1>2, <1>3 DEF AreKnown, Expected
<1>5. e.type = "created" /\ e.id \in DOMAIN rows
  OBVIOUS
<1> HIDE DEF e
<1>6. who[e.id] = <<e.owner, e.market>>
  BY <1>4, <1>5 DEF Meant
<1>7. who[e.id] = <<rows[e.id].owner, rows[e.id].market>>
  BY <1>2, <1>5 DEF AreKnown, Known
<1>8. rows[e.id].market = e.market
  BY <1>6, <1>7
<1> QED BY <1>8 DEF e

\* No step takes a discarded order back.
LEMMA DiscardsGrow ==
  ASSUME NodeInv, [ViewNext]_viewVars, discards' = 0
  PROVE  discards = 0
<1>1. discards \in Nat
  BY DEF NodeInv
<1>2. CASE Consume
  BY <1>2 DEF Consume, nodeVars
<1>3. CASE Deliver
  <2>1. discards' \in {discards, discards + 1}
    BY <1>3, DeliverIs
  <2> QED BY <1>1, <2>1
<1>4. CASE Commit
  BY <1>4 DEF Commit
<1>5. CASE Simulate
  BY <1>1, <1>5 DEF Simulate
<1>6. CASE Crash
  BY <1>6 DEF Crash
<1>7. CASE UNCHANGED viewVars
  BY <1>7 DEF viewVars, nodeVars
<1> QED BY <1>2, <1>3, <1>4, <1>5, <1>6, <1>7 DEF ViewNext

\* Every step keeps the index, until a crash.
LEMMA ListedInductive == NodeInv /\ OwnersInv /\ ListedInv /\ [ViewNext]_viewVars => ListedInv'
<1> SUFFICES ASSUME NodeInv, OwnersInv, ListedInv, [ViewNext]_viewVars, crashes' = 0, discards' = 0
             PROVE  IndexIsListed'
  BY DEF ListedInv
<1>1. discards = 0
  BY DiscardsGrow
<1>2. CASE Consume
  <2>1. crashes = 0
    BY <1>2 DEF Consume, nodeVars
  <2> QED BY <1>1, <1>2, <2>1, OwnersSameMarket, ListedConsume DEF ListedInv
<1>3. CASE ~ Consume
  <2>1. rows' = rows /\ openIndex' = openIndex
    BY <1>3, ListedElse
  <2>2. crashes = 0
    <3>1. crashes \in Nat
      BY DEF NodeInv
    <3>2. crashes' \in {crashes, crashes + 1}
      BY <1>3 DEF ViewNext, Deliver, Commit, Simulate, Crash, viewVars, nodeVars
    <3> QED BY <3>1, <3>2
  <2> QED BY <1>1, <2>1, <2>2 DEF ListedInv, IndexIsListed
<1> QED BY <1>2, <1>3

\* That is OpenOrdersListed.
LEMMA IsListed == IndexIsListed => OpenOrdersListed
BY DEF IndexIsListed, Listed, OpenOrdersListed

(* With any number of markets, while no order is discarded the open index  *)
(* lists the open rows and no others, until a crash: OpenOrdersListed.     *)
THEOREM OpenOrdersTheorem == ViewSpec => [](discards = 0 => OpenOrdersListed)
<1>1. ViewInit => ListedInv
  BY ListedInit DEF ListedInv
<1>2. ListedInv => (discards = 0 => OpenOrdersListed)
  <2>1. CASE crashes = 0
    BY <2>1, IsListed DEF ListedInv
  <2>2. CASE crashes # 0
    BY <2>2 DEF OpenOrdersListed
  <2> QED BY <2>1, <2>2
<1> QED BY <1>1, <1>2, OwnersInvariant, ListedInductive, PTL DEF ViewSpec

\* With one market, all rows and events are of that market.
OneMarket ==
  /\ DOMAIN markets \subseteq {1} /\ DOMAIN committed.markets \subseteq {1}
  /\ \A id \in DOMAIN rows : rows[id].market = 1
  /\ \A i \in 1 .. Len(queue) : queue[i].type = "created" => queue[i].market = 1

OneInv == OneMarket /\ (crashes = 0 => IndexIsListed)

\* With one market there is no other to move to.
LEMMA OneSameMarket == NodeInv /\ OneMarket => SameMarket
<1> SUFFICES ASSUME NodeInv, OneMarket, queue # <<>>, Head(queue).type = "created",
                    Head(queue).id \in DOMAIN rows
             PROVE  rows[Head(queue).id].market = Head(queue).market
  BY DEF SameMarket
<1>1. Head(queue) = queue[1] /\ 1 \in 1 .. Len(queue)
  BY TailIs DEF NodeInv
<1>2. Head(queue).market = 1
  BY <1>1 DEF OneMarket
<1> QED BY <1>2 DEF OneMarket

\* An event of that market keeps the rows of that market.
LEMMA OneApplied ==
  ASSUME NEW r, NEW o, NEW w, NEW e, NEW s, NEW p, NEW x, Applied(r, o, w, e, s, p, x),
         \A id \in DOMAIN r : r[id].market = 1, e.type = "created" => e.market = 1
  PROVE  \A id \in DOMAIN s : s[id].market = 1
<1> SUFFICES ASSUME NEW id \in DOMAIN s PROVE s[id].market = 1
  OBVIOUS
<1>1. \/ e.type = "created" /\ s[id] = NewRow(e)
      \/ id \in DOMAIN r /\ s[id].market = r[id].market
  BY DEF Applied
<1>2. NewRow(e).market = e.market
  BY DEF NewRow
<1> QED BY <1>1, <1>2

\* The events of that market.
OfOneMarket(q) == \A i \in 1 .. Len(q) : q[i].type = "created" => q[i].market = 1

\* Two such queues make one.
LEMMA OneJoined ==
  ASSUME NEW q \in Seq(QueueEvents), OfOneMarket(q), NEW add \in Seq(QueueEvents), OfOneMarket(add)
  PROVE  OfOneMarket(q \o add)
<1> DEFINE f == q \o add
           k == Len(q)
           m == Len(add)
<1>1. /\ k \in Nat /\ m \in Nat /\ Len(f) = k + m
      /\ \A i \in 1 .. k + m : f[i] = IF i <= k THEN q[i] ELSE add[i - k]
  BY Joined
<1> HIDE DEF f, k, m
<1>2. ASSUME NEW i \in 1 .. k + m, f[i].type = "created" PROVE f[i].market = 1
  <2>1. CASE i <= k
    <3>1. i \in 1 .. k /\ f[i] = q[i]
      BY <1>1, <2>1
    <3> QED BY <1>2, <3>1 DEF k, OfOneMarket
  <2>2. CASE ~ (i <= k)
    <3>1. i - k \in 1 .. m /\ f[i] = add[i - k]
      BY <1>1, <2>2
    <3> QED BY <1>2, <3>1 DEF m, OfOneMarket
  <2> QED BY <2>1, <2>2
<1>3. OfOneMarket(f)
  BY <1>1, <1>2 DEF OfOneMarket
<1> QED BY <1>3 DEF f

\* With at most one market there is at most the first.
LEMMA OneMarketAtMost ==
  ASSUME MaxMarkets \in {0, 1}, NodeInv, DOMAIN markets \subseteq {1},
         NEW op \in Operations, MarketsStay(op)
  PROVE  DOMAIN markets' \subseteq {1}
<1>1. CASE markets' = markets
  BY <1>1
<1>2. CASE markets' # markets
  <2>1. /\ Len(markets) < MaxMarkets /\ Len(markets') = Len(markets) + 1
        /\ markets' \in MarketSeqs
    BY <1>2 DEF MarketsStay
  <2>2. markets \in MarketSeqs
    BY InvIs DEF NodeInv, Good
  <2>3. Len(markets) \in Nat /\ DOMAIN markets' = 1 .. Len(markets')
    BY <2>1, <2>2 DEF MarketSeqs
  <2>4. Len(markets') = 1
    BY <2>1, <2>3
  <2>5. 1 .. 1 = {1}
    OBVIOUS
  <2> QED BY <2>3, <2>4, <2>5
<1> QED BY <1>1, <1>2

\* Every step keeps to that market.
LEMMA OneInductive ==
  ASSUME MaxMarkets \in {0, 1}
  PROVE  NodeInv /\ OneMarket /\ [ViewNext]_viewVars => OneMarket'
<1> SUFFICES ASSUME NodeInv, OneMarket, [ViewNext]_viewVars PROVE OneMarket'
  OBVIOUS
<1>0. OfOneMarket(queue) /\ queue \in Seq(QueueEvents)
  BY DEF OneMarket, OfOneMarket, NodeInv
<1>1. CASE Consume
  <2>1. markets' = markets /\ committed' = committed
    BY <1>1 DEF Consume, exchangeVars, nodeVars
  <2>2. /\ queue' = Tail(queue) /\ queue # <<>>
        /\ Applied(rows, openIndex, ownerIndex, Head(queue), rows', openIndex', ownerIndex')
    BY <1>1, ConsumeIs
  <2>3. /\ Head(queue) = queue[1] /\ Len(queue) \in Nat /\ Len(queue) >= 1
        /\ Len(queue') = Len(queue) - 1
        /\ \A i \in 1 .. Len(queue) - 1 : queue'[i] = queue[i + 1]
    BY <2>2, TailIs DEF NodeInv
  <2>4. Head(queue).type = "created" => Head(queue).market = 1
    <3>1. 1 \in 1 .. Len(queue)
      BY <2>3
    <3> QED BY <2>3, <3>1 DEF OneMarket
  <2>5. \A id \in DOMAIN rows' : rows'[id].market = 1
    <3>1. \A id \in DOMAIN rows : rows[id].market = 1
      BY DEF OneMarket
    <3> QED BY <2>2, <2>4, <3>1, OneApplied
  <2>6. ASSUME NEW i \in 1 .. Len(queue'), queue'[i].type = "created"
        PROVE  queue'[i].market = 1
    <3>1. i + 1 \in 1 .. Len(queue) /\ queue'[i] = queue[i + 1]
      BY <2>3
    <3> QED BY <2>6, <3>1 DEF OneMarket
  <2> QED BY <2>1, <2>5, <2>6 DEF OneMarket
<1>2. CASE Deliver
  <2>1. PICK op \in Operations : Execute(op)
    BY <1>2, DeliverIs
  <2>2. rows' = rows /\ committed' = committed
    BY <1>2 DEF Deliver, viewTables
  <2>3. Published(op) /\ MarketsStay(op)
    BY <2>1, ExecuteIs DEF NodeInv
  <2>4. PICK add : Ran(op, orders, seq, orders', seq', add) /\ queue' = queue \o add
    BY <2>3 DEF Published
  <2>5. add \in Seq(QueueEvents) /\ OfOneMarket(add)
    <3> SUFFICES ASSUME NEW i \in 1 .. Len(add), add[i].type = "created" PROVE add[i].market = 1
      BY <2>4 DEF Ran, OfOneMarket
    <3>1. Announced(op, seq', add[i])
      BY <2>4 DEF Ran
    <3>2. op.market \in DOMAIN markets /\ add[i].market = op.market
      BY <2>4, <3>1 DEF Announced, Ran
    <3> QED BY <3>2 DEF OneMarket
  <2>6. OfOneMarket(queue \o add)
    BY <1>0, <2>5, OneJoined
  <2>7. DOMAIN markets' \subseteq {1}
    BY <2>3, OneMarketAtMost DEF OneMarket
  <2> QED BY <2>2, <2>4, <2>6, <2>7 DEF OneMarket, OfOneMarket
<1>3. CASE Commit
  <2>1. markets' = markets /\ committed'.markets = markets /\ rows' = rows /\ queue' = queue
    BY <1>3 DEF Commit, ChainState, exchangeVars, viewTables
  <2> QED BY <2>1 DEF OneMarket
<1>4. CASE Simulate
  <2>1. markets' = markets /\ committed' = committed /\ rows' = rows
    BY <1>4, SimulateIs DEF exchangeVars, viewTables
  <2>2. PICK e \in CreatedEvents : /\ queue' = queue \o <<e>> /\ <<e>> \in Seq(QueueEvents)
                                   /\ e.market \in DOMAIN committed.markets
    BY <1>4, SimulateIs, Zenon
  <2> DEFINE add == <<e>>
  <2>3. \A i \in 1 .. Len(add) : add[i] = e
    OBVIOUS
  <2>4. add \in Seq(QueueEvents) /\ queue' = queue \o add
    BY <2>2
  <2> HIDE DEF add
  <2>5. e.market = 1
    BY <2>2 DEF OneMarket
  <2>6. OfOneMarket(add)
    BY <2>3, <2>5 DEF OfOneMarket
  <2>7. OfOneMarket(queue \o add)
    BY <1>0, <2>4, <2>6, OneJoined
  <2> QED BY <2>1, <2>4, <2>7 DEF OneMarket, OfOneMarket
<1>5. CASE Crash
  <2>1. /\ markets' = committed.markets /\ committed' = committed /\ queue' = <<>>
        /\ PartlyConsumed
    BY <1>5 DEF Crash
  <2>2. \A id \in DOMAIN rows' : rows'[id].market = 1
    <3>1. \A id \in DOMAIN rows : rows[id].market = 1
      BY DEF OneMarket
    <3>2. CASE rows' = rows
      BY <3>1, <3>2
    <3>3. CASE rows' # rows
      <4>1. PICK p, x : queue # <<>> /\ Applied(rows, openIndex, ownerIndex, Head(queue), rows', p, x)
        BY <2>1, <3>3, PartlyIs
      <4>2. Head(queue) = queue[1] /\ 1 \in 1 .. Len(queue)
        BY <4>1, TailIs DEF NodeInv
      <4>3. Head(queue).type = "created" => Head(queue).market = 1
        BY <4>2 DEF OneMarket
      <4> QED BY <3>1, <4>1, <4>3, OneApplied
    <3> QED BY <3>2, <3>3
  <2> QED BY <2>1, <2>2 DEF OneMarket
<1>6. CASE UNCHANGED viewVars
  <2>1. UNCHANGED <<exchangeVars, queue, viewTables, nodeVars>>
    BY <1>6 DEF viewVars
  <2>2. markets' = markets /\ committed' = committed /\ rows' = rows /\ queue' = queue
    BY <2>1 DEF exchangeVars, viewTables, nodeVars
  <2> QED BY <2>2 DEF OneMarket
<1> QED BY <1>1, <1>2, <1>3, <1>4, <1>5, <1>6 DEF ViewNext

\* And the index, until a crash.
LEMMA OneListed ==
  ASSUME MaxMarkets \in {0, 1}
  PROVE  NodeInv /\ OneInv /\ [ViewNext]_viewVars => OneInv'
<1> SUFFICES ASSUME NodeInv, OneInv, [ViewNext]_viewVars PROVE OneInv'
  OBVIOUS
<1>1. OneMarket'
  BY OneInductive DEF OneInv
<1> SUFFICES ASSUME crashes' = 0 PROVE IndexIsListed'
  BY <1>1 DEF OneInv
<1>2. CASE Consume
  <2>1. crashes = 0
    BY <1>2 DEF Consume, nodeVars
  <2> QED BY <1>2, <2>1, OneSameMarket, ListedConsume DEF OneInv
<1>3. CASE ~ Consume
  <2>1. rows' = rows /\ openIndex' = openIndex
    BY <1>3, ListedElse
  <2>2. crashes = 0
    <3>1. crashes \in Nat
      BY DEF NodeInv
    <3>2. crashes' \in {crashes, crashes + 1}
      BY <1>3 DEF ViewNext, Deliver, Commit, Simulate, Crash, viewVars, nodeVars
    <3> QED BY <3>1, <3>2
  <2> QED BY <2>1, <2>2 DEF OneInv, IndexIsListed
<1> QED BY <1>2, <1>3

(* With one market, both indexes match the rows whatever failed, was only  *)
(* simulated, or was lost and executed again: IndexesMatchRows.  (With     *)
(* more markets, a discarded order's id may be given to an order of        *)
(* another market, and the open index keeps both.)                         *)
THEOREM IndexesTheorem ==
  ASSUME MaxMarkets \in {0, 1}
  PROVE  ViewSpec => []IndexesMatchRows
<1>1. ViewInit => OneInv
  BY ListedInit DEF ViewInit, Init, ChainState, OneInv, OneMarket
<1>2. NodeInv /\ OneInv /\ [ViewNext]_viewVars => OneInv'
  BY OneListed
<1>3. OneInv => OpenOrdersListed
  <2>1. CASE crashes = 0
    BY <2>1, IsListed DEF OneInv
  <2>2. CASE crashes # 0
    BY <2>2 DEF OpenOrdersListed
  <2> QED BY <2>1, <2>2
<1>4. ViewSpec => []OpenOrdersListed
  BY <1>1, <1>2, <1>3, OwnersInvariant, PTL DEF ViewSpec
<1>5. OpenOrdersListed /\ OwnersSeeTheirOrders => IndexesMatchRows
  BY DEF IndexesMatchRows
<1> QED BY <1>4, <1>5, OwnersTheorem, PTL

-----------------------------------------------------------------------------
(***************************************************************************)
(* What the rows will show when the queue is consumed.                     *)
(***************************************************************************)

\* The tables v show the orders os, open, with what is left of them and in
\* both indexes.
Shows(v, os) ==
  \A id \in DOMAIN os :
    /\ id \in DOMAIN v.rows
    /\ v.rows[id].status = "OPEN"
    /\ v.rows[id].qty - v.rows[id].filled = os[id].qty
    /\ <<os[id].market, id>> \in v.open
    /\ <<os[id].owner, id>> \in v.owned

\* No row is lost from v to w, nor is it opened again.
Later(v, w) ==
  \A id \in DOMAIN v.rows :
    id \in DOMAIN w.rows /\ (v.rows[id].status # "OPEN" => w.rows[id].status # "OPEN")

IsTable(v) == \E r, o, w : v = Table(r, o, w) /\ RowsOK(r)

\* The tables v become r[1], r[2] ... r[m] by the first m events of q.
Path(r, v, q, m) == r[0] = v /\ \A i \in 1 .. m : r[i] = OnEvent(r[i - 1], q[i])

\* After m events of q the tables v show the orders os, numbered up to n.
ShownAfter(v, q, m, os, n) ==
  \E r : /\ Path(r, v, q, m)
         /\ \A i \in 0 .. m : Later(r[i], r[m])
         /\ IsTable(r[m]) /\ DOMAIN r[m].rows \subseteq 1 .. n
         /\ Shows(r[m], os)

\* An event changes the tables from one in time order to the next.
LEMMA EventIsLater ==
  ASSUME NEW v, IsTable(v), NEW e \in QueueEvents, e.type = "created" => e.id \notin DOMAIN v.rows
  PROVE  /\ IsTable(OnEvent(v, e)) /\ Later(v, OnEvent(v, e))
         /\ DOMAIN OnEvent(v, e).rows \subseteq DOMAIN v.rows \cup {e.id}
         /\ e.type # "created" => DOMAIN OnEvent(v, e).rows = DOMAIN v.rows
<1>1. PICK r, o, w : v = Table(r, o, w) /\ RowsOK(r)
  BY DEF IsTable
<1>2. PICK s, p, x : OnEvent(v, e) = Table(s, p, x) /\ Applied(r, o, w, e, s, p, x)
  BY <1>1, EventIs
<1>3. v.rows = r /\ OnEvent(v, e).rows = s
  BY <1>1, <1>2 DEF Table
<1>4. /\ RowsOK(s) /\ DOMAIN r \subseteq DOMAIN s
      /\ \A id \in DOMAIN s :
           \/ e.type = "created" /\ id = e.id
           \/ id \in DOMAIN r /\ (r[id].status # "OPEN" => s[id].status # "OPEN")
  BY <1>2 DEF Applied
<1>5. IsTable(OnEvent(v, e))
  BY <1>2, <1>4 DEF IsTable
<1>6. Later(v, OnEvent(v, e))
  BY <1>3, <1>4 DEF Later
<1>7. DOMAIN s \subseteq DOMAIN r \cup {e.id} /\ (e.type # "created" => DOMAIN s = DOMAIN r)
  BY <1>4, Zenon
<1> QED BY <1>3, <1>5, <1>6, <1>7

\* Time goes on.
LEMMA LaterLater ==
  ASSUME NEW u, NEW v, NEW w, Later(u, v), Later(v, w)
  PROVE  Later(u, w)
BY DEF Later

\* And stands still.
LEMMA LaterItself == \A v : Later(v, v)
BY DEF Later

\* One more event that keeps the orders shown.
LEMMA ShownMore ==
  ASSUME NEW v, NEW q, NEW m \in Nat, NEW r, Path(r, v, q, m), \A i \in 0 .. m : Later(r[i], r[m]),
         NEW w, w = OnEvent(r[m], q[m + 1]), IsTable(w), Later(r[m], w),
         NEW n, DOMAIN w.rows \subseteq 1 .. n, NEW os, Shows(w, os)
  PROVE  ShownAfter(v, q, m + 1, os, n)
<1> DEFINE t == [i \in 0 .. m + 1 |-> IF i = m + 1 THEN w ELSE r[i]]
<1>1. t[m + 1] = w /\ \A i \in 0 .. m : t[i] = r[i]
  OBVIOUS
<1> HIDE DEF t
<1>2. Path(t, v, q, m + 1)
  <2>1. t[0] = v
    BY <1>1 DEF Path
  <2>2. ASSUME NEW i \in 1 .. m + 1 PROVE t[i] = OnEvent(t[i - 1], q[i])
    <3>1. CASE i = m + 1
      <4>1. i - 1 = m /\ m \in 0 .. m
        BY <3>1
      <4>2. t[i - 1] = r[m] /\ t[i] = w /\ q[i] = q[m + 1]
        BY <1>1, <3>1, <4>1
      <4> QED BY <4>2
    <3>2. CASE i # m + 1
      <4>1. i \in 1 .. m /\ i \in 0 .. m /\ i - 1 \in 0 .. m
        BY <3>2
      <4>2. t[i] = r[i] /\ t[i - 1] = r[i - 1]
        BY <1>1, <4>1
      <4> QED BY <4>1, <4>2 DEF Path
    <3> QED BY <3>1, <3>2
  <2> QED BY <2>1, <2>2 DEF Path
<1>3. ASSUME NEW i \in 0 .. m + 1 PROVE Later(t[i], t[m + 1])
  <2>1. CASE i = m + 1
    BY <2>1, LaterItself
  <2>2. CASE i # m + 1
    <3>1. i \in 0 .. m /\ t[i] = r[i]
      BY <1>1, <2>2
    <3> QED BY <1>1, <3>1, LaterLater
  <2> QED BY <2>1, <2>2
<1>4. IsTable(t[m + 1]) /\ DOMAIN t[m + 1].rows \subseteq 1 .. n /\ Shows(t[m + 1], os)
  BY <1>1
<1> QED BY <1>2, <1>3, <1>4 DEF ShownAfter

IsOrders(os) == \A i \in DOMAIN os : os[i] \in OrderIn(markets)

\* What the batch tells leaves orders.
LEMMA ToldIs ==
  ASSUME NEW a, IsOrders(a), NEW x \in Events, NEW b, Told(a, x, b)
  PROVE  /\ IsOrders(b) /\ DOMAIN b \subseteq DOMAIN a
         /\ \A i \in DOMAIN b :
              /\ b[i].owner = a[i].owner /\ b[i].market = a[i].market
              /\ \/ x.type # "batch" => i # x.id
                 \/ /\ x.type = "fill" /\ i = x.id /\ x.filled # a[i].qty
                    /\ b[i].qty = a[i].qty - x.filled
              /\ (x.type # "batch" => i # x.id) => b[i].qty = a[i].qty
<1>1. CASE x.type = "batch"
  <2>1. b = a
    BY <1>1 DEF Told
  <2> QED BY <1>1, <2>1
<1>2. CASE b = Without(a, x.id)
  BY <1>2 DEF Without, IsOrders
<1>3. CASE /\ x.type = "fill" /\ x.id \in DOMAIN a /\ x.filled <= a[x.id].qty /\ x.filled # a[x.id].qty
           /\ b = [a EXCEPT ![x.id].qty = a[x.id].qty - x.filled]
  <2> DEFINE k == a[x.id].qty - x.filled
             o == a[x.id]
             u == [o EXCEPT !.qty = k]
  <2>1. o \in OrderIn(markets) /\ x.filled \in Nat
    BY <1>3 DEF IsOrders, Events, BatchEvents
  <2>2. o.qty \in Nat /\ x.filled <= o.qty /\ x.filled # o.qty
    BY <1>3, <2>1 DEF OrderIn
  <2>3. k \in Nat \ {0}
    BY <2>1, <2>2
  <2>4. DOMAIN b = DOMAIN a /\ b[x.id] = u /\ \A i \in DOMAIN a \ {x.id} : b[i] = a[i]
    BY <1>3
  <2>5. k = o.qty - x.filled
    OBVIOUS
  <2> HIDE DEF k, o
  <2>6. u \in OrderIn(markets) /\ u.owner = o.owner /\ u.market = o.market /\ u.qty = k
    BY <2>1, <2>3 DEF OrderIn
  <2> HIDE DEF u
  <2>7. o = a[x.id]
    BY DEF o
  <2> QED BY <1>3, <2>2, <2>4, <2>5, <2>6, <2>7 DEF IsOrders
<1> QED BY <1>1, <1>2, <1>3 DEF Told

\* An event of the batch keeps the orders shown.
LEMMA ToldShown ==
  ASSUME NEW v, IsTable(v), NEW a, IsOrders(a), Shows(v, a), NEW x \in Events,
         NEW b, Told(a, x, b)
  PROVE  Shows(OnEvent(v, x), b)
<1>1. PICK r, o, w : v = Table(r, o, w) /\ RowsOK(r)
  BY DEF IsTable
<1>2. v.rows = r /\ v.open = o /\ v.owned = w
  BY <1>1 DEF Table
<1>3. OnEvent(v, x) = IF x.type = "batch" \/ x.id \notin DOMAIN r THEN v
                      ELSE Table(With(r, x.id, Written(r[x.id], x)),
                                 Opened(o, x.id, Written(r[x.id], x)), w)
  BY <1>1, ChangeIs
<1>4. /\ DOMAIN b \subseteq DOMAIN a
      /\ \A i \in DOMAIN b :
              /\ b[i].owner = a[i].owner /\ b[i].market = a[i].market
              /\ \/ x.type # "batch" => i # x.id
                 \/ /\ x.type = "fill" /\ i = x.id /\ x.filled # a[i].qty
                    /\ b[i].qty = a[i].qty - x.filled
              /\ (x.type # "batch" => i # x.id) => b[i].qty = a[i].qty
  BY ToldIs
<1>5. \A i \in DOMAIN a : /\ i \in DOMAIN r /\ r[i].status = "OPEN" /\ r[i].qty - r[i].filled = a[i].qty
                          /\ <<a[i].market, i>> \in o /\ <<a[i].owner, i>> \in w
  BY <1>2 DEF Shows
<1>6. CASE x.type = "batch" \/ x.id \notin DOMAIN r
  <2>1. OnEvent(v, x) = v
    BY <1>3, <1>6
  <2>2. \A i \in DOMAIN b : b[i].qty = a[i].qty
    <3>1. \A i \in DOMAIN b : x.type # "batch" => i # x.id
      BY <1>4, <1>5, <1>6, Zenon
    <3> QED BY <1>4, <3>1
  <2> QED BY <1>4, <2>1, <2>2 DEF Shows
<1>7. CASE ~ (x.type = "batch" \/ x.id \notin DOMAIN r)
  <2> DEFINE row == Written(r[x.id], x)
             s == With(r, x.id, row)
             p == Opened(o, x.id, row)
  <2>1. OnEvent(v, x) = Table(s, p, w)
    BY <1>3, <1>7
  <2>2. DOMAIN s = DOMAIN r \cup {x.id} /\ s[x.id] = row /\ \A i \in DOMAIN r \ {x.id} : s[i] = r[i]
    BY DEF With
  <2>3. \A y : y \in o /\ y # <<row.market, x.id>> => y \in p
    BY DEF Opened
  <2>4. row.status = "OPEN" => o \subseteq p
    BY DEF Opened
  <2>5. x.type # "batch" /\ x.id \in DOMAIN r /\ r[x.id] \in Rows
    BY <1>1, <1>7 DEF RowsOK
  <2>6. x.type = "fill" /\ r[x.id].status = "OPEN" /\ r[x.id].filled + x.filled # r[x.id].qty
          => /\ row.status = "OPEN" /\ row.qty = r[x.id].qty
             /\ row.filled = r[x.id].filled + x.filled
    <3> DEFINE k == r[x.id].filled + x.filled
               y == [r[x.id] EXCEPT !.filled = k]
    <3>1. SUFFICES ASSUME x.type = "fill", r[x.id].status = "OPEN", k # r[x.id].qty
                   PROVE  row.status = "OPEN" /\ row.qty = r[x.id].qty /\ row.filled = k
      OBVIOUS
    <3>2. row = IF FilledUp(y) THEN [y EXCEPT !.status = "FILLED"] ELSE y
      BY <3>1 DEF Written
    <3> HIDE DEF k, row
    <3>3. y.status = "OPEN" /\ y.qty = r[x.id].qty /\ y.filled = k
      BY <2>5, <3>1 DEF Rows
    <3>4. ~ FilledUp(y)
      BY <3>1, <3>3 DEF FilledUp
    <3> HIDE DEF y
    <3> QED BY <3>2, <3>3, <3>4
  <2> HIDE DEF row, s, p
  <2>7. ASSUME NEW i \in DOMAIN b
        PROVE  /\ i \in DOMAIN s /\ s[i].status = "OPEN" /\ s[i].qty - s[i].filled = b[i].qty
               /\ <<b[i].market, i>> \in p /\ <<b[i].owner, i>> \in w
    <3>1. /\ i \in DOMAIN a /\ b[i].owner = a[i].owner /\ b[i].market = a[i].market
          /\ i \in DOMAIN r /\ r[i].status = "OPEN" /\ r[i].qty - r[i].filled = a[i].qty
          /\ <<a[i].market, i>> \in o /\ <<a[i].owner, i>> \in w
      BY <1>4, <1>5
    <3>2. CASE i # x.id
      <4>1. s[i] = r[i] /\ i \in DOMAIN s /\ b[i].qty = a[i].qty
        BY <1>4, <2>2, <3>1, <3>2
      <4>2. <<b[i].market, i>> \in p
        BY <2>3, <3>1, <3>2
      <4> QED BY <3>1, <4>1, <4>2
    <3>3. CASE i = x.id
      <4>1. x.type = "fill" /\ x.filled # a[i].qty /\ b[i].qty = a[i].qty - x.filled
        BY <1>4, <2>5, <3>3
      <4>2. r[i].filled \in Nat /\ r[i].qty \in Nat /\ x.filled \in Nat
        BY <2>5, <3>3, <4>1 DEF Rows, Events, BatchEvents
      <4>3. r[i].filled + x.filled # r[i].qty
        BY <3>1, <4>1, <4>2
      <4>4. row.status = "OPEN" /\ row.qty = r[i].qty /\ row.filled = r[i].filled + x.filled
        BY <2>6, <3>1, <3>3, <4>1, <4>3
      <4>5. s[i] = row /\ i \in DOMAIN s
        BY <2>2, <3>3
      <4>6. s[i].qty - s[i].filled = b[i].qty
        BY <3>1, <4>1, <4>2, <4>4, <4>5
      <4>7. <<b[i].market, i>> \in p
        BY <2>4, <3>1, <4>4
      <4> QED BY <3>1, <4>4, <4>5, <4>6, <4>7
    <3> QED BY <3>2, <3>3
  <2>8. OnEvent(v, x).rows = s /\ OnEvent(v, x).open = p /\ OnEvent(v, x).owned = w
    BY <2>1 DEF Table
  <2> QED BY <2>7, <2>8 DEF Shows
<1> QED BY <1>6, <1>7

\* The orders b are the orders a and that of the event e.
Adds(a, e, b) ==
  /\ DOMAIN b = DOMAIN a \cup {e.id} /\ \A i \in DOMAIN a : i # e.id => b[i] = a[i]
  /\ b[e.id].owner = e.owner /\ b[e.id].market = e.market /\ b[e.id].qty = e.qty

\* So does that of a new order, which is then shown as well.
LEMMA CreatedShown ==
  ASSUME NEW v, IsTable(v), NEW os, Shows(v, os),
         NEW e \in CreatedEvents, e.id \notin DOMAIN v.rows, NEW os2, Adds(os, e, os2)
  PROVE  Shows(OnEvent(v, e), os2)
<1>1. PICK r, o, w : v = Table(r, o, w)
  BY DEF IsTable
<1>2. v.rows = r /\ v.open = o /\ v.owned = w
  BY <1>1 DEF Table
<1>0. /\ DOMAIN os2 = DOMAIN os \cup {e.id} /\ \A i \in DOMAIN os : i # e.id => os2[i] = os[i]
      /\ os2[e.id].owner = e.owner /\ os2[e.id].market = e.market /\ os2[e.id].qty = e.qty
  BY DEF Adds
<1> DEFINE row == NewRow(e)
           s == With(r, e.id, row)
           p == o \cup {<<e.market, e.id>>}
           x == w \cup {<<e.owner, e.id>>}
<1>3. OnEvent(v, e) = Table(s, p, x)
  <2>1. OnEvent(v, e) = AfterCreated(r, o, w, e)
    BY <1>1, CreatedIs
  <2> QED BY <2>1 DEF AfterCreated
<1>4. row.status = "OPEN" /\ row.qty = e.qty /\ row.filled = 0 /\ e.qty \in Nat
  BY DEF NewRow, CreatedEvents
<1> HIDE DEF row
<1>5. DOMAIN s = DOMAIN r \cup {e.id} /\ s[e.id] = row /\ \A i \in DOMAIN r \ {e.id} : s[i] = r[i]
  BY DEF With
<1>6. o \subseteq p /\ w \subseteq x /\ <<e.market, e.id>> \in p /\ <<e.owner, e.id>> \in x
  OBVIOUS
<1> HIDE DEF s, p, x
<1>7. ASSUME NEW i \in DOMAIN os2
      PROVE  /\ i \in DOMAIN s /\ s[i].status = "OPEN" /\ s[i].qty - s[i].filled = os2[i].qty
             /\ <<os2[i].market, i>> \in p /\ <<os2[i].owner, i>> \in x
  <2>1. CASE i = e.id
    <3>1. s[i].qty - s[i].filled = e.qty
      BY <1>4, <1>5, <2>1
    <3> QED BY <1>0, <1>4, <1>5, <1>6, <2>1, <3>1
  <2>2. CASE i # e.id
    <3>1. i \in DOMAIN os /\ os2[i] = os[i] /\ i \in DOMAIN r /\ s[i] = r[i]
      BY <1>0, <1>2, <1>5, <2>2, Zenon DEF Shows
    <3>2. /\ r[i].status = "OPEN" /\ r[i].qty - r[i].filled = os[i].qty
          /\ <<os[i].market, i>> \in o /\ <<os[i].owner, i>> \in w
      BY <1>2, <3>1 DEF Shows
    <3> QED BY <1>5, <1>6, <3>1, <3>2
  <2> QED BY <2>1, <2>2
<1>8. OnEvent(v, e).rows = s /\ OnEvent(v, e).open = p /\ OnEvent(v, e).owned = x
  BY <1>3 DEF Table
<1> QED BY <1>7, <1>8 DEF Shows

\* Of longer queues only the first events count.
LEMMA ShownPrefix ==
  ASSUME NEW v, NEW q, NEW f, NEW m, \A i \in 1 .. m : f[i] = q[i], NEW os, NEW n
  PROVE  ShownAfter(v, q, m, os, n) => ShownAfter(v, f, m, os, n)
<1>1. \A r : Path(r, v, q, m) => Path(r, v, f, m)
  BY DEF Path
<1> QED BY <1>1 DEF ShownAfter

\* One event of the batch.
LEMMA ToldShownAfter ==
  ASSUME NEW v, NEW f, NEW m \in Nat, NEW a, NEW n, ShownAfter(v, f, m, a, n), IsOrders(a),
         NEW b, f[m + 1] \in Events, Told(a, f[m + 1], b)
  PROVE  ShownAfter(v, f, m + 1, b, n) /\ IsOrders(b)
<1> DEFINE x == f[m + 1]
<1>1. PICK r : /\ Path(r, v, f, m)
               /\ \A i \in 0 .. m : Later(r[i], r[m])
               /\ IsTable(r[m]) /\ DOMAIN r[m].rows \subseteq 1 .. n
               /\ Shows(r[m], a)
  BY DEF ShownAfter
<1> DEFINE u == r[m]
           w == OnEvent(u, x)
<1>2. x \in Events /\ Told(a, x, b) /\ IsTable(u) /\ Shows(u, a)
  BY <1>1
<1> HIDE DEF x, u
<1>3. Shows(w, b) /\ IsOrders(b)
  BY <1>2, ToldShown, ToldIs
<1>4. x \in QueueEvents /\ x.type # "created"
  BY <1>2 DEF QueueEvents, Events, BatchEvents
<1>5. IsTable(w) /\ Later(u, w) /\ DOMAIN w.rows = DOMAIN u.rows
  BY <1>2, <1>4, EventIsLater
<1> HIDE DEF w
<1>6. w = OnEvent(r[m], f[m + 1]) /\ Later(r[m], w) /\ DOMAIN w.rows \subseteq 1 .. n
  BY <1>1, <1>5 DEF w, u, x
<1>7. ShownAfter(v, f, m + 1, b, n)
  BY <1>1, <1>3, <1>5, <1>6, ShownMore
<1> QED BY <1>3, <1>7

\* All events of the batch.
LEMMA TellShown ==
  ASSUME NEW v, NEW q \in Seq(QueueEvents), NEW a, NEW n, ShownAfter(v, q, Len(q), a, n), IsOrders(a),
         NEW e \in Seq(Events), NEW b, Tell(a, e, b)
  PROVE  ShownAfter(v, q \o e, Len(q \o e), b, n)
<1> DEFINE f == q \o e
           m == Len(q)
           k == Len(e)
<1>1. PICK t : t[0] = a /\ t[k] = b /\ \A i \in 1 .. k : Told(t[i - 1], e[i], t[i])
  BY DEF Tell
<1>2. /\ m \in Nat /\ k \in Nat /\ Len(f) = m + k
      /\ \A i \in 1 .. m + k : f[i] = IF i <= m THEN q[i] ELSE e[i - m]
  <2>1. Events \subseteq QueueEvents
    BY DEF QueueEvents
  <2>2. e \in Seq(QueueEvents)
    BY <2>1
  <2> QED BY <2>2, Joined
<1>3. \A i \in 1 .. k : e[i] \in Events
  OBVIOUS
<1>4. ShownAfter(v, q, m, a, n)
  OBVIOUS
<1> HIDE DEF f, m, k
<1>5. ShownAfter(v, f, m, a, n)
  <2>1. \A i \in 1 .. m : f[i] = q[i]
    BY <1>2
  <2> QED BY <1>4, <2>1, ShownPrefix
<1> DEFINE T == {i \in 0 .. k : ShownAfter(v, f, m + i, t[i], n) /\ IsOrders(t[i])}
<1>6. 0 \in T
  <2>1. m + 0 = m /\ 0 \in 0 .. k
    BY <1>2
  <2> QED BY <1>1, <1>5, <2>1
<1>7. ASSUME NEW i \in 0 .. k - 1, i \in T PROVE i + 1 \in T
  <2>1. ShownAfter(v, f, m + i, t[i], n) /\ IsOrders(t[i])
    BY <1>7
  <2> DEFINE j == i + 1
             l == m + i
  <2>2. j \in 1 .. k /\ j - 1 = i /\ j \in 0 .. k /\ l \in Nat /\ l + 1 = m + j
        /\ l + 1 \in 1 .. m + k /\ ~ (l + 1 <= m) /\ (l + 1) - m = j
    BY <1>2
  <2> HIDE DEF j, T
  <2>3. f[l + 1] = e[j]
    BY <1>2, <2>2
  <2>4. Told(t[i], e[j], t[j]) /\ e[j] \in Events
    BY <1>1, <1>3, <2>2
  <2>5. ShownAfter(v, f, l, t[i], n)
    BY <2>1
  <2> HIDE DEF l
  <2>6. f[l + 1] \in Events /\ Told(t[i], f[l + 1], t[j])
    BY <2>3, <2>4
  <2>7. ShownAfter(v, f, l + 1, t[j], n) /\ IsOrders(t[j])
    BY <2>1, <2>2, <2>5, <2>6, ToldShownAfter, Zenon
  <2> QED BY <2>2, <2>7 DEF T, j
<1> HIDE DEF T
<1>8. 0 .. k \subseteq T
  BY <1>2, <1>6, <1>7, UpToEnd, Zenon
<1>9. k \in T
  BY <1>2, <1>8
<1>10. ShownAfter(v, f, m + k, b, n)
  BY <1>1, <1>9 DEF T
<1> QED BY <1>2, <1>10 DEF f

\* What is shown of orders is shown of some of them, or of older ones.
LEMMA ShownFewer ==
  ASSUME NEW v, NEW q, NEW m, NEW a, NEW n, NEW b, DOMAIN b \subseteq DOMAIN a,
         \A i \in DOMAIN b : b[i].owner = a[i].owner /\ b[i].market = a[i].market /\ b[i].qty = a[i].qty
  PROVE  ShownAfter(v, q, m, a, n) => ShownAfter(v, q, m, b, n)
<1>1. \A t : Shows(t, a) => Shows(t, b)
  BY DEF Shows
<1> QED BY <1>1 DEF ShownAfter

\* A new order.
LEMMA NewShown ==
  ASSUME NEW v, NEW q \in Seq(QueueEvents), NEW a, NEW n \in Nat, ShownAfter(v, q, Len(q), a, n),
         NEW e \in CreatedEvents, e.id = n + 1, NEW b, Adds(a, e, b)
  PROVE  ShownAfter(v, Append(q, e), Len(Append(q, e)), b, n + 1)
<1> DEFINE f == Append(q, e)
           m == Len(q)
           k == n + 1
<1>1. m \in Nat /\ Len(f) = m + 1 /\ f[m + 1] = e /\ \A i \in 1 .. m : f[i] = q[i]
  BY DEF QueueEvents
<1>2. ShownAfter(v, q, m, a, n)
  OBVIOUS
<1>3. k \in Nat /\ e.id = k /\ k \notin 1 .. n /\ 1 .. n \subseteq 1 .. k /\ k \in 1 .. k
  OBVIOUS
<1> HIDE DEF f, m, k
<1>5. ShownAfter(v, f, m, a, n)
  BY <1>1, <1>2, ShownPrefix
<1>6. PICK r : /\ Path(r, v, f, m)
               /\ \A i \in 0 .. m : Later(r[i], r[m])
               /\ IsTable(r[m]) /\ DOMAIN r[m].rows \subseteq 1 .. n
               /\ Shows(r[m], a)
  BY <1>5 DEF ShownAfter
<1> DEFINE u == r[m]
           w == OnEvent(u, e)
<1>7. IsTable(u) /\ Shows(u, a) /\ DOMAIN u.rows \subseteq 1 .. n
  BY <1>6
<1> HIDE DEF u
<1>8. e.id \notin DOMAIN u.rows
  BY <1>3, <1>7
<1>9. Shows(w, b)
  BY <1>7, <1>8, CreatedShown
<1>10. IsTable(w) /\ Later(u, w) /\ DOMAIN w.rows \subseteq DOMAIN u.rows \cup {e.id}
  BY <1>7, <1>8, EventIsLater DEF QueueEvents
<1> HIDE DEF w
<1>11. w = OnEvent(r[m], f[m + 1]) /\ Later(r[m], w) /\ DOMAIN w.rows \subseteq 1 .. k
  BY <1>1, <1>3, <1>7, <1>10 DEF w, u
<1>12. ShownAfter(v, f, m + 1, b, k)
  BY <1>1, <1>6, <1>9, <1>10, <1>11, ShownMore
<1> QED BY <1>1, <1>12 DEF f, k

\* The first event of the queue is consumed.
LEMMA ShownTail ==
  ASSUME NEW v, NEW q \in Seq(QueueEvents), q # <<>>, NEW a, NEW n,
         ShownAfter(v, q, Len(q), a, n), NEW w, w = OnEvent(v, Head(q))
  PROVE  ShownAfter(w, Tail(q), Len(Tail(q)), a, n)
<1> DEFINE f == Tail(q)
           m == Len(q)
<1>1. /\ Head(q) = q[1] /\ m \in Nat /\ m >= 1 /\ Len(f) = m - 1
      /\ \A i \in 1 .. m - 1 : f[i] = q[i + 1]
  BY TailIs
<1>2. PICK r : /\ Path(r, v, q, m)
               /\ \A i \in 0 .. m : Later(r[i], r[m])
               /\ IsTable(r[m]) /\ DOMAIN r[m].rows \subseteq 1 .. n
               /\ Shows(r[m], a)
  BY DEF ShownAfter
<1> HIDE DEF f, m
<1> DEFINE t == [i \in 0 .. m - 1 |-> r[i + 1]]
<1>3. \A i \in 0 .. m - 1 : t[i] = r[i + 1]
  OBVIOUS
<1> HIDE DEF t
<1>4. t[m - 1] = r[m]
  <2>1. m - 1 \in 0 .. m - 1 /\ (m - 1) + 1 = m
    BY <1>1
  <2> QED BY <1>3, <2>1
<1>5. Path(t, w, f, m - 1)
  <2>1. t[0] = w
    <3>1. 1 \in 1 .. m /\ 1 - 1 = 0 /\ 0 \in 0 .. m - 1 /\ 0 + 1 = 1
      BY <1>1
    <3>2. r[1] = OnEvent(r[1 - 1], q[1]) /\ r[0] = v
      BY <1>2, <3>1 DEF Path
    <3>3. t[0] = r[1]
      BY <1>3, <3>1
    <3> QED BY <1>1, <3>1, <3>2, <3>3
  <2>2. ASSUME NEW i \in 1 .. m - 1 PROVE t[i] = OnEvent(t[i - 1], f[i])
    <3> DEFINE j == i + 1
    <3>1. j \in 1 .. m /\ j - 1 = i /\ i \in 0 .. m - 1 /\ i - 1 \in 0 .. m - 1 /\ (i - 1) + 1 = i
      BY <1>1
    <3>2. t[i] = r[j] /\ f[i] = q[j]
      BY <1>1, <1>3, <3>1
    <3> HIDE DEF j
    <3>3. t[i - 1] = r[i]
      BY <1>3, <3>1, Zenon
    <3>4. r[j] = OnEvent(r[j - 1], q[j])
      BY <1>2, <3>1 DEF Path
    <3> QED BY <3>1, <3>2, <3>3, <3>4
  <2> QED BY <2>1, <2>2 DEF Path
<1>6. ASSUME NEW i \in 0 .. m - 1 PROVE Later(t[i], t[m - 1])
  <2>1. i + 1 \in 0 .. m
    BY <1>1
  <2>2. Later(r[i + 1], r[m])
    BY <1>2, <2>1
  <2> QED BY <1>3, <1>4, <2>2
<1>7. ShownAfter(w, f, m - 1, a, n)
  BY <1>2, <1>4, <1>5, <1>6 DEF ShownAfter
<1> QED BY <1>1, <1>7 DEF f

-----------------------------------------------------------------------------
\* The inductive invariant: the queue shows the orders in the end.
ShownInv ==
  halted = "no" /\ crashes = 0 /\ discards = 0
    => ShownAfter(View, queue, Len(queue), orders, seq)

\* There is nothing to show.
LEMMA ShownInit == ViewInit => ShownInv
<1> SUFFICES ASSUME ViewInit PROVE ShownAfter(View, <<>>, 0, orders, seq)
  BY DEF ViewInit, ShownInv
<1> DEFINE r == [i \in {0} |-> View]
<1>1. r[0] = View
  OBVIOUS
<1> HIDE DEF r
<1>2. DOMAIN rows = {} /\ DOMAIN orders = {}
  BY DEF ViewInit, Init, NoOrders
<1>3. View = Table(rows, openIndex, ownerIndex) /\ View.rows = rows
  BY DEF View, Table
<1>4. IsTable(View)
  BY <1>2, <1>3 DEF IsTable, RowsOK
<1>5. Shows(View, orders) /\ Later(View, View) /\ DOMAIN View.rows \subseteq 1 .. seq
  BY <1>2, <1>3 DEF Shows, Later
<1>6. Path(r, View, <<>>, 0)
  BY <1>1 DEF Path
<1>7. \A i \in 0 .. 0 : Later(r[i], r[0])
  BY <1>1, <1>5
<1> QED BY <1>1, <1>4, <1>5, <1>6, <1>7 DEF ShownAfter

\* What the operations of a block do to it.
LEMMA ShownDeliver ==
  ASSUME NodeInv, ShownAfter(View, queue, Len(queue), orders, seq),
         NEW op \in Operations, op.type # "failed", Execute(op), halted' = "no"
  PROVE  ShownAfter(View, queue', Len(queue'), orders', seq')
<1>0. /\ queue \in Seq(QueueEvents) /\ ExchangeInv /\ seq \in Nat
      /\ IsStore(markets, seq, orders) /\ IsOrders(orders) /\ DOMAIN orders \subseteq 1 .. seq
  BY InvIs DEF NodeInv, Good, IsStore, IsOrders
<1>1. CASE op.type = "market"
  <2>1. queue' = queue /\ orders' = orders /\ seq' = seq
    BY <1>1 DEF Execute, CreateMarket
  <2> QED BY <2>1
<1>2. CASE op.type = "post"
  <2> DEFINE o == NewOrder(op.owner, op.market, op.direction, op.price, op.qty, op.tif)
             n == seq
             k == n + 1
             e == OrderCreated(k, o)
  <2>1. op \in PostOps
    BY <1>2 DEF Operations, MarketOps, CancelOps, EndOps
  <2>2. /\ Post(op.owner, op.market, op.direction, op.price, op.qty, op.tif)
        /\ queue' = queue \o <<OrderCreated(seq', orders'[seq'])>>
    BY <1>2 DEF Execute, Publish
  <2>3. orders' = With(orders, k, o) /\ seq' = k
    BY <2>2 DEF Post
  <2>4. o.owner = op.owner /\ o.market = op.market /\ o.qty = op.qty
    BY DEF NewOrder
  <2>5. op.owner \in Users /\ op.market \in Nat /\ op.qty \in Nat /\ k \in Nat
    <3>1. op.owner \in Users /\ op.market \in Nat /\ op.qty \in Quantities
      BY <2>1 DEF PostOps
    <3>2. op.qty \in Nat
      BY <3>1, ExchangeAssumption, Zenon
    <3>3. k \in Nat
      BY <1>0
    <3> QED BY <3>1, <3>2, <3>3
  <2> HIDE DEF o
  <2>6. k \notin DOMAIN orders
    BY <1>0
  <2>7. DOMAIN orders' = DOMAIN orders \cup {k} /\ orders'[k] = o /\ \A i \in DOMAIN orders : orders'[i] = orders[i]
    BY <2>3, <2>6 DEF With
  <2>8. /\ e \in CreatedEvents /\ e.id = k /\ e.owner = o.owner /\ e.market = o.market /\ e.qty = o.qty
        /\ queue \o <<e>> = Append(queue, e)
    BY <1>0, <2>4, <2>5, OrderCreatedIs
  <2>9. queue' = Append(queue, e)
    BY <2>2, <2>3, <2>7, <2>8
  <2> HIDE DEF e
  <2>10. ShownAfter(View, Append(queue, e), Len(Append(queue, e)), orders', n + 1)
    <3>1. n \in Nat /\ ShownAfter(View, queue, Len(queue), orders, n) /\ e.id = n + 1
      BY <1>0, <2>8
    <3>2. Adds(orders, e, orders')
      BY <2>7, <2>8 DEF Adds
    <3> HIDE DEF n, k
    <3> QED BY <1>0, <2>8, <3>1, <3>2, NewShown
  <2> QED BY <2>3, <2>9, <2>10
<1>3. CASE op.type = "cancel"
  <2>1. queue' = queue /\ orders' = Without(orders, op.id) /\ seq' = seq
    BY <1>3 DEF Execute, MsgCancel
  <2>2. /\ DOMAIN orders' \subseteq DOMAIN orders
        /\ \A i \in DOMAIN orders' : orders'[i] = orders[i]
    BY <2>1 DEF Without
  <2>3. ShownAfter(View, queue, Len(queue), orders', seq)
    BY <2>2, ShownFewer
  <2> QED BY <2>1, <2>3
<1>4. CASE op.type = "end"
  <2>1. \E s \in {Batch(ms) : ms \in MarketOrders} : EndWith(s) /\ Publish(s.events)
    BY <1>4 DEF Execute
  <2>2. seq' = seq /\ \E add : Ends(add)
    BY <1>0, <2>1, EndIs
  <2>3. PICK add : Ends(add)
    BY <2>2
  <2>4. PICK os : /\ add \in Seq(Events) /\ queue' = queue \o add
                  /\ Tell(orders, add, os)
                  /\ \A i \in DOMAIN os : os[i] \in OrderIn(markets)
                  /\ orders' = [i \in DOMAIN os |-> Aged(os[i])]
    BY <2>3 DEF Ends
  <2>5. ShownAfter(View, queue \o add, Len(queue \o add), os, seq)
    BY <1>0, <2>4, TellShown
  <2>6. /\ DOMAIN orders' = DOMAIN os
        /\ \A i \in DOMAIN os : /\ orders'[i].owner = os[i].owner /\ orders'[i].market = os[i].market
                                /\ orders'[i].qty = os[i].qty
    BY <2>4, AgedStore
  <2>7. ShownAfter(View, queue \o add, Len(queue \o add), orders', seq)
    BY <2>5, <2>6, ShownFewer
  <2> QED BY <2>2, <2>4, <2>7
<1> QED BY <1>1, <1>2, <1>3, <1>4 DEF Operations, MarketOps, PostOps, CancelOps, EndOps

\* Every step keeps the orders shown, until a crash or a discarded order.
LEMMA ShownInductive == NodeInv /\ ShownInv /\ [ViewNext]_viewVars => ShownInv'
<1> SUFFICES ASSUME NodeInv, ShownInv, [ViewNext]_viewVars,
                    halted' = "no", crashes' = 0, discards' = 0
             PROVE  ShownAfter(View', queue', Len(queue'), orders', seq')
  BY DEF ShownInv
<1>0. discards = 0
  BY DiscardsGrow
<1>1. CASE Consume
  <2>1. halted' = halted /\ crashes' = crashes /\ orders' = orders /\ seq' = seq
    BY <1>1 DEF Consume, exchangeVars, nodeVars
  <2>2. ShownAfter(View, queue, Len(queue), orders, seq)
    BY <1>0, <2>1 DEF ShownInv
  <2>3. /\ queue # <<>> /\ queue' = Tail(queue) /\ queue \in Seq(QueueEvents)
        /\ OnEvent(Table(rows, openIndex, ownerIndex), Head(queue)) = Table(rows', openIndex', ownerIndex')
    BY <1>1, ConsumeIs DEF NodeInv
  <2>4. View' = OnEvent(View, Head(queue))
    BY <2>3 DEF View, Table
  <2> QED BY <2>1, <2>2, <2>3, <2>4, ShownTail
<1>2. CASE Deliver
  <2>1. crashes' = crashes /\ View' = View
    BY <1>2 DEF Deliver, viewTables, View
  <2>2. replay = <<>>
    BY <2>1 DEF NodeInv
  <2>3. PICK op \in Operations : Execute(op) /\ discards' = IF op.type = "failed" THEN discards + 1 ELSE discards
    BY <1>2, <2>2, DeliverIs
  <2>4. op.type # "failed"
    BY <1>0, <2>3
  <2>5. halted = "no"
    BY <2>3, ExecuteIs DEF NodeInv
  <2>6. ShownAfter(View, queue, Len(queue), orders, seq)
    BY <1>0, <2>1, <2>5 DEF ShownInv
  <2>7. ShownAfter(View, queue', Len(queue'), orders', seq')
    BY <2>3, <2>4, <2>6, ShownDeliver
  <2> QED BY <2>1, <2>7
<1>3. CASE Commit
  <2>1. /\ halted' = halted /\ crashes' = crashes /\ orders' = orders /\ seq' = seq
        /\ queue' = queue /\ View' = View
    BY <1>3 DEF Commit, exchangeVars, viewTables, View
  <2> QED BY <1>0, <2>1 DEF ShownInv
<1>4. CASE Simulate
  <2>1. discards' = discards + 1
    BY <1>4, SimulateIs
  <2> QED BY <1>0, <2>1
<1>5. CASE Crash
  <2>1. crashes' = crashes + 1 /\ crashes \in Nat
    BY <1>5 DEF Crash, NodeInv
  <2> QED BY <2>1
<1>6. CASE UNCHANGED viewVars
  <2>1. UNCHANGED <<exchangeVars, queue, viewTables, nodeVars>>
    BY <1>6 DEF viewVars
  <2>2. /\ halted' = halted /\ crashes' = crashes /\ orders' = orders /\ seq' = seq
        /\ queue' = queue /\ View' = View
    BY <2>1 DEF exchangeVars, viewTables, nodeVars, View
  <2> QED BY <1>0, <2>2 DEF ShownInv
<1> QED BY <1>1, <1>2, <1>3, <1>4, <1>5, <1>6 DEF ViewNext

\* Settled is the end of the path through the queue.
SettleStep(p, v, e) == OnEvent(v, e)
Settling == INSTANCE Folding WITH op <- SettleStep

\* It is a fold of OnEvent.
LEMMA SettledIsFold == Settled = Settling!Fold(0, View, queue)
BY DEF Settled, SettleStep, FoldLeft, MapThenFoldSet, Max, Settling!Fold, Settling!Folds, Settling!Greatest

\* Whose states are those of the path.
LEMMA SettledIs ==
  ASSUME queue \in Seq(QueueEvents), NEW r, Path(r, View, queue, Len(queue))
  PROVE  Settled = r[Len(queue)]
<1> DEFINE n == Len(queue)
           v == View
           q == queue
<1>1. n \in Nat /\ DOMAIN q = 1 .. n
  OBVIOUS
<1>2. Settled = Settling!Fold(0, v, q)
  BY SettledIsFold
<1>3. r[0] = v /\ \A i \in 1 .. n : r[i] = OnEvent(r[i - 1], q[i])
  BY DEF Path
<1> HIDE DEF n, v, q
<1>4. PICK t : Settling!Runs(t, 0, v, q, n)
  BY <1>1, Settling!FoldRuns, Zenon
<1>5. /\ t[0] = v /\ \A i \in 1 .. n : t[i] = OnEvent(t[i - 1], q[i])
      /\ t[n] = Settling!Fold(0, v, q)
  BY <1>4 DEF Settling!Runs, SettleStep
<1> DEFINE T == {i \in 0 .. n : t[i] = r[i]}
<1>6. 0 \in T
  BY <1>1, <1>3, <1>5
<1>7. ASSUME NEW i \in 0 .. n - 1, i \in T PROVE i + 1 \in T
  <2> DEFINE j == i + 1
  <2>1. j \in 1 .. n /\ j - 1 = i /\ j \in 0 .. n /\ t[i] = r[i]
    BY <1>1, <1>7
  <2> HIDE DEF j, T
  <2>2. t[j] = r[j]
    BY <1>3, <1>5, <2>1
  <2> QED BY <2>1, <2>2 DEF T, j
<1> HIDE DEF T
<1>8. 0 .. n \subseteq T
  BY <1>1, <1>6, <1>7, UpToEnd, Zenon
<1>9. t[n] = r[n]
  BY <1>1, <1>8 DEF T
<1> QED BY <1>2, <1>5, <1>9 DEF n

\* So every order is shown.
LEMMA IsShown == NodeInv /\ ShownInv => EveryOrderIsShown
<1> SUFFICES ASSUME NodeInv, ShownAfter(View, queue, Len(queue), orders, seq)
             PROVE  /\ \A id \in DOMAIN orders :
                         /\ id \in DOMAIN Settled.rows
                         /\ Settled.rows[id].status = "OPEN"
                         /\ Settled.rows[id].qty - Settled.rows[id].filled = orders[id].qty
                         /\ <<orders[id].market, id>> \in Settled.open
                         /\ <<orders[id].owner, id>> \in Settled.owned
                    /\ \A id \in DOMAIN rows : rows[id].status # "OPEN" => id \notin DOMAIN orders
  BY DEF ShownInv, EveryOrderIsShown
<1>1. PICK r : /\ Path(r, View, queue, Len(queue))
               /\ \A i \in 0 .. Len(queue) : Later(r[i], r[Len(queue)])
               /\ Shows(r[Len(queue)], orders)
  BY DEF ShownAfter
<1>2. queue \in Seq(QueueEvents)
  BY DEF NodeInv
<1>3. Settled = r[Len(queue)]
  BY <1>1, <1>2, SettledIs
<1>4. Later(View, Settled)
  <2>1. 0 \in 0 .. Len(queue) /\ r[0] = View
    BY <1>1, <1>2 DEF Path
  <2> QED BY <1>1, <1>3, <2>1
<1>5. Shows(Settled, orders)
  BY <1>1, <1>3
<1>6. View.rows = rows
  BY DEF View
<1> HIDE DEF Settled
<1>7. \A id \in DOMAIN rows : rows[id].status # "OPEN" => id \notin DOMAIN orders
  BY <1>4, <1>5, <1>6, Zenon DEF Later, Shows
<1> QED BY <1>5, <1>7 DEF Shows

(* Consumed to its end, the queue makes the rows show every order of the   *)
(* store, open and with what is left of it, while the node does not stop   *)
(* and no order is discarded: EveryOrderIsShown.                           *)
THEOREM ShownTheorem == ViewSpec => []EveryOrderIsShown
BY NodeInit, NodeInductive, ShownInit, ShownInductive, IsShown, PTL DEF ViewSpec

(* The exchange of a node that crashes and executes its lost blocks again  *)
(* keeps its books, its escrow and the times in force as well.             *)
THEOREM NodeTheorem == ViewSpec => [](BooksStayConsistent /\ EscrowCoversOrders /\ OrdersExpireOnTime)
<1>1. NodeInv => BooksStayConsistent /\ EscrowCoversOrders /\ OrdersExpireOnTime
  BY DEF NodeInv, ExchangeInv
<1> QED BY <1>1, NodeInvariant, PTL
=============================================================================

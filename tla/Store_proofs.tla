---------------------------- MODULE Store_proofs ----------------------------
(***************************************************************************)
(* What holds of the data the page keeps: the account's orders, for any    *)
(* number of orders and calls; the market view, for any number of markets, *)
(* any heights of up to nine digits, any length of the batch list and any  *)
(* number of calls under way; and the candles, for any number of symbols,  *)
(* candles, trades and chains of timers.                                   *)
(***************************************************************************)
EXTENDS Account, Market, Feed, Sums

-----------------------------------------------------------------------------
(***************************************************************************)
(* The account: an answer is right when it is given, and stays right.      *)
(***************************************************************************)

Statuses == {"OPEN", "FILLED"}

\* The orders of the account are numbered from one, and never reopened.
ChainOK ==
  /\ valid \in BOOLEAN
  /\ \E n \in 0..MaxOrders : placed \in [1..n -> Statuses]
  /\ coins \in [Denoms -> Amounts]

\* An answer about orders that was right when it was given: a page of orders
\* of the account, and those it reports as filled are filled.
OnceTrue(answer) ==
  /\ DOMAIN answer \subseteq DOMAIN placed
  /\ IsFiniteSet(DOMAIN answer)
  /\ Cardinality(DOMAIN answer) <= PageSize
  /\ \A i \in DOMAIN answer : answer[i] = "FILLED" => placed[i] = "FILLED"

\* What a call may hold while it is on its way back.
HoldsOrders(r)   == r.at = "ok" => OnceTrue(r.answer)
HoldsBalances(r) == r.at = "ok" => DOMAIN r.answer \subseteq Denoms
Holds(k, r)      == IF k = "orders" THEN HoldsOrders(r) ELSE HoldsBalances(r)

CallsOK ==
  /\ DOMAIN poll = Private
  /\ \A k \in Private : Holds(k, poll[k])
  /\ DOMAIN mounts = Calls
  /\ \A c \in Calls : HoldsOrders(mounts[c])

StoreOK ==
  /\ OnceTrue(orders)
  /\ listed = DOMAIN orders
  /\ DOMAIN balances \subseteq Denoms

\* The inductive invariant: HistoryIsConsistent speaks of the store alone, but
\* an answer that is on its way must be as good as one that has arrived.
AccountInv == ChainOK /\ CallsOK /\ StoreOK

-----------------------------------------------------------------------------
(***************************************************************************)
(* The answers of the node.                                                *)
(***************************************************************************)

\* There are at most PageSize newest orders.
LEMMA NewestIsAPage ==
  ASSUME NEW n \in Nat
  PROVE  /\ NewestOrders(1..n) \subseteq 1..n
         /\ IsFiniteSet(NewestOrders(1..n))
         /\ Cardinality(NewestOrders(1..n)) <= PageSize
<1>1. ASSUME NEW i \in 1..n
      PROVE  Cardinality({j \in 1..n : j > i}) = n - i
  <2>1. {j \in 1..n : j > i} = (i + 1)..n
    OBVIOUS
  <2>2. Cardinality((i + 1)..n) = n - i
    BY FS_Interval
  <2> QED BY <2>1, <2>2
<1> DEFINE low == IF n < PageSize THEN 1 ELSE n - PageSize + 1
<1>2. low \in Nat \ {0} /\ low <= n + 1 /\ n - low + 1 <= PageSize
  BY AccountAssumption
<1>3. NewestOrders(1..n) = low..n
  BY <1>1, AccountAssumption DEF NewestOrders
<1> HIDE DEF low
<1>4. IsFiniteSet(low..n)
  BY <1>2, FS_Interval
<1>5. Cardinality(low..n) <= PageSize
  <2>1. PageSize \in Nat
    BY AccountAssumption
  <2>2. CASE low > n
    <3>1. Cardinality(low..n) = 0
      BY <1>2, <2>2, FS_Interval
    <3> QED BY <2>1, <3>1
  <2>3. CASE ~(low > n)
    <3>1. Cardinality(low..n) = n - low + 1
      BY <1>2, <2>3, FS_Interval
    <3> QED BY <1>2, <3>1
  <2> QED BY <2>2, <2>3
<1> QED BY <1>2, <1>3, <1>4, <1>5

\* An order list the node gives now is true now.
LEMMA AnswerIsTrue ==
  ASSUME ChainOK
  PROVE  OnceTrue(OrdersAnswer) /\ DOMAIN BalancesAnswer \subseteq Denoms
<1>1. PICK n \in Nat : placed \in [1..n -> Statuses]
  BY AccountAssumption DEF ChainOK
<1>2. DOMAIN OrdersAnswer = NewestOrders(1..n) /\ \A i \in NewestOrders(1..n) : OrdersAnswer[i] = placed[i]
  BY <1>1 DEF OrdersAnswer, Restrict
<1>3. OnceTrue(OrdersAnswer)
  BY <1>1, <1>2, NewestIsAPage DEF OnceTrue
<1> QED BY <1>3 DEF BalancesAnswer, Restrict

\* So is whatever a call holds after it was served.
LEMMA ServedHolds ==
  ASSUME ChainOK
  PROVE  \A k \in Private : Holds(k, Served(k))
  BY AnswerIsTrue DEF Served, At, Holds, HoldsOrders, HoldsBalances, Private

\* A call that is not answered holds nothing.
LEMMA AtHolds ==
  ASSUME NEW step \in {"off", "timer", "sent", "failed"}
  PROVE  HoldsOrders(At(step)) /\ \A k \in Private : Holds(k, At(step))
  BY DEF At, HoldsOrders, HoldsBalances, Holds

\* What was once true stays so: orders are added and filled, and no more.
LEMMA StaysTrue ==
  ASSUME DOMAIN placed \subseteq DOMAIN placed',
         \A i \in DOMAIN placed : placed[i] = "FILLED" => placed'[i] = "FILLED",
         NEW answer, OnceTrue(answer)
  PROVE  OnceTrue(answer)'
  BY DEF OnceTrue

-----------------------------------------------------------------------------
(***************************************************************************)
(* The steps.                                                              *)
(***************************************************************************)

\* Settling a call keeps the store true.
LEMMA SettleKeeps ==
  ASSUME AccountInv, UNCHANGED chainVars,
         NEW k \in Private, NEW r, Holds(k, r), r.at \in {"ok", "failed"}, Settle(k, r)
  PROVE  StoreOK'
<1>1. UNCHANGED placed
  BY DEF chainVars
<1>2. CASE r.at = "failed"
  BY <1>1, <1>2 DEF Settle, storeVars, AccountInv, StoreOK, OnceTrue
<1>3. CASE r.at = "ok" /\ k = "orders"
  BY <1>1, <1>3 DEF Settle, HandleAddOrders, Holds, HoldsOrders, AccountInv, StoreOK, OnceTrue
<1>4. CASE r.at = "ok" /\ k = "balances"
  BY <1>1, <1>4 DEF Settle, HandleSetBalance, Holds, HoldsBalances, AccountInv, StoreOK, OnceTrue
<1> QED BY <1>2, <1>3, <1>4 DEF Private

\* Steps of the page and of its calls; the chain stands still.
LEMMA PageStep ==
  ASSUME AccountInv, UNCHANGED chainVars,
         \/ Enter
         \/ \E c \in Calls : Mount(c) \/ History(c)
         \/ \E k \in Private : Poller(k) \/ Lose(k)
  PROVE  AccountInv'
<1> USE DEF AccountInv
<1>1. ChainOK'
  BY DEF ChainOK, chainVars
<1>2. UNCHANGED placed
  BY DEF chainVars
<1>3. \A k, r : Holds(k, r)' <=> Holds(k, r)
  BY <1>2 DEF Holds, HoldsOrders, HoldsBalances, OnceTrue
<1>4. \A r : HoldsOrders(r)' <=> HoldsOrders(r)
  BY <1>2 DEF HoldsOrders, OnceTrue
<1>5. UNCHANGED storeVars => StoreOK'
  BY <1>2 DEF storeVars, StoreOK, OnceTrue
<1> HIDE DEF AccountInv
<1>6. /\ DOMAIN poll = Private /\ (\A k \in Private : Holds(k, poll[k]))
      /\ DOMAIN mounts = Calls /\ (\A c \in Calls : HoldsOrders(mounts[c]))
  BY DEF AccountInv, CallsOK
<1>7. CASE Enter
  <2>1. CallsOK'
    <3>1. /\ DOMAIN poll' = Private /\ UNCHANGED mounts
          /\ \A k \in Private : poll'[k] = At("timer") \/ poll'[k] = poll[k]
      BY <1>7 DEF Enter
    <3>2. \A k \in Private : Holds(k, poll'[k])
      BY <1>6, <3>1, AtHolds
    <3> QED BY <1>3, <1>4, <1>6, <3>1, <3>2 DEF CallsOK
  <2> QED BY <1>1, <1>5, <1>7, <2>1 DEF Enter, AccountInv
<1>8. CASE \E k \in Private : Poller(k) \/ Lose(k)
  <2>1. PICK k \in Private : Poller(k) \/ Lose(k)
    BY <1>8
  <2>2. PICK r : poll' = [poll EXCEPT ![k] = r] /\ Holds(k, r)
    <3>1. CASE Send(k)
      BY <3>1, AtHolds DEF Send
    <3>2. CASE Serve(k)
      BY <3>2, ServedHolds DEF Serve, AccountInv
    <3>3. CASE Answered(k)
      BY <3>3, AtHolds DEF Answered
    <3>4. CASE Lose(k)
      BY <3>4, AtHolds DEF Lose
    <3> QED BY <2>1, <3>1, <3>2, <3>3, <3>4 DEF Poller
  <2>3. UNCHANGED mounts
    BY <2>1 DEF Poller, Send, Serve, Answered, Lose
  <2>4. StoreOK'
    <3>1. CASE Answered(k)
      BY <1>6, <3>1, SettleKeeps DEF Answered
    <3>2. CASE ~Answered(k)
      BY <1>5, <2>1, <3>2 DEF Poller, Send, Serve, Lose
    <3> QED BY <3>1, <3>2
  <2>5. CallsOK'
    <3>1. DOMAIN poll' = Private /\ \A l \in Private : Holds(l, poll'[l])
      BY <1>6, <2>2
    <3> QED BY <1>3, <1>4, <1>6, <2>3, <3>1 DEF CallsOK
  <2> QED BY <1>1, <2>4, <2>5 DEF AccountInv
<1>9. CASE \E c \in Calls : Mount(c) \/ History(c)
  <2>1. PICK c \in Calls : Mount(c) \/ History(c)
    BY <1>9
  <2>2. PICK r : mounts' = [mounts EXCEPT ![c] = r] /\ HoldsOrders(r)
    <3>1. CASE Mount(c)
      BY <3>1, AtHolds DEF Mount
    <3>2. CASE MountServed(c)
      <4>1. Holds("orders", Served("orders"))
        BY ServedHolds DEF AccountInv, Private
      <4> QED BY <3>2, <4>1 DEF MountServed, Holds
    <3>3. CASE MountAnswered(c)
      BY <3>3, AtHolds DEF MountAnswered
    <3> QED BY <2>1, <3>1, <3>2, <3>3 DEF History
  <2>3. UNCHANGED poll
    BY <2>1 DEF History, Mount, MountServed, MountAnswered
  <2>4. StoreOK'
    <3>1. CASE MountAnswered(c)
      <4>1. "orders" \in Private /\ Holds("orders", mounts[c])
        BY <1>6 DEF Private, Holds
      <4> QED BY <3>1, <4>1, SettleKeeps DEF MountAnswered
    <3>2. CASE ~MountAnswered(c)
      BY <1>5, <2>1, <3>2 DEF History, Mount, MountServed
    <3> QED BY <3>1, <3>2
  <2>5. CallsOK'
    <3>1. DOMAIN mounts' = Calls /\ \A d \in Calls : HoldsOrders(mounts'[d])
      BY <1>6, <2>2
    <3> QED BY <1>3, <1>4, <1>6, <2>3, <3>1 DEF CallsOK
  <2> QED BY <1>1, <2>4, <2>5 DEF AccountInv
<1> QED BY <1>7, <1>8, <1>9

\* Steps of the chain and of the session; the page stands still.
LEMMA ChainStep ==
  ASSUME AccountInv, UNCHANGED <<poll, mounts, storeVars>>,
         \/ Place \/ SessionEnds \/ SessionReturns
         \/ \E i \in DOMAIN placed : Close(i)
         \/ \E d \in Denoms, n \in Amounts : Transfer(d, n)
  PROVE  AccountInv'
<1>1. PICK n \in 0..MaxOrders : placed \in [1..n -> Statuses]
  BY DEF AccountInv, ChainOK
<1>2. MaxOrders \in Nat /\ n \in Nat
  BY AccountAssumption
<1>3. /\ ChainOK'
      /\ DOMAIN placed \subseteq DOMAIN placed'
      /\ \A i \in DOMAIN placed : placed[i] = "FILLED" => placed'[i] = "FILLED"
  <2>1. CASE Place
    <3>1. Cardinality(DOMAIN placed) = n
      <4>1. Cardinality(1..n) = n
        BY <1>2, FS_Interval
      <4> QED BY <1>1, <4>1
    <3>2. /\ n + 1 \in 0..MaxOrders
          /\ placed' = [i \in 1..(n + 1) |-> IF i \in DOMAIN placed THEN placed[i] ELSE "OPEN"]
          /\ UNCHANGED <<valid, coins>>
      BY <1>2, <2>1, <3>1 DEF Place
    <3>3. placed' \in [1..(n + 1) -> Statuses]
      BY <1>1, <3>2 DEF Statuses
    <3> QED BY <1>1, <1>2, <3>2, <3>3 DEF AccountInv, ChainOK
  <2>2. CASE \E i \in DOMAIN placed : Close(i)
    <3>1. placed' \in [1..n -> Statuses] /\ UNCHANGED <<valid, coins>>
      BY <1>1, <2>2 DEF Close, Statuses
    <3> QED BY <1>1, <2>2, <3>1 DEF AccountInv, ChainOK, Close
  <2>3. CASE SessionEnds \/ SessionReturns \/ \E d \in Denoms, m \in Amounts : Transfer(d, m)
    BY <2>3 DEF AccountInv, ChainOK, SessionEnds, SessionReturns, Transfer
  <2> QED BY <2>1, <2>2, <2>3
<1>4. \A answer : OnceTrue(answer) => OnceTrue(answer)'
  BY <1>3, StaysTrue
<1>5. StoreOK'
  BY <1>4 DEF AccountInv, StoreOK, storeVars
<1>6. CallsOK'
  <2>1. \A r : HoldsOrders(r) => HoldsOrders(r)'
    BY <1>4 DEF HoldsOrders
  <2>2. \A k, r : Holds(k, r) => Holds(k, r)'
    BY <2>1 DEF Holds, HoldsBalances
  <2> QED BY <2>1, <2>2 DEF AccountInv, CallsOK
<1> QED BY <1>3, <1>5, <1>6 DEF AccountInv

\* The invariant, for any number of denominations, orders, losses and calls.
THEOREM AccountInvariant == AccountSpec => []AccountInv
<1>1. AccountInit => AccountInv
  <2> SUFFICES ASSUME AccountInit PROVE AccountInv
    OBVIOUS
  <2>1. ChainOK
    <3>1. placed \in [1..0 -> Statuses] /\ 0 \in 0..MaxOrders /\ MaxAmount \in Amounts
      BY AccountAssumption DEF AccountInit, Nothing, Amounts
    <3> QED BY <3>1 DEF AccountInit, ChainOK
  <2>2. CallsOK
    BY AtHolds DEF AccountInit, CallsOK
  <2>3. StoreOK
    BY FS_EmptySet, AccountAssumption DEF AccountInit, StoreOK, OnceTrue, Nothing
  <2> QED BY <2>1, <2>2, <2>3 DEF AccountInv
<1>2. AccountInv /\ [AccountNext]_accountVars => AccountInv'
  <2> SUFFICES ASSUME AccountInv, [AccountNext]_accountVars PROVE AccountInv'
    OBVIOUS
  <2>1. CASE \/ Enter
             \/ \E c \in Calls : Mount(c) \/ History(c)
             \/ \E k \in Private : Poller(k) \/ Lose(k)
    <3>1. UNCHANGED chainVars
      BY <2>1 DEF Enter, History, Mount, MountServed, MountAnswered, Poller, Send, Serve, Answered, Lose
    <3> QED BY <2>1, <3>1, PageStep
  <2>2. CASE \/ Place \/ SessionEnds \/ SessionReturns
             \/ \E i \in DOMAIN placed : Close(i)
             \/ \E d \in Denoms, n \in Amounts : Transfer(d, n)
    <3>1. UNCHANGED <<poll, mounts, storeVars>>
      BY <2>2 DEF Place, SessionEnds, SessionReturns, Close, Transfer
    <3> QED BY <2>2, <3>1, ChainStep
  <2>3. CASE UNCHANGED accountVars
    BY <2>3 DEF accountVars, AccountInv, ChainOK, CallsOK, StoreOK, Holds, HoldsOrders, HoldsBalances, OnceTrue
  <2> QED BY <2>1, <2>2, <2>3 DEF AccountNext
<1> QED BY <1>1, <1>2, PTL DEF AccountSpec

\* The history page never shows what was never true, however the answers of
\* the poller and of the page overtake each other: the list and the map name
\* the same orders, all of this account, no more than a page of them, and a
\* filled one is filled.
THEOREM HistoryIsAlwaysConsistent == AccountSpec => []HistoryIsConsistent
<1>1. AccountInv => HistoryIsConsistent
  <2> SUFFICES ASSUME AccountInv PROVE HistoryIsConsistent
    OBVIOUS
  <2>1. DOMAIN placed \subseteq Ids
    BY AccountAssumption DEF AccountInv, ChainOK, Ids
  <2> QED BY <2>1 DEF AccountInv, ChainOK, StoreOK, OnceTrue, HistoryIsConsistent, AccountTypeOK
<1> QED BY <1>1, AccountInvariant, PTL

-----------------------------------------------------------------------------
(***************************************************************************)
(* The market view: its invariant.                                         *)
(***************************************************************************)

\* Where every variable lives.
Stores == [selectedMarket : Markets, selectedChartType : ChartTypes, selectedBatch : Nat]
MarketTypes ==
    /\ height \in [Markets -> Nat]
    /\ \A m \in Markets : height[m] \in FirstHeight .. MaxHeight[m]
    /\ store \in Stores
    /\ books \in [Markets -> Nat]
    /\ batches \in [Markets -> SUBSET Nat]
    /\ received \in [Markets -> SUBSET Nat]
    /\ loop \in [at : {"timer", "asked"}, market : Markets, version : Nat]
    /\ calls \subseteq [market : Markets, block : Nat]

\* A call under way holds a batch of its market that was executed.
CallsKnown == \A c \in calls : c.block \in Executed(c.market)

\* The book that is asked for is no older than the one that is shown.
BooksKnown ==
    /\ \A m \in Markets : books[m] <= height[m]
    /\ loop.at = "asked" => /\ books[loop.market] <= loop.version
                            /\ loop.version <= height[loop.market]

\* A batch that is drawn is the selected one, and the store has it.
PanelKnown ==
    IF store.selectedChartType = "Batch"
    THEN /\ store.selectedBatch # NoBlock
         /\ chart.mounted
         /\ ~ chart.missed => /\ chart.drawn = <<store.selectedMarket, store.selectedBatch>>
                              /\ store.selectedBatch \in batches[store.selectedMarket]
    ELSE chart = NoChart

MarketInv == MarketTypes /\ CallsKnown /\ BooksKnown /\ PanelKnown /\ KeptAreGreatest

-----------------------------------------------------------------------------
(***************************************************************************)
(* The greatest of a set, when its members come one at a time.             *)
(***************************************************************************)

LEMMA NineDigits == LastId \in Nat /\ LastId < 10 ^ 9
  BY SMT DEF LastId

\* The order of strings is one.
LEMMA StringOrder ==
  ASSUME NEW S \in SUBSET (0 .. LastId)
  PROVE  /\ \A a \in S : ~ StringBefore(a, a)
         /\ \A a, b, c \in S : StringBefore(a, b) /\ StringBefore(b, c) => StringBefore(a, c)
<1>1. ASSUME NEW n \in S PROVE Digits(n) \in 1 .. 9
  <2> DEFINE D == {d \in 1 .. 9 : n < 10 ^ d}
  <2>1. n \in Nat /\ n < 10 ^ 9
    <3>1. n \in 0 .. LastId
      OBVIOUS
    <3>2. LastId < 10 ^ 9 /\ LastId \in Nat
      BY NineDigits
    <3>3. 10 ^ 9 \in Int
      BY SMT
    <3> QED BY <3>1, <3>2, <3>3, SMT
  <2>2. 9 \in 1 .. 9
    OBVIOUS
  <2>3. 9 \in D
    BY <2>1, <2>2
  <2>4. D \in SUBSET Nat
    OBVIOUS
  <2>5. \E x \in D : \A y \in D : x <= y
    BY <2>3, <2>4, LeastNat
  <2>6. Min(D) \in D
    BY <2>5 DEF Min
  <2> QED BY <2>6 DEF Digits
<1>2. \A e \in 0 .. 9 : 10 ^ e \in Int
  OBVIOUS
<1>3. ASSUME NEW n \in S PROVE Padded(n) \in Int
  <2>1. 9 - Digits(n) \in 0 .. 9
    BY <1>1
  <2>2. 10 ^ (9 - Digits(n)) \in Int
    BY <1>2, <2>1
  <2> DEFINE p == 10 ^ (9 - Digits(n))
  <2>3. p \in Int
    BY <2>2
  <2>4. n \in Int
    OBVIOUS
  <2> HIDE DEF p
  <2>5. n * p \in Int
    BY <2>3, <2>4
  <2> QED BY <2>5 DEF Padded, p
<1>4. \A n \in S : Digits(n) \in Int /\ Padded(n) \in Int
  BY <1>1, <1>3
<1> QED BY <1>4 DEF StringBefore

\* Those of ids that are greater than i.
Above(i, ids) == {j \in ids : StringBefore(i, j)}

\* A list that is cut after every addition is the list of all that was added,
\* cut once: what is cut has MaxBatches above it, and keeps them.
LEMMA SlicedAgain ==
  ASSUME NEW ids \in SUBSET (0 .. LastId), NEW b \in 0 .. LastId
  PROVE  Sliced(Sliced(ids) \cup {b}) = Sliced(ids \cup {b})
<1> DEFINE all  == ids \cup {b}
           kept == Sliced(ids) \cup {b}
<1>1. IsFiniteSet(0 .. LastId)
  <2>1. LastId \in Nat
    BY NineDigits
  <2> QED BY <2>1, FS_Interval
<1>2. /\ kept \subseteq all
      /\ all \subseteq 0 .. LastId
      /\ \A s \in SUBSET all : IsFiniteSet(s) /\ Cardinality(s) \in Nat
      /\ \A s \in SUBSET all : \A t \in SUBSET s : Cardinality(t) <= Cardinality(s)
  <2>1. kept \subseteq all
    BY DEF Sliced
  <2>2. all \subseteq 0 .. LastId
    OBVIOUS
  <2>3. ASSUME NEW s \in SUBSET all
        PROVE  IsFiniteSet(s) /\ Cardinality(s) \in Nat
    BY <1>1, <2>2, FS_Subset, FS_CardinalityType
  <2>4. ASSUME NEW s \in SUBSET all, NEW t \in SUBSET s
        PROVE  Cardinality(t) <= Cardinality(s)
    BY <2>3, FS_Subset
  <2> QED BY <2>1, <2>2, <2>3, <2>4
<1>3. /\ \A x \in all : ~ StringBefore(x, x)
      /\ \A x, y, z \in all : StringBefore(x, y) /\ StringBefore(y, z) => StringBefore(x, z)
  BY <1>2, StringOrder
<1>4. MaxBatches \in Nat
  BY MarketAssumption
<1>5. \A s : Sliced(s) = {i \in s : Cardinality(Above(i, s)) < MaxBatches}
  BY DEF Sliced, Above
<1>6. \A s, t, i : s \subseteq t => Above(i, s) \subseteq Above(i, t) /\ Above(i, t) \subseteq t
  BY DEF Above
<1> HIDE DEF all, kept
<1>7. Sliced(all) \subseteq Sliced(kept)
  <2> SUFFICES ASSUME NEW i \in Sliced(all) PROVE i \in Sliced(kept)
    OBVIOUS
  <2>1. i \in all /\ Cardinality(Above(i, all)) < MaxBatches
    BY <1>5
  <2>2. ids \subseteq all
    BY DEF all
  <2>3. /\ Above(i, ids) \in SUBSET Above(i, all)
        /\ Above(i, kept) \in SUBSET Above(i, all)
        /\ Above(i, all) \in SUBSET all
    BY <1>2, <1>6, <2>2
  <2>4. /\ Cardinality(Above(i, ids)) < MaxBatches
        /\ Cardinality(Above(i, kept)) < MaxBatches
    <3>1. /\ Cardinality(Above(i, ids)) <= Cardinality(Above(i, all))
          /\ Cardinality(Above(i, kept)) <= Cardinality(Above(i, all))
      BY <1>2, <2>3
    <3>2. /\ Above(i, ids) \in SUBSET all
          /\ Above(i, kept) \in SUBSET all
      BY <2>3
    <3>3. /\ Cardinality(Above(i, ids)) \in Nat
          /\ Cardinality(Above(i, kept)) \in Nat
          /\ Cardinality(Above(i, all)) \in Nat
      BY <1>2, <2>3, <3>2
    <3> QED BY <1>4, <2>1, <3>1, <3>3
  <2>5. i \in kept
    BY <1>5, <2>1, <2>4 DEF all, kept
  <2> QED BY <1>5, <2>4, <2>5
<1>8. Sliced(kept) \subseteq Sliced(all)
  <2> SUFFICES ASSUME NEW i \in Sliced(kept) PROVE i \in Sliced(all)
    OBVIOUS
  <2>1. i \in kept /\ i \in all /\ Cardinality(Above(i, kept)) < MaxBatches
    BY <1>2, <1>5
  <2> DEFINE Cut == {j \in Above(i, ids) : j \notin Sliced(ids)}
  <2>2. ASSUME Cut # {} PROVE FALSE
    <3> DEFINE Sizes == {Cardinality(Above(j, ids)) : j \in Cut}
    <3>1. \A j \in Cut : j \in ids /\ j \in all /\ StringBefore(i, j)
      BY DEF Above, all
    <3>2. \A j : Above(j, ids) \in SUBSET all
      BY DEF Above, all
    <3>3. Sizes \in SUBSET Nat /\ Sizes # {}
      BY <1>2, <2>2, <3>2
    <3>4. PICK n \in Sizes : \A k \in Sizes : n <= k
      <4> HIDE DEF Sizes
      <4> QED BY <3>3, LeastNat
    <3>5. PICK j \in Cut : /\ Cardinality(Above(j, ids)) = n
                           /\ \A k \in Cut : n <= Cardinality(Above(k, ids))
      BY <3>4
    <3>6. Above(j, ids) \subseteq Sliced(ids)
      <4> SUFFICES ASSUME NEW k \in Above(j, ids), k \notin Sliced(ids) PROVE FALSE
        OBVIOUS
      <4>1. k \in ids /\ k \in all /\ StringBefore(j, k)
        BY DEF Above, all
      <4>2. StringBefore(i, k)
        BY <1>3, <2>1, <3>1, <4>1
      <4>3. k \in Cut
        BY <4>1, <4>2 DEF Above
      <4>4. k \notin Above(k, ids)
        BY <1>3, <4>1 DEF Above
      <4>5. Above(k, ids) \subseteq Above(j, ids)
        <5> SUFFICES ASSUME NEW l \in Above(k, ids) PROVE l \in Above(j, ids)
          OBVIOUS
        <5>1. l \in ids /\ l \in all /\ StringBefore(k, l)
          BY DEF Above, all
        <5> QED BY <1>3, <3>1, <4>1, <5>1 DEF Above
      <4>6. Cardinality(Above(k, ids)) < Cardinality(Above(j, ids))
        <5>1. IsFiniteSet(Above(j, ids)) /\ Cardinality(Above(j, ids)) \in Nat
          BY <1>2, <3>2
        <5>2. Cardinality(Above(j, ids) \ {k}) = Cardinality(Above(j, ids)) - 1
          BY <5>1, FS_RemoveElement
        <5>3. Above(k, ids) \in SUBSET (Above(j, ids) \ {k})
          BY <4>4, <4>5
        <5>4. Above(j, ids) \ {k} \in SUBSET all
          BY <3>2
        <5>5. Cardinality(Above(k, ids)) <= Cardinality(Above(j, ids) \ {k})
          BY <1>2, <5>3, <5>4
        <5>6. Cardinality(Above(k, ids)) \in Nat
          BY <1>2, <3>2
        <5> QED BY <5>1, <5>2, <5>5, <5>6
      <4>7. Cardinality(Above(k, ids)) \in Nat /\ Cardinality(Above(j, ids)) \in Nat
        BY <1>2, <3>2
      <4> QED BY <3>5, <4>3, <4>6, <4>7
    <3>7. Above(j, ids) \in SUBSET Above(i, kept)
      <4> SUFFICES ASSUME NEW l \in Above(j, ids) PROVE l \in Above(i, kept)
        OBVIOUS
      <4>1. l \in ids /\ l \in all /\ StringBefore(j, l)
        BY DEF Above, all
      <4>2. StringBefore(i, l)
        BY <1>3, <2>1, <3>1, <4>1
      <4> QED BY <3>6, <4>2 DEF Above, kept
    <3>8. Above(i, kept) \in SUBSET all
      BY <1>2 DEF Above
    <3>9. Cardinality(Above(j, ids)) <= Cardinality(Above(i, kept))
      BY <1>2, <3>7, <3>8
    <3>10. ~ (Cardinality(Above(j, ids)) < MaxBatches)
      BY <1>5, <3>1
    <3>11. Cardinality(Above(j, ids)) \in Nat /\ Cardinality(Above(i, kept)) \in Nat
      BY <1>2, <3>2, <3>8
    <3> QED BY <1>4, <2>1, <3>9, <3>10, <3>11
  <2>3. Above(i, all) \subseteq Above(i, kept)
    BY <2>2 DEF Above, all, kept
  <2>4. Above(i, kept) \subseteq Above(i, all)
    BY <1>2, <1>6
  <2>5. Above(i, all) = Above(i, kept)
    BY <2>3, <2>4
  <2> QED BY <1>5, <2>1, <2>5
<1> QED BY <1>7, <1>8 DEF all, kept

-----------------------------------------------------------------------------
(***************************************************************************)
(* The steps.                                                              *)
(***************************************************************************)

\* The panel remembers that a batch was missing.
LEMMA PanelAfter ==
  ASSUME NEW c, NEW previous, NEW next, NEW d, d = DrawnOn(c, previous, next)
  PROVE  /\ d.mounted
         /\ ~ d.missed => next # <<>> /\ ~ (c.mounted /\ c.missed)
<1>1. d.mounted
  BY DEF DrawnOn
<1>2. d.missed = ((c.mounted /\ c.missed) \/ next = <<>>)
  BY Zenon DEF DrawnOn
<1> QED BY <1>1, <1>2, Zenon

\* What is rendered is what the store names, or was missing.
LEMMA RenderedKnown ==
  ASSUME MarketTypes, PanelKnown,
         NEW s \in Stores, NEW kept \in [Markets -> SUBSET Nat],
         s.selectedChartType = "Batch" => s.selectedBatch # NoBlock,
         store' = s, batches' = kept, chart' = Rendered(s, kept)
  PROVE  PanelKnown'
<1> DEFINE next == BatchProp(s, kept)
<1>1. CASE s.selectedChartType # "Batch"
  BY <1>1 DEF Rendered, PanelKnown
<1>2. CASE s.selectedChartType = "Batch"
  <2>1. chart' = DrawnOn(chart, BatchProp(store, batches), next)
    BY <1>2 DEF Rendered
  <2>2. /\ chart'.mounted
        /\ ~ chart'.missed => next # <<>> /\ ~ (chart.mounted /\ chart.missed)
    BY <2>1, PanelAfter
  <2>3. next # <<>> => /\ next = <<s.selectedMarket, s.selectedBatch>>
                       /\ s.selectedBatch \in kept[s.selectedMarket]
    BY DEF BatchProp
  <2>4. ASSUME ~ chart'.missed PROVE chart'.drawn = next
    <3>1. CASE ~ chart.mounted
      BY <2>1, <3>1 DEF DrawnOn
    <3>2. CASE chart.mounted
      <4>1. store.selectedChartType = "Batch" /\ ~ chart.missed
        BY <2>2, <2>4, <3>2 DEF PanelKnown, NoChart
      <4>2. BatchProp(store, batches) = <<store.selectedMarket, store.selectedBatch>>
        BY <4>1 DEF PanelKnown, BatchProp
      <4>3. BatchProp(store, batches) # <<>> /\ next # <<>>
        BY <2>2, <2>4, <4>2
      <4> QED BY <2>1, <4>3 DEF DrawnOn
    <3> QED BY <3>1, <3>2
  <2> HIDE DEF next
  <2> QED BY <1>2, <2>2, <2>3, <2>4 DEF PanelKnown
<1> QED BY <1>1, <1>2

\* A choice of the user leaves data and calls alone.
LEMMA ChooseKeeps ==
  ASSUME MarketInv, NEW s \in Stores, Choose(s),
         s.selectedChartType = "Batch" => s.selectedBatch # NoBlock
  PROVE  MarketInv'
<1>1. PanelKnown'
  BY RenderedKnown DEF MarketInv, MarketTypes, Choose, data
<1>2. MarketTypes'
  BY DEF MarketInv, MarketTypes, Choose, data, Stores
<1>3. CallsKnown' /\ BooksKnown' /\ KeptAreGreatest'
  BY DEF MarketInv, CallsKnown, BooksKnown, KeptAreGreatest, Executed, Choose, data
<1> QED BY <1>1, <1>2, <1>3 DEF MarketInv

LEMMA UserKeeps ==
  ASSUME MarketInv, User
  PROVE  MarketInv'
<1>0. store \in Stores /\ (store.selectedChartType = "Batch" => store.selectedBatch # NoBlock)
  BY DEF MarketInv, MarketTypes, PanelKnown
<1>1. ASSUME NEW m \in Markets, SelectMarket(m)
      PROVE  MarketInv'
  <2> DEFINE s == [store EXCEPT !.selectedMarket = m]
  <2>1. s \in Stores /\ (s.selectedChartType = "Batch" => s.selectedBatch # NoBlock)
    BY <1>0 DEF Stores
  <2>2. Choose(s)
    BY <1>1 DEF SelectMarket
  <2> HIDE DEF s
  <2> QED BY <2>1, <2>2, ChooseKeeps
<1>2. ASSUME NEW t \in ChartTypes, SetChartType(t)
      PROVE  MarketInv'
  <2> DEFINE s == [store EXCEPT !.selectedChartType = t]
  <2>1. s \in Stores /\ (s.selectedChartType = "Batch" => s.selectedBatch # NoBlock)
    BY <1>0, <1>2 DEF Stores, SetChartType
  <2>2. Choose(s)
    BY <1>2 DEF SetChartType
  <2> HIDE DEF s
  <2> QED BY <2>1, <2>2, ChooseKeeps
<1>3. ASSUME NEW b \in {NoBlock} \cup UNION {batches[m] : m \in Markets}, SelectBatch(b)
      PROVE  MarketInv'
  <2> DEFINE s == HandleSelectBatch(store, b)
  <2>1. b \in Nat
    BY DEF MarketInv, MarketTypes, NoBlock
  <2>2. s \in Stores /\ (s.selectedChartType = "Batch" => s.selectedBatch # NoBlock)
    BY <1>0, <2>1 DEF Stores, HandleSelectBatch, ChartTypes
  <2>3. Choose(s)
    BY <1>3 DEF SelectBatch
  <2> HIDE DEF s
  <2> QED BY <2>2, <2>3, ChooseKeeps
<1>4. CASE ReopenPage
  <2>1. PanelKnown'
    <3>1. CASE store.selectedChartType # "Batch"
      BY <1>4, <3>1 DEF ReopenPage, PanelKnown
    <3>2. CASE store.selectedChartType = "Batch"
      <4>1. /\ chart'.mounted
            /\ chart'.drawn = BatchProp(store, batches)
            /\ ~ chart'.missed => BatchProp(store, batches) # <<>>
        BY <1>4, <3>2 DEF ReopenPage, DrawnOn, NoChart
      <4>2. BatchProp(store, batches) # <<>> =>
              /\ BatchProp(store, batches) = <<store.selectedMarket, store.selectedBatch>>
              /\ store.selectedBatch \in batches[store.selectedMarket]
        BY DEF BatchProp
      <4>3. store' = store /\ batches' = batches
        BY <1>4 DEF ReopenPage, data
      <4> QED BY <1>0, <3>2, <4>1, <4>2, <4>3 DEF PanelKnown
    <3> QED BY <3>1, <3>2
  <2> QED BY <1>4, <2>1 DEF MarketInv, MarketTypes, CallsKnown, BooksKnown, KeptAreGreatest,
                            Executed, ReopenPage, data
<1> QED BY <1>1, <1>2, <1>3, <1>4 DEF User

\* The loop of the books asks for what it may show.
LEMMA LoopKeeps ==
  ASSUME MarketInv, GetDepth \/ BookSettled \/ BookLost
  PROVE  MarketInv'
<1> USE DEF MarketInv
<1>1. PanelKnown' /\ CallsKnown' /\ KeptAreGreatest'
  BY DEF PanelKnown, CallsKnown, KeptAreGreatest, Executed, GetDepth, BookSettled, BookLost, data
<1>2. MarketTypes'
  BY MarketAssumption DEF MarketTypes, Stores, GetDepth, BookSettled, BookLost, data, Idle, NoBlock
<1>3. BooksKnown'
  <2>1. CASE GetDepth
    BY <2>1 DEF MarketTypes, Stores, BooksKnown, GetDepth, data
  <2>2. CASE BookSettled
    BY <2>2 DEF MarketTypes, BooksKnown, BookSettled, Idle
  <2>3. CASE BookLost
    BY <2>3 DEF MarketTypes, BooksKnown, BookLost, data, Idle
  <2> QED BY <2>1, <2>2, <2>3
<1> QED BY <1>1, <1>2, <1>3

LEMMA GetBatchKeeps ==
  ASSUME MarketInv, GetBatch
  PROVE  MarketInv'
<1> USE DEF MarketInv
<1>1. PanelKnown' /\ BooksKnown' /\ KeptAreGreatest'
  BY DEF PanelKnown, BooksKnown, KeptAreGreatest, Executed, GetBatch, data
<1>2. MarketTypes'
  BY DEF MarketTypes, Stores, GetBatch, data
<1>3. CallsKnown'
  <2>1. height[store.selectedMarket] \in Executed(store.selectedMarket)
    BY MarketAssumption DEF MarketTypes, Stores, GetBatch, Executed
  <2> QED BY <2>1 DEF CallsKnown, GetBatch, Executed, MarketTypes
<1> QED BY <1>1, <1>2, <1>3

\* An answer adds its batch to those of its market, wherever the user is.
LEMMA BatchSettledKeeps ==
  ASSUME MarketInv, NEW c \in calls, BatchSettled(c)
  PROVE  MarketInv'
<1> DEFINE kept == [batches EXCEPT ![c.market] = HandleAddBatch(@, c.block)]
           m == c.market
           b == c.block
<1>1. /\ m \in Markets /\ b \in Nat /\ b \in Executed(m)
      /\ batches[m] = Sliced(received[m]) /\ received[m] \subseteq Executed(m)
      /\ batches \in [Markets -> SUBSET Nat] /\ received \in [Markets -> SUBSET Nat]
  BY DEF MarketInv, MarketTypes, CallsKnown, KeptAreGreatest
<1>2. Executed(m) \subseteq 0 .. LastId
  <2>1. /\ FirstHeight \in Nat /\ height[m] \in FirstHeight .. MaxHeight[m]
        /\ MaxHeight[m] \in FirstHeight .. LastId
    BY <1>1, MarketAssumption DEF MarketInv, MarketTypes
  <2> QED BY <2>1, NineDigits DEF Executed
<1>3. HandleAddBatch(batches[m], b) = Sliced(received[m] \cup {b})
  <2>1. received[m] \in SUBSET (0 .. LastId) /\ b \in 0 .. LastId
    BY <1>1, <1>2
  <2> QED BY <1>1, <2>1, SlicedAgain DEF HandleAddBatch
<1>4. HandleAddBatch(batches[m], b) \in SUBSET Nat
  BY <1>1 DEF HandleAddBatch, Sliced
<1>5. kept \in [Markets -> SUBSET Nat]
  BY <1>1, <1>4
<1>6. /\ calls' = calls \ {c}
      /\ batches' = kept
      /\ received' = [received EXCEPT ![m] = @ \cup {b}]
      /\ chart' = Rendered(store, kept)
      /\ UNCHANGED <<height, store, books, loop>>
  BY DEF BatchSettled
<1>7. kept[m] = Sliced(received[m] \cup {b}) /\ \A n \in Markets \ {m} : kept[n] = batches[n]
  BY <1>1, <1>3
<1> HIDE DEF kept, m, b
<1>8. PanelKnown'
  <2>1. store \in Stores /\ (store.selectedChartType = "Batch" => store.selectedBatch # NoBlock)
    BY DEF MarketInv, MarketTypes, PanelKnown
  <2> QED BY <1>5, <1>6, <2>1, RenderedKnown DEF MarketInv
<1>9. received' \in [Markets -> SUBSET Nat]
  BY <1>1, <1>6
<1>10. MarketTypes'
  BY <1>5, <1>6, <1>9 DEF MarketInv, MarketTypes
<1>11. CallsKnown' /\ BooksKnown'
  BY <1>6 DEF MarketInv, CallsKnown, BooksKnown, Executed
<1>12. KeptAreGreatest'
  <2>1. /\ received'[m] = received[m] \cup {b}
        /\ \A n \in Markets \ {m} : received'[n] = received[n]
    BY <1>1, <1>6
  <2>2. \A n : Executed(n)' = Executed(n)
    BY <1>6 DEF Executed
  <2> QED BY <1>1, <1>6, <1>7, <2>1, <2>2 DEF MarketInv, KeptAreGreatest
<1> QED BY <1>8, <1>10, <1>11, <1>12 DEF MarketInv

LEMMA BlockKeeps ==
  ASSUME MarketInv, NEW m \in Markets, Block(m)
  PROVE  MarketInv'
<1>1. /\ height' = [height EXCEPT ![m] = @ + 1]
      /\ height[m] < MaxHeight[m]
      /\ UNCHANGED <<store, books, batches, received, loop, calls, chart>>
  BY DEF Block, data
<1>2. /\ height' \in [Markets -> Nat]
      /\ \A n \in Markets : height[n] <= height'[n] /\ height'[n] \in FirstHeight .. MaxHeight[n]
  <2>1. /\ FirstHeight \in Nat
        /\ \A n \in Markets : MaxHeight[n] \in Int
        /\ height \in [Markets -> Nat]
        /\ \A n \in Markets : height[n] \in FirstHeight .. MaxHeight[n]
    BY MarketAssumption, NineDigits DEF MarketInv, MarketTypes
  <2> QED BY <1>1, <2>1
<1>3. \A n \in Markets : Executed(n) \subseteq Executed(n)'
  BY <1>2, MarketAssumption DEF Executed, MarketInv, MarketTypes
<1>4. MarketTypes' /\ PanelKnown'
  BY <1>1, <1>2 DEF MarketInv, MarketTypes, PanelKnown
<1>5. CallsKnown' /\ KeptAreGreatest'
  BY <1>1, <1>3 DEF MarketInv, MarketTypes, CallsKnown, KeptAreGreatest
<1>6. BooksKnown'
  BY <1>1, <1>2 DEF MarketInv, MarketTypes, BooksKnown
<1> QED BY <1>4, <1>5, <1>6 DEF MarketInv

-----------------------------------------------------------------------------
(***************************************************************************)
(* The theorems.                                                           *)
(***************************************************************************)

\* The invariant is one.
THEOREM MarketInvariant == Spec => []MarketInv
<1>1. Init => MarketInv
  <2> SUFFICES ASSUME Init PROVE MarketInv
    OBVIOUS
  <2>1. \A m \in Markets : FirstHeight \in FirstHeight .. MaxHeight[m]
    BY MarketAssumption, NineDigits
  <2>2. MarketTypes
    BY <2>1, MarketAssumption DEF Init, MarketTypes, Stores, ChartTypes, Idle, NoBlock
  <2>3. Sliced({}) = {}
    BY DEF Sliced
  <2>4. CallsKnown /\ BooksKnown /\ PanelKnown /\ KeptAreGreatest
    BY <2>3, MarketAssumption
       DEF Init, CallsKnown, BooksKnown, PanelKnown, KeptAreGreatest, NoBlock, Idle
  <2> QED BY <2>2, <2>4 DEF MarketInv
<1>2. MarketInv /\ [Next]_vars => MarketInv'
  <2> SUFFICES ASSUME MarketInv, [Next]_vars PROVE MarketInv'
    OBVIOUS
  <2>1. CASE UNCHANGED vars
    BY <2>1 DEF vars, data, MarketInv, MarketTypes, CallsKnown, BooksKnown, PanelKnown,
                KeptAreGreatest, Executed
  <2>2. ASSUME NEW c \in calls, BatchLost(c)
        PROVE  MarketInv'
    BY <2>2 DEF BatchLost, data, MarketInv, MarketTypes, CallsKnown, BooksKnown, PanelKnown,
                KeptAreGreatest, Executed
  <2> QED BY <2>1, <2>2, UserKeeps, LoopKeeps, GetBatchKeeps, BatchSettledKeeps, BlockKeeps
          DEF Next
<1> QED BY <1>1, <1>2, PTL DEF Spec

\* However the answers of the batch calls overtake each other and whatever
\* the user selects meanwhile, the batches kept of a market are of this
\* market, and of all that came the greatest by name.
THEOREM GreatestAreKept == Spec => []KeptAreGreatest
<1>1. MarketInv => KeptAreGreatest
  BY DEF MarketInv
<1> QED BY <1>1, MarketInvariant, PTL

\* The header names the batch the chart shows, unless that batch was missing
\* at some time since the chart was mounted.
THEOREM HeaderAndChartAlwaysAgree == Spec => []HeaderAndChartAgree
<1>1. MarketInv => HeaderAndChartAgree
  <2> SUFFICES ASSUME MarketInv PROVE HeaderAndChartAgree
    OBVIOUS
  <2>1. \A c \in calls : c.block \in UNION {Executed(m) : m \in Markets}
    BY DEF MarketInv, MarketTypes, CallsKnown
  <2>2. TypeOK
    BY <2>1 DEF MarketInv, MarketTypes, Stores, TypeOK
  <2> QED BY <2>2 DEF MarketInv, PanelKnown, HeaderAndChartAgree
<1> QED BY <1>1, MarketInvariant, PTL

\* The book of a market is never replaced by an older one, nor by one of
\* another market's.
THEOREM BooksOnlyAdvance == Spec => BookNeverGoesBack
<1> DEFINE Advance == \A m \in Markets : books[m] <= books'[m] /\ books'[m] <= height'[m]
<1>1. MarketInv /\ MarketInv' /\ [Next]_vars => [Advance]_vars
  <2> SUFFICES ASSUME MarketInv, MarketInv', Next PROVE Advance
    OBVIOUS
  <2>1. \A m \in Markets : books'[m] <= height'[m]
    BY DEF MarketInv, BooksKnown
  <2>2. ASSUME NEW m \in Markets PROVE books[m] <= books'[m]
    <3>1. CASE UNCHANGED books
      BY <3>1 DEF MarketInv, MarketTypes
    <3>2. CASE BookSettled
      BY <3>2 DEF BookSettled, MarketInv, MarketTypes, BooksKnown
    <3> QED BY <3>1, <3>2 DEF Next, User, SelectMarket, SetChartType, SelectBatch, Choose,
               ReopenPage, GetDepth, BookLost, GetBatch, BatchSettled, BatchLost, Block, data
  <2> QED BY <2>1, <2>2
<1> QED BY <1>1, MarketInvariant, PTL DEF Spec, BookNeverGoesBack

-----------------------------------------------------------------------------
(***************************************************************************)
(* The candles: the invariant of Feed.                                     *)
(***************************************************************************)

CandlesOK ==
    /\ candles = [u \in Uids |-> candles[u]]
    /\ \A u \in Uids : /\ candles[u] \in Seq(Nat \ {0})
                       /\ Len(candles[u]) <= MaxCandles
                       /\ SumFunction(candles[u]) <= MaxTrades

BarsOK ==
    /\ bars = [u \in Uids |-> bars[u]]
    /\ \A u \in Uids : bars[u] # None => bars[u] = <<bars[u][1]>>

IsSub(s) == s = [callback |-> s.callback, map |-> s.map, due |-> s.due]
SubsOK(s) == DOMAIN s \subseteq Uids /\ \A u \in DOMAIN s : IsSub(s[u])

\* A chain has calls under way while it scans, or after its scan failed.
IsChain(c) ==
    /\ c = [at |-> c.at, calls |-> c.calls]
    /\ c.at \in {"none", "timer", "scan", "failed"}
    /\ DOMAIN c.calls \subseteq Uids
    /\ c.at \in {"none", "timer"} => DOMAIN c.calls = {}

ChainsOK ==
    /\ chains = [k \in 1 .. MaxChains |-> chains[k]]
    /\ \A k \in 1 .. MaxChains : IsChain(chains[k])

FeedTypes ==
    /\ CandlesOK /\ BarsOK /\ SubsOK(subs) /\ ChainsOK
    /\ lib \in [Uids -> {"idle", "asked", "ready", "on"}]
    /\ pulse \in 0 .. MaxChains

\* Candles of a symbol that has c, all but the newest as they will stay.
IsCache(c, f) ==
    /\ DOMAIN f \subseteq 1 .. Len(c)
    /\ \A t \in DOMAIN f : /\ f[t] \in Nat /\ f[t] <= c[t]
                           /\ t < Newest(f) => f[t] = c[t]

\* An answer that tells at least what the cache has, from its newest on.
Follows(answer, map) ==
    DOMAIN map # {} => /\ Newest(map) \in DOMAIN answer
                       /\ \A t \in DOMAIN answer \cap DOMAIN map : answer[t] >= map[t]

\* What the node answers for u, which may be in s.
AnswerKnown(c, s, u, answer) ==
    IsCache(c, answer) /\ (u \in DOMAIN s => Follows(answer, s[u].map))

OneCall(u) ==
    /\ bars[u] # None => \A k \in DOMAIN chains : u \notin DOMAIN chains[k].calls
    /\ \A j, k \in DOMAIN chains :
         u \in DOMAIN chains[j].calls /\ u \in DOMAIN chains[k].calls => j = k

CacheKnown(u) ==
    /\ OneCall(u)
    /\ u \in DOMAIN subs => IsCache(candles[u], subs[u].map)
    /\ bars[u] # None => AnswerKnown(candles[u], subs, u, bars[u][1])
    /\ \A k \in DOMAIN chains :
         u \in DOMAIN chains[k].calls => AnswerKnown(candles[u], subs, u, chains[k].calls[u])

FeedInv == FeedTypes /\ \A u \in Uids \ raced : CacheKnown(u)

\* The newest candle of a cache is one of its candles, and the greatest.
LEMMA NewestIs ==
  ASSUME NEW n \in Nat, NEW f, DOMAIN f \subseteq 1 .. n
  PROVE  /\ Newest(f) \in 0 .. n
         /\ DOMAIN f # {} => Newest(f) \in DOMAIN f
         /\ DOMAIN f = {} => Newest(f) = 0
         /\ \A t \in DOMAIN f : t <= Newest(f)
<1> DEFINE s == {0} \cup DOMAIN f
<1>1. s \in SUBSET (0 .. n) /\ s # {} /\ 0 \in s
  OBVIOUS
<1>2. DOMAIN f \subseteq s /\ (\A t \in s : t # 0 => t \in DOMAIN f) /\ (DOMAIN f = {} => s = {0})
  OBVIOUS
<1>3. Newest(f) = Max(s)
  BY DEF Newest
<1> HIDE DEF s
<1>4. Max(s) \in s /\ \A t \in s : t <= Max(s)
  BY <1>1, MaxIs
<1>5. Newest(f) \in s /\ Newest(f) \in 0 .. n /\ \A t \in DOMAIN f : t <= Newest(f)
  BY <1>1, <1>2, <1>3, <1>4, Zenon
<1>6. DOMAIN f # {} => Newest(f) \in DOMAIN f
  <2> SUFFICES ASSUME NEW t \in DOMAIN f PROVE Newest(f) # 0
    BY <1>2, <1>5
  <2> QED BY <1>5
<1>7. DOMAIN f = {} => Newest(f) = 0
  BY <1>2, <1>5
<1> QED BY <1>5, <1>6, <1>7

\* What is asked from a candle on, up to the newest of the cache, follows it.
LEMMA CandlesFollow ==
  ASSUME CandlesOK, NEW u \in Uids, NEW map, IsCache(candles[u], map), NEW first \in Nat \ {0},
         DOMAIN map # {} => first <= Newest(map)
  PROVE  IsCache(candles[u], Candles(u, first)) /\ Follows(Candles(u, first), map)
<1> DEFINE c == candles[u]
           a == Candles(u, first)
<1>1. c \in Seq(Nat) /\ Len(c) \in Nat /\ \A t \in 1 .. Len(c) : c[t] \in Nat
  BY DEF CandlesOK
<1>2. DOMAIN a = first .. Len(c) /\ \A t \in first .. Len(c) : a[t] = c[t]
  BY DEF Candles
<1>3. DOMAIN map \subseteq 1 .. Len(c) /\ \A t \in DOMAIN map : map[t] \in Nat /\ map[t] <= c[t]
  BY DEF IsCache
<1> HIDE DEF a
<1>4. IsCache(candles[u], a)
  BY <1>1, <1>2 DEF IsCache
<1>5. DOMAIN map # {} => Newest(map) \in 1 .. Len(c)
  BY <1>1, <1>3, NewestIs
<1>6. Follows(a, map)
  <2>1. DOMAIN map # {} => Newest(map) \in first .. Len(c)
    BY <1>1, <1>5
  <2>2. \A t \in DOMAIN a \cap DOMAIN map : a[t] = c[t] /\ map[t] <= c[t] /\ map[t] \in Nat /\ c[t] \in Nat
    BY <1>1, <1>2, <1>3
  <2> QED BY <1>2, <2>1, <2>2 DEF Follows
<1> QED BY <1>4, <1>6 DEF a

\* A cache to which an answer that follows it is added, is one.
LEMMA OverIsCache ==
  ASSUME NEW c, Len(c) \in Nat, NEW a, NEW map, IsCache(c, a), IsCache(c, map),
         Follows(a, map)
  PROVE  IsCache(c, Over(a, map))
<1> DEFINE f == Over(a, map)
           n == Len(c)
<1>1. /\ DOMAIN f = DOMAIN a \cup DOMAIN map
      /\ \A t \in DOMAIN f : f[t] = IF t \in DOMAIN a THEN a[t] ELSE map[t]
  BY DEF Over
<1>2. DOMAIN a \subseteq 1 .. n /\ DOMAIN map \subseteq 1 .. n /\ n \in Nat
  BY DEF IsCache
<1> HIDE DEF f, n
<1>3. DOMAIN f \subseteq 1 .. n
  BY <1>1, <1>2
<1>4. /\ Newest(f) \in 0 .. n /\ Newest(a) \in 0 .. n /\ Newest(map) \in 0 .. n
      /\ DOMAIN f # {} => Newest(f) \in DOMAIN f
      /\ \A t \in DOMAIN a : t <= Newest(a)
      /\ \A t \in DOMAIN map : t <= Newest(map)
  BY <1>2, <1>3, NewestIs
<1>5. ASSUME NEW t \in DOMAIN f
      PROVE  f[t] \in Nat /\ f[t] <= c[t] /\ (t < Newest(f) => f[t] = c[t])
  <2>1. CASE t \in DOMAIN a
    <3>1. f[t] = a[t] /\ f[t] \in Nat /\ f[t] <= c[t]
      BY <1>1, <2>1 DEF IsCache
    <3>2. ASSUME t < Newest(f), ~ (t < Newest(a)) PROVE FALSE
      <4>1. Newest(f) \in DOMAIN map
        BY <1>1, <1>2, <1>4, <2>1, <3>2
      <4>2. Newest(map) \in DOMAIN a
        BY <4>1 DEF Follows
      <4> QED BY <1>1, <1>2, <1>4, <2>1, <3>2, <4>1, <4>2
    <3>3. t < Newest(a) => a[t] = c[t]
      BY <2>1 DEF IsCache
    <3> QED BY <3>1, <3>2, <3>3
  <2>2. CASE t \notin DOMAIN a
    <3>1. t \in DOMAIN map /\ f[t] = map[t]
      BY <1>1, <2>2
    <3>2. Newest(map) \in DOMAIN a
      BY <3>1 DEF Follows
    <3>3. t < Newest(map)
      BY <1>2, <1>4, <2>2, <3>1, <3>2
    <3> QED BY <3>1, <3>3 DEF IsCache
  <2> QED BY <2>1, <2>2
<1> QED BY <1>3, <1>5 DEF IsCache, f, n

\* A step that asks nothing of a symbol, and leaves its cache or empties it.
Quiet(u) ==
    /\ candles' = candles /\ DOMAIN chains' = DOMAIN chains
    /\ bars'[u] # None => bars'[u] = bars[u]
    /\ u \in DOMAIN subs' => \/ u \in DOMAIN subs /\ subs'[u].map = subs[u].map
                             \/ DOMAIN subs'[u].map = {}
    /\ \A k \in DOMAIN chains : u \in DOMAIN chains'[k].calls =>
         u \in DOMAIN chains[k].calls /\ chains'[k].calls[u] = chains[k].calls[u]

\* No candles are a cache, and every answer follows it.
LEMMA NoCandles ==
  ASSUME NEW c, NEW f, DOMAIN f = {}
  PROVE  IsCache(c, f) /\ \A a : Follows(a, f)
BY DEF IsCache, Follows

\* Such a step keeps what is known of the symbol.
LEMMA QuietKnown ==
  ASSUME NEW u \in Uids, CacheKnown(u), Quiet(u)
  PROVE  CacheKnown(u)'
<1>1. OneCall(u)'
  BY DEF CacheKnown, OneCall, Quiet
<1>2. u \in DOMAIN subs' => IsCache(candles'[u], subs'[u].map)
  BY NoCandles DEF CacheKnown, Quiet
<1>3. ASSUME NEW a, AnswerKnown(candles[u], subs, u, a)
      PROVE  AnswerKnown(candles'[u], subs', u, a)
  BY <1>3, NoCandles DEF AnswerKnown, Quiet
<1>4. bars'[u] # None => AnswerKnown(candles'[u], subs', u, bars'[u][1])
  BY <1>3 DEF Quiet, CacheKnown
<1>5. \A k \in DOMAIN chains' : u \in DOMAIN chains'[k].calls
        => AnswerKnown(candles'[u], subs', u, chains'[k].calls[u])
  BY <1>3 DEF Quiet, CacheKnown
<1> QED BY <1>1, <1>2, <1>4, <1>5 DEF CacheKnown

\* A scan asks for every subscriber, and what is known of a symbol stays so
\* unless two calls for it are under way then.
LEMMA ScanKnown ==
  ASSUME FeedTypes, NEW u \in Uids, CacheKnown(u), u \notin raced',
         NEW k \in 1 .. MaxChains, DOMAIN chains[k].calls = {},
         candles' = candles, bars' = bars,
         chains' = [chains EXCEPT ![k] = ScanOf(subs')],
         raced' = raced \cup {v \in DOMAIN subs' : UnderWay(v)},
         u \in DOMAIN subs' => \/ u \in DOMAIN subs /\ subs'[u].map = subs[u].map
                               \/ DOMAIN subs'[u].map = {}
  PROVE  CacheKnown(u)'
<1> DEFINE s == subs'
           a == CallFor(u, s[u].map)
<1>0. DOMAIN chains = 1 .. MaxChains /\ DOMAIN chains' = 1 .. MaxChains
  BY DEF FeedTypes, ChainsOK
<1>1. /\ chains'[k].calls = [v \in DOMAIN s |-> CallFor(v, s[v].map)]
      /\ \A j \in 1 .. MaxChains : j # k => chains'[j] = chains[j]
  BY <1>0 DEF ScanOf
<1>2. CASE u \in DOMAIN s
  <2>1. bars[u] = None /\ \A j \in 1 .. MaxChains : u \notin DOMAIN chains[j].calls
    BY <1>0, <1>2 DEF UnderWay
  <2>2. IsCache(candles[u], s[u].map)
    BY <1>2, NoCandles DEF CacheKnown
  <2>3. AnswerKnown(candles[u], s, u, a)
    <3> DEFINE map == s[u].map
    <3>1. CandlesOK /\ Len(candles[u]) \in Nat
      BY DEF FeedTypes, CandlesOK
    <3>2. IsCache(candles[u], map) /\ DOMAIN map \subseteq 1 .. Len(candles[u])
      BY <2>2 DEF IsCache
    <3>c. a = Candles(u, Max({1, Newest(map)}))
      BY DEF CallFor
    <3> HIDE DEF map
    <3>3. /\ Newest(map) \in 0 .. Len(candles[u])
          /\ DOMAIN map # {} => Newest(map) \in DOMAIN map
      BY <3>1, <3>2, NewestIs
    <3>4. /\ Max({1, Newest(map)}) \in Nat \ {0}
          /\ DOMAIN map # {} => Max({1, Newest(map)}) <= Newest(map)
      <4> DEFINE n == Len(candles[u]) + 1
                 t == {1, Newest(map)}
      <4>1. n \in Nat /\ t \in SUBSET (0 .. n) /\ t # {} /\ 1 \in t
        BY <3>1, <3>3
      <4>2. DOMAIN map # {} => Newest(map) >= 1
        BY <3>2, <3>3
      <4>3. \A i \in t : i = 1 \/ i = Newest(map)
        OBVIOUS
      <4> HIDE DEF n, t
      <4>4. Max(t) \in t /\ \A i \in t : i <= Max(t)
        BY <4>1, MaxIs
      <4>5. 1 <= Max(t) /\ (Max(t) = 1 \/ Max(t) = Newest(map)) /\ Newest(map) \in Nat
        <5>1. 1 <= Max(t) /\ (Max(t) = 1 \/ Max(t) = Newest(map))
          BY <4>1, <4>3, <4>4, Zenon
        <5>2. Newest(map) \in Nat
          BY <3>1, <3>3
        <5> QED BY <5>1, <5>2
      <4> DEFINE m == Max(t)
      <4>6. m \in Nat \ {0} /\ (DOMAIN map # {} => m <= Newest(map))
        <5> HIDE DEF m
        <5> QED BY <4>2, <4>5 DEF m
      <4> QED BY <4>6 DEF t
    <3>5. IsCache(candles[u], a) /\ Follows(a, map)
      BY <3>1, <3>2, <3>c, <3>4, CandlesFollow
    <3> QED BY <3>5 DEF AnswerKnown, map
  <2>4. OneCall(u)'
    BY <1>0, <1>1, <2>1 DEF OneCall
  <2>5. \A j \in DOMAIN chains' : u \in DOMAIN chains'[j].calls => j = k
    BY <1>0, <1>1, <2>1
  <2>6. chains'[k].calls[u] = a
    BY <1>1, <1>2
  <2> QED BY <1>2, <2>1, <2>2, <2>3, <2>4, <2>5, <2>6 DEF CacheKnown
<1>3. CASE u \notin DOMAIN s
  <2>1. Quiet(u)
    BY <1>0, <1>1, <1>3 DEF Quiet
  <2> QED BY <2>1, QuietKnown
<1> QED BY <1>2, <1>3

\* What an answer makes of the subscribers.
LEMMA AddedIs ==
  ASSUME SubsOK(subs), NEW u \in Uids, NEW a
  PROVE  /\ SubsOK(Added(u, a))
         /\ \A v \in DOMAIN Added(u, a) : v # u => v \in DOMAIN subs /\ Added(u, a)[v] = subs[v]
         /\ u \in DOMAIN Added(u, a) =>
              \/ u \in DOMAIN subs /\ Added(u, a)[u] = subs[u]
              \/ u \in DOMAIN subs /\ Added(u, a)[u].map = Over(a, subs[u].map)
              \/ u \notin DOMAIN subs /\ Added(u, a)[u].map = Over(a, None)
<1> DEFINE old == SubscriberAt(u)
           new == [old EXCEPT !.map = Over(a, @), !.due = TRUE]
<1>1. CASE a = None
  BY <1>1 DEF Added, SubsOK
<1>2. CASE a # None
  <2>1. /\ IsSub(old)
        /\ u \in DOMAIN subs => old = subs[u]
        /\ u \notin DOMAIN subs => old.map = None
    BY DEF SubscriberAt, NewSub, SubsOK, IsSub
  <2>2. Added(u, a) = With(u, new)
    BY <1>2 DEF Added
  <2> HIDE DEF old
  <2>3. new.map = Over(a, old.map) /\ IsSub(new)
    <3>1. PICK c, m, d : old = [callback |-> c, map |-> m, due |-> d]
      BY <2>1 DEF IsSub
    <3> DEFINE o == Over(a, m)
    <3>2. old.map = m
      BY <3>1
    <3>3. new = [[callback |-> c, map |-> m, due |-> d] EXCEPT !.map = o, !.due = TRUE]
      BY <3>1, <3>2, Zenon
    <3> HIDE DEF o, new
    <3>4. new = [callback |-> c, map |-> o, due |-> TRUE]
      BY <3>3
    <3>5. new = [callback |-> c, map |-> Over(a, m), due |-> TRUE]
      BY <3>4 DEF o
    <3> QED BY <3>2, <3>5 DEF IsSub
  <2> HIDE DEF new
  <2>4. /\ DOMAIN With(u, new) = {u} \cup DOMAIN subs
        /\ With(u, new)[u] = new
        /\ \A v \in DOMAIN subs : v # u => With(u, new)[v] = subs[v]
    BY DEF With, Over
  <2>5. SubsOK(With(u, new))
    BY <2>3, <2>4 DEF SubsOK
  <2> QED BY <2>1, <2>2, <2>3, <2>4, <2>5
<1> QED BY <1>1, <1>2

\* An answer that is added keeps what is known of every symbol: it was the
\* only one for its own.
LEMMA AddedKnown ==
  ASSUME FeedTypes, NEW u \in Uids, NEW a, NEW v \in Uids, CacheKnown(v),
         u = v => AnswerKnown(candles[u], subs, u, a),
         u = v => bars'[u] = None /\ \A k \in DOMAIN chains : u \notin DOMAIN chains'[k].calls,
         candles' = candles, subs' = Added(u, a), DOMAIN chains' = DOMAIN chains,
         v # u => bars'[v] = bars[v],
         v # u => \A k \in DOMAIN chains : v \in DOMAIN chains'[k].calls =>
                    v \in DOMAIN chains[k].calls /\ chains'[k].calls[v] = chains[k].calls[v]
  PROVE  CacheKnown(v)'
<1>1. /\ \A w \in DOMAIN subs' : w # u => w \in DOMAIN subs /\ subs'[w] = subs[w]
      /\ u \in DOMAIN subs' =>
           \/ u \in DOMAIN subs /\ subs'[u] = subs[u]
           \/ u \in DOMAIN subs /\ subs'[u].map = Over(a, subs[u].map)
           \/ u \notin DOMAIN subs /\ subs'[u].map = Over(a, None)
  BY AddedIs DEF FeedTypes
<1>2. CASE v # u
  <2>1. Quiet(v)
    BY <1>1, <1>2 DEF Quiet
  <2> QED BY <2>1, QuietKnown
<1>3. CASE v = u
  <2>1. Len(candles[u]) \in Nat
    BY DEF FeedTypes, CandlesOK
  <2>2. IsCache(candles[u], a) /\ (u \in DOMAIN subs => Follows(a, subs[u].map))
    BY <1>3 DEF AnswerKnown
  <2>3. u \in DOMAIN subs => IsCache(candles[u], subs[u].map)
    BY <1>3 DEF CacheKnown
  <2>4. u \in DOMAIN subs => IsCache(candles[u], Over(a, subs[u].map))
    BY <2>1, <2>2, <2>3, OverIsCache
  <2>5. IsCache(candles[u], Over(a, None))
    <3>1. DOMAIN None = {}
      BY DEF None
    <3> HIDE DEF None
    <3>2. IsCache(candles[u], None) /\ Follows(a, None)
      BY <3>1, NoCandles
    <3> QED BY <2>1, <2>2, <3>2, OverIsCache
  <2>6. u \in DOMAIN subs' => IsCache(candles'[u], subs'[u].map)
    BY <1>1, <2>3, <2>4, <2>5
  <2>7. OneCall(u)'
    BY <1>3 DEF OneCall
  <2> QED BY <1>3, <2>6, <2>7 DEF CacheKnown
<1> QED BY <1>2, <1>3

\* A call of a chain is settled: its other calls stay.
LEMMA SettledIs ==
  ASSUME FeedTypes, NEW k \in 1 .. MaxChains, NEW u \in DOMAIN chains[k].calls,
         \/ ScanSettled(k, u) \/ ScanFailed(k, u)
  PROVE  /\ ChainsOK'
         /\ chains'[k].calls = Without(chains[k], u)
         /\ \A j \in 1 .. MaxChains : j # k => chains'[j] = chains[j]
<1> DEFINE c == chains[k]
           rest == Without(c, u)
<1>1. IsChain(c) /\ c.at \in {"scan", "failed"}
  BY DEF FeedTypes, ChainsOK, IsChain
<1>2. DOMAIN rest = DOMAIN c.calls \ {u} /\ DOMAIN None = {}
  BY DEF Without, None
<1>3. PICK d : /\ chains' = [chains EXCEPT ![k] = d] /\ IsChain(d) /\ d.calls = rest
  <2>1. CASE rest # None
    <3>1. chains' = [chains EXCEPT ![k] = [c EXCEPT !.calls = rest]]
          \/ chains' = [chains EXCEPT ![k] = [at |-> "failed", calls |-> rest]]
      BY <2>1 DEF ScanSettled, ScanFailed
    <3> HIDE DEF c, rest
    <3>2. /\ IsChain([c EXCEPT !.calls = rest]) /\ [c EXCEPT !.calls = rest].calls = rest
          /\ IsChain([at |-> "failed", calls |-> rest]) /\ [at |-> "failed", calls |-> rest].calls = rest
      BY <1>1, <1>2 DEF IsChain
    <3> QED BY <3>1, <3>2, Zenon
  <2>2. CASE rest = None
    <3>1. chains' = [chains EXCEPT ![k] = [at |-> "timer", calls |-> None]]
          \/ chains' = [chains EXCEPT ![k] = Stopped]
      BY <1>1, <2>2 DEF ScanSettled, ScanFailed
    <3> HIDE DEF c, rest
    <3>2. /\ IsChain([at |-> "timer", calls |-> None]) /\ [at |-> "timer", calls |-> None].calls = rest
          /\ IsChain(Stopped) /\ Stopped.calls = rest
      BY <1>2, <2>2 DEF IsChain, Stopped
    <3> QED BY <3>1, <3>2, Zenon
  <2> QED BY <2>1, <2>2
<1> QED BY <1>3 DEF FeedTypes, ChainsOK

\* A trade only adds to the newest candle, or a newer one.
LEMMA TradeKeeps ==
  ASSUME FeedInv, NEW u \in Uids, Trade(u)
  PROVE  FeedInv'
<1> DEFINE c == candles[u]
           d == candles'[u]
           n == Len(c)
<1>1. /\ c \in Seq(Nat \ {0}) /\ n \in Nat /\ n <= MaxCandles
      /\ SumFunction(c) < MaxTrades /\ MaxTrades \in Nat /\ MaxCandles \in Nat
  BY FeedAssumption DEF FeedInv, FeedTypes, CandlesOK, Trade
<1>2. /\ \/ n # 0 /\ candles' = [candles EXCEPT ![u] = [c EXCEPT ![n] = @ + 1]]
         \/ n < MaxCandles /\ candles' = [candles EXCEPT ![u] = Append(c, 1)]
      /\ lib' = lib /\ bars' = bars /\ subs' = subs /\ chains' = chains
      /\ pulse' = pulse /\ raced' = raced
  BY <1>1 DEF Trade
<1>3. candles = [v \in Uids |-> candles[v]]
  BY DEF FeedInv, FeedTypes, CandlesOK
<1>4. /\ \/ n # 0 /\ d = [c EXCEPT ![n] = @ + 1]
         \/ n < MaxCandles /\ d = Append(c, 1)
      /\ candles' = [v \in Uids |-> candles'[v]]
      /\ \A v \in Uids : v # u => candles'[v] = candles[v]
  BY <1>2, <1>3
<1> HIDE DEF c, n, d
<1>5. /\ d \in Seq(Nat \ {0}) /\ Len(d) \in Nat /\ n <= Len(d) /\ Len(d) <= MaxCandles
      /\ \A t \in 1 .. n : /\ c[t] \in Nat /\ d[t] \in Nat /\ c[t] <= d[t]
                           /\ t < n => c[t] = d[t]
  <2>1. \A t \in 1 .. n : c[t] \in Nat \ {0}
    BY <1>1 DEF n
  <2>2. CASE n # 0 /\ d = [c EXCEPT ![n] = @ + 1]
    <3>1. d \in Seq(Nat \ {0}) /\ Len(d) = n /\ \A t \in 1 .. n : d[t] = IF t = n THEN c[n] + 1 ELSE c[t]
      BY <1>1, <2>1, <2>2 DEF n
    <3> QED BY <1>1, <2>1, <3>1
  <2>3. CASE n < MaxCandles /\ d = Append(c, 1)
    <3>1. d \in Seq(Nat \ {0}) /\ Len(d) = n + 1 /\ \A t \in 1 .. n : d[t] = c[t]
      BY <1>1, <2>3 DEF n
    <3> QED BY <1>1, <2>1, <2>3, <3>1
  <2> QED BY <1>4, <2>2, <2>3
<1>6. SumFunction(d) <= MaxTrades
  <2>1. /\ DOMAIN c = 1 .. n /\ IsFiniteSet(1 .. n) /\ IsFiniteSet(1 .. n + 1)
        /\ \A t \in 1 .. n : c[t] \in Int
    <3>1. IsFiniteSet(1 .. n) /\ IsFiniteSet(1 .. n + 1)
      BY <1>1, FS_Interval
    <3> QED BY <1>1, <3>1 DEF n
  <2>2. SumFunctionOnSet(c, 1 .. n) \in Int /\ SumFunctionOnSet(c, 1 .. n) < MaxTrades
    BY <1>1, <2>1, SumInt DEF SumFunction
  <2>3. CASE n # 0 /\ d = [c EXCEPT ![n] = @ + 1]
    <3>1. /\ DOMAIN d = 1 .. n /\ n \in 1 .. n /\ d[n] = c[n] + 1 /\ c[n] \in Int
          /\ \A t \in 1 .. n : d[t] \in Int
          /\ \A t \in (1 .. n) \ {n} : d[t] = c[t]
      BY <1>1, <2>1, <2>3
    <3>2. SumFunctionOnSet(d, 1 .. n) = SumFunctionOnSet(c, 1 .. n) + (d[n] - c[n])
      BY <2>1, <3>1, SumChange
    <3>3. SumFunctionOnSet(d, 1 .. n) <= MaxTrades
      BY <1>1, <2>2, <3>1, <3>2
    <3> QED BY <3>1, <3>3 DEF SumFunction
  <2>4. CASE d = Append(c, 1)
    <3>1. /\ DOMAIN d = (1 .. n) \cup {n + 1} /\ n + 1 \notin 1 .. n /\ d[n + 1] = 1
          /\ \A t \in (1 .. n) \cup {n + 1} : d[t] \in Int
          /\ \A t \in 1 .. n : d[t] = c[t]
      BY <1>1, <2>1, <2>4 DEF n
    <3>2. SumFunctionOnSet(d, (1 .. n) \cup {n + 1}) = d[n + 1] + SumFunctionOnSet(d, 1 .. n)
      BY <2>1, <3>1, SumAdd
    <3>3. SumFunctionOnSet(d, 1 .. n) = SumFunctionOnSet(c, 1 .. n)
      <4>1. \A t \in 1 .. n : d[t] = c[t]
        BY <3>1
      <4> QED BY <2>1, <4>1, SumSame, Zenon
    <3>4. SumFunctionOnSet(d, (1 .. n) \cup {n + 1}) <= MaxTrades
      BY <1>1, <2>2, <3>1, <3>2, <3>3
    <3> QED BY <3>1, <3>4 DEF SumFunction
  <2> QED BY <1>4, <2>3, <2>4
<1>7. FeedTypes'
  <2>1. CandlesOK'
    BY <1>4, <1>5, <1>6 DEF FeedInv, FeedTypes, CandlesOK, d
  <2> QED BY <1>2, <2>1 DEF FeedInv, FeedTypes, BarsOK, ChainsOK
<1>8. ASSUME NEW v \in Uids, NEW f, IsCache(candles[v], f)
      PROVE  IsCache(candles'[v], f)
  <2>1. CASE v # u
    BY <1>4, <1>8, <2>1
  <2>2. CASE v = u
    <3>1. /\ DOMAIN f \subseteq 1 .. n
          /\ \A t \in DOMAIN f : f[t] \in Nat /\ f[t] <= c[t] /\ (t < Newest(f) => f[t] = c[t])
      BY <1>8, <2>2 DEF IsCache, c, n
    <3>2. Newest(f) \in 0 .. n
      BY <1>1, <3>1, NewestIs
    <3>3. IsCache(d, f)
      <4>1. DOMAIN f \subseteq 1 .. Len(d)
        BY <1>1, <1>5, <3>1
      <4>2. ASSUME NEW t \in DOMAIN f
            PROVE  f[t] \in Nat /\ f[t] <= d[t] /\ (t < Newest(f) => f[t] = d[t])
        <5>1. /\ t \in 1 .. n /\ c[t] \in Nat /\ d[t] \in Nat /\ c[t] <= d[t]
              /\ t < n => c[t] = d[t]
          BY <1>5, <3>1
        <5>2. t < Newest(f) => t < n
          BY <1>1, <3>2, <5>1
        <5> QED BY <3>1, <5>1, <5>2
      <4> QED BY <4>1, <4>2 DEF IsCache
    <3> QED BY <2>2, <3>3 DEF d
  <2> QED BY <2>1, <2>2
<1>9. ASSUME NEW v \in Uids \ raced' PROVE CacheKnown(v)'
  <2>1. CacheKnown(v)
    BY <1>2 DEF FeedInv
  <2> QED BY <1>2, <1>8, <2>1 DEF CacheKnown, OneCall, AnswerKnown
<1> QED BY <1>7, <1>9 DEF FeedInv

\* Bars are asked for.
LEMMA GetBarsKeeps ==
  ASSUME FeedInv, NEW u \in Uids, GetBars(u)
  PROVE  FeedInv'
<1>1. /\ bars' = [bars EXCEPT ![u] = <<Candles(u, 1)>>]
      /\ lib' = [lib EXCEPT ![u] = "asked"] /\ bars[u] = None
      /\ candles' = candles /\ subs' = subs /\ chains' = chains /\ pulse' = pulse
      /\ raced \subseteq raced' /\ (UnderWay(u) => u \in raced')
  BY DEF GetBars
<1>2. /\ bars'[u] = <<Candles(u, 1)>> /\ bars' = [v \in Uids |-> bars'[v]]
      /\ \A v \in Uids : v # u => bars'[v] = bars[v]
  BY <1>1 DEF FeedInv, FeedTypes, BarsOK
<1>3. FeedTypes'
  <2>1. BarsOK'
    BY <1>2 DEF FeedInv, FeedTypes, BarsOK
  <2> QED BY <1>1, <2>1 DEF FeedInv, FeedTypes, CandlesOK, ChainsOK
<1>4. ASSUME NEW v \in Uids \ raced' PROVE CacheKnown(v)'
  <2>1. CacheKnown(v)
    BY <1>1 DEF FeedInv
  <2>2. CASE v # u
    <3>1. Quiet(v)
      BY <1>1, <1>2, <2>2 DEF Quiet
    <3> QED BY <2>1, <3>1, QuietKnown
  <2>3. CASE v = u
    <3>1. \A k \in DOMAIN chains : u \notin DOMAIN chains[k].calls
      BY <1>1, <2>3 DEF UnderWay
    <3>2. AnswerKnown(candles[u], subs, u, Candles(u, 1))
      <4>1. CandlesOK /\ Len(candles[u]) \in Nat /\ 1 \in Nat \ {0}
        BY DEF FeedInv, FeedTypes, CandlesOK
      <4>2. ASSUME NEW map, IsCache(candles[u], map)
            PROVE  IsCache(candles[u], Candles(u, 1)) /\ Follows(Candles(u, 1), map)
        <5>1. DOMAIN map # {} => 1 <= Newest(map)
          <6>1. DOMAIN map \subseteq 1 .. Len(candles[u])
            BY <4>2 DEF IsCache
          <6>2. DOMAIN map # {} => Newest(map) \in DOMAIN map
            BY <4>1, <6>1, NewestIs, Zenon
          <6> QED BY <4>1, <6>1, <6>2
        <5> QED BY <4>1, <4>2, <5>1, CandlesFollow
      <4>3. DOMAIN None = {}
        BY DEF None
      <4>4. IsCache(candles[u], None)
        BY <4>3, NoCandles
      <4> QED BY <2>1, <2>3, <4>2, <4>4 DEF AnswerKnown, CacheKnown
    <3>3. OneCall(u)'
      BY <1>1, <3>1 DEF OneCall
    <3> QED BY <1>1, <1>2, <2>1, <2>3, <3>1, <3>2, <3>3 DEF CacheKnown
  <2> QED BY <2>2, <2>3
<1> QED BY <1>3, <1>4 DEF FeedInv

\* Bars are there.
LEMMA BarsSettledKeeps ==
  ASSUME FeedInv, NEW u \in Uids, BarsSettled(u)
  PROVE  FeedInv'
<1> DEFINE a == bars[u][1]
<1>1. /\ bars[u] # None /\ bars' = [bars EXCEPT ![u] = None]
      /\ subs' = Added(u, a)
      /\ lib' = IF lib[u] = "asked" THEN [lib EXCEPT ![u] = "ready"] ELSE lib
      /\ candles' = candles /\ chains' = chains /\ pulse' = pulse /\ raced' = raced
  BY DEF BarsSettled
<1>2. /\ bars'[u] = None /\ bars' = [v \in Uids |-> bars'[v]]
      /\ \A v \in Uids : v # u => bars'[v] = bars[v]
  BY <1>1 DEF FeedInv, FeedTypes, BarsOK
<1>3. FeedTypes'
  <2>1. BarsOK'
    BY <1>2 DEF FeedInv, FeedTypes, BarsOK
  <2>2. SubsOK(subs')
    BY <1>1, AddedIs DEF FeedInv, FeedTypes
  <2> QED BY <1>1, <2>1, <2>2 DEF FeedInv, FeedTypes, CandlesOK, ChainsOK
<1>4. ASSUME NEW v \in Uids \ raced' PROVE CacheKnown(v)'
  <2>1. CacheKnown(v) /\ FeedTypes
    BY <1>1 DEF FeedInv
  <2>2. u = v => /\ AnswerKnown(candles[u], subs, u, a)
                 /\ bars'[u] = None /\ \A k \in DOMAIN chains : u \notin DOMAIN chains'[k].calls
    BY <1>1, <1>2, <2>1 DEF CacheKnown, OneCall
  <2> HIDE DEF a
  <2> QED BY <1>1, <1>2, <2>1, <2>2, AddedKnown
<1> QED BY <1>3, <1>4 DEF FeedInv

\* A call of a chain is answered.
LEMMA ScanSettledKeeps ==
  ASSUME FeedInv, NEW k \in 1 .. MaxChains, NEW u \in DOMAIN chains[k].calls, ScanSettled(k, u)
  PROVE  FeedInv'
<1> DEFINE a == chains[k].calls[u]
<1>0. u \in Uids /\ DOMAIN chains = 1 .. MaxChains
  BY DEF FeedInv, FeedTypes, ChainsOK, IsChain
<1>1. /\ subs' = Added(u, a) /\ pulse' \in {k, pulse}
      /\ lib' = lib /\ bars' = bars /\ candles' = candles /\ raced' = raced
  BY DEF ScanSettled
<1>2. /\ ChainsOK'
      /\ chains'[k].calls = Without(chains[k], u)
      /\ \A j \in 1 .. MaxChains : j # k => chains'[j] = chains[j]
  BY SettledIs DEF FeedInv
<1>3. FeedTypes'
  <2>1. SubsOK(subs')
    BY <1>0, <1>1, AddedIs DEF FeedInv, FeedTypes
  <2> QED BY <1>1, <1>2, <2>1 DEF FeedInv, FeedTypes, CandlesOK, BarsOK
<1>4. DOMAIN chains' = 1 .. MaxChains
  BY <1>2 DEF ChainsOK
<1>5. /\ u \notin DOMAIN chains'[k].calls
      /\ \A v \in DOMAIN chains'[k].calls : /\ v \in DOMAIN chains[k].calls
                                            /\ chains'[k].calls[v] = chains[k].calls[v]
  BY <1>2 DEF Without
<1>6. ASSUME NEW v \in Uids \ raced' PROVE CacheKnown(v)'
  <2>1. CacheKnown(v) /\ FeedTypes
    BY <1>1 DEF FeedInv
  <2>2. u = v => /\ AnswerKnown(candles[u], subs, u, a)
                 /\ bars'[u] = None /\ \A j \in DOMAIN chains : u \notin DOMAIN chains'[j].calls
    <3> SUFFICES ASSUME u = v
                 PROVE  /\ AnswerKnown(candles[u], subs, u, a) /\ bars[u] = None
                        /\ \A j \in 1 .. MaxChains : u \notin DOMAIN chains'[j].calls
      BY <1>0, <1>1
    <3>1. AnswerKnown(candles[u], subs, u, a) /\ bars[u] = None
      BY <1>0, <2>1 DEF CacheKnown, OneCall
    <3>2. \A j \in 1 .. MaxChains : j # k => u \notin DOMAIN chains[j].calls
      BY <1>0, <2>1 DEF CacheKnown, OneCall
    <3> QED BY <1>2, <1>5, <3>1, <3>2
  <2>3. v # u => \A j \in DOMAIN chains : v \in DOMAIN chains'[j].calls =>
                   v \in DOMAIN chains[j].calls /\ chains'[j].calls[v] = chains[j].calls[v]
    BY <1>0, <1>2, <1>5
  <2> HIDE DEF a
  <2> QED BY <1>0, <1>1, <1>4, <2>1, <2>2, <2>3, AddedKnown
<1> QED BY <1>3, <1>6 DEF FeedInv

\* A step that is quiet for every symbol.
LEMMA QuietKeeps ==
  ASSUME FeedInv, FeedTypes', raced' = raced, \A u \in Uids : Quiet(u)
  PROVE  FeedInv'
BY QuietKnown DEF FeedInv

\* A call of a chain is refused.
LEMMA ScanFailedKeeps ==
  ASSUME FeedInv, NEW k \in 1 .. MaxChains, NEW u \in DOMAIN chains[k].calls, ScanFailed(k, u)
  PROVE  FeedInv'
<1>0. DOMAIN chains = 1 .. MaxChains
  BY DEF FeedInv, FeedTypes, ChainsOK
<1>1. UNCHANGED <<candles, lib, bars, subs, pulse, raced>>
  BY DEF ScanFailed
<1>2. /\ ChainsOK'
      /\ chains'[k].calls = Without(chains[k], u)
      /\ \A j \in 1 .. MaxChains : j # k => chains'[j] = chains[j]
  BY SettledIs DEF FeedInv
<1>3. FeedTypes'
  BY <1>1, <1>2 DEF FeedInv, FeedTypes, CandlesOK, BarsOK
<1>4. DOMAIN chains' = 1 .. MaxChains
  BY <1>2 DEF ChainsOK
<1>5. \A v \in DOMAIN chains'[k].calls : /\ v \in DOMAIN chains[k].calls
                                         /\ chains'[k].calls[v] = chains[k].calls[v]
  BY <1>2 DEF Without
<1>6. \A v \in Uids : Quiet(v)
  BY <1>0, <1>1, <1>2, <1>4, <1>5 DEF Quiet
<1> QED BY <1>1, <1>3, <1>6, QuietKeeps

\* Bars are refused, the library loses interest, or an update is due.
LEMMA IdleKeeps ==
  ASSUME FeedInv, NEW u \in Uids, BarsFailed(u) \/ LoseInterest(u) \/ Updates(u)
  PROVE  FeedInv'
<1>1. /\ candles' = candles /\ chains' = chains /\ pulse' = pulse /\ raced' = raced
      /\ lib' \in {lib, [lib EXCEPT ![u] = "idle"]}
      /\ bars' = bars \/ bars' = [bars EXCEPT ![u] = None]
      /\ subs' = subs \/ (u \in DOMAIN subs /\ subs' = [subs EXCEPT ![u].due = FALSE])
  BY DEF BarsFailed, LoseInterest, Updates, UpdateDaily, OrphanUpdates
<1>2. BarsOK' /\ \A v \in Uids : bars'[v] # None => bars'[v] = bars[v]
  BY <1>1 DEF FeedInv, FeedTypes, BarsOK
<1>3. SubsOK(subs') /\ \A v \in DOMAIN subs' : v \in DOMAIN subs /\ subs'[v].map = subs[v].map
  <2>1. CASE subs' = subs
    BY <2>1 DEF FeedInv, FeedTypes
  <2>2. CASE u \in DOMAIN subs /\ subs' = [subs EXCEPT ![u].due = FALSE]
    <3>1. SubsOK(subs) /\ IsSub(subs[u])
      BY <2>2 DEF FeedInv, FeedTypes, SubsOK
    <3>2. PICK c, m, d : subs[u] = [callback |-> c, map |-> m, due |-> d]
      BY <3>1 DEF IsSub
    <3>3. /\ DOMAIN subs' = DOMAIN subs /\ \A v \in DOMAIN subs : v # u => subs'[v] = subs[v]
          /\ subs'[u] = [callback |-> c, map |-> m, due |-> FALSE] /\ subs[u].map = m
      <4> DEFINE new == [subs[u] EXCEPT !.due = FALSE]
      <4>1. new = [[callback |-> c, map |-> m, due |-> d] EXCEPT !.due = FALSE]
        BY <3>2, Zenon
      <4>2. subs' = [subs EXCEPT ![u] = new]
        BY <2>2
      <4> HIDE DEF new
      <4>3. new = [callback |-> c, map |-> m, due |-> FALSE]
        BY <4>1
      <4>4. subs[u].map = m
        BY <3>2
      <4> QED BY <2>2, <4>2, <4>3, <4>4
    <3>4. IsSub(subs'[u]) /\ subs'[u].map = subs[u].map
      BY <3>3 DEF IsSub
    <3> QED BY <3>1, <3>3, <3>4 DEF SubsOK
  <2> QED BY <1>1, <2>1, <2>2
<1>4. FeedTypes'
  BY <1>1, <1>2, <1>3 DEF FeedInv, FeedTypes, CandlesOK, ChainsOK
<1>5. \A v \in Uids : Quiet(v)
  BY <1>1, <1>2, <1>3 DEF Quiet
<1> QED BY <1>1, <1>4, <1>5, QuietKeeps

\* The chart is mounted: a scan begins, unless there is a handle.
LEMMA SubscribeKeeps ==
  ASSUME FeedInv, NEW u \in Uids, Subscribe(u)
  PROVE  FeedInv'
<1> DEFINE new == [SubscriberAt(u) EXCEPT !.callback = TRUE]
<1>1. /\ lib' = [lib EXCEPT ![u] = "on"] /\ subs' = With(u, new) /\ Start(subs')
      /\ candles' = candles /\ bars' = bars /\ pulse' = pulse
  BY DEF Subscribe
<1>2. IsSub(new) /\ new.map = SubscriberAt(u).map
  <2>1. IsSub(SubscriberAt(u))
    BY DEF FeedInv, FeedTypes, SubsOK, SubscriberAt, NewSub, IsSub
  <2>2. PICK c, m, d : SubscriberAt(u) = [callback |-> c, map |-> m, due |-> d]
    BY <2>1 DEF IsSub
  <2>3. new = [[callback |-> c, map |-> m, due |-> d] EXCEPT !.callback = TRUE]
    BY <2>2, Zenon
  <2>4. SubscriberAt(u).map = m
    BY <2>2
  <2> HIDE DEF new
  <2>5. new = [callback |-> TRUE, map |-> m, due |-> d]
    BY <2>3
  <2> QED BY <2>4, <2>5 DEF IsSub
<1>3. \/ u \in DOMAIN subs /\ new.map = subs[u].map
      \/ DOMAIN new.map = {}
  BY <1>2 DEF SubscriberAt, NewSub, None
<1> HIDE DEF new
<1>4. /\ DOMAIN subs' = {u} \cup DOMAIN subs /\ subs'[u] = new
      /\ \A v \in DOMAIN subs : v # u => subs'[v] = subs[v]
  BY <1>1 DEF With, Over
<1>5. SubsOK(subs')
  BY <1>2, <1>4 DEF FeedInv, FeedTypes, SubsOK
<1>6. \A v \in DOMAIN subs' : \/ v \in DOMAIN subs /\ subs'[v].map = subs[v].map
                              \/ DOMAIN subs'[v].map = {}
  BY <1>3, <1>4
<1>7. CASE pulse # 0
  <2>1. chains' = chains /\ raced' = raced
    BY <1>1, <1>7 DEF Start
  <2>2. FeedTypes'
    BY <1>1, <1>5, <2>1 DEF FeedInv, FeedTypes, CandlesOK, BarsOK, ChainsOK
  <2>3. \A v \in Uids : Quiet(v)
    BY <1>1, <1>6, <2>1 DEF Quiet
  <2> QED BY <2>1, <2>2, <2>3, QuietKeeps
<1>8. CASE pulse = 0
  <2>1. PICK k \in DOMAIN chains :
           /\ chains[k] = Stopped /\ chains' = [chains EXCEPT ![k] = ScanOf(subs')]
           /\ raced' = raced \cup {v \in DOMAIN subs' : UnderWay(v)}
    BY <1>1, <1>8 DEF Start
  <2>2. k \in 1 .. MaxChains /\ DOMAIN chains[k].calls = {}
    BY <2>1 DEF FeedInv, FeedTypes, ChainsOK, Stopped, None
  <2>3. ChainsOK'
    <3>1. IsChain(ScanOf(subs'))
      BY <1>5 DEF ScanOf, IsChain, SubsOK
    <3> QED BY <2>1, <2>2, <3>1 DEF FeedInv, FeedTypes, ChainsOK
  <2>4. FeedTypes'
    BY <1>1, <1>5, <2>3 DEF FeedInv, FeedTypes, CandlesOK, BarsOK
  <2>5. ASSUME NEW v \in Uids \ raced' PROVE CacheKnown(v)'
    <3>1. FeedTypes /\ CacheKnown(v) /\ v \notin raced'
      BY <2>1 DEF FeedInv
    <3> QED BY <1>1, <1>6, <2>1, <2>2, <3>1, ScanKnown
  <2> QED BY <2>4, <2>5 DEF FeedInv
<1> QED BY <1>7, <1>8

\* The timer of a chain fires.
LEMMA PulseKeeps ==
  ASSUME FeedInv, NEW k \in 1 .. MaxChains, Pulse(k)
  PROVE  FeedInv'
<1>1. UNCHANGED <<candles, lib, bars, subs>> /\ chains[k].at = "timer"
  BY DEF Pulse
<1>2. DOMAIN chains[k].calls = {} /\ k \in DOMAIN chains
  BY <1>1 DEF FeedInv, FeedTypes, ChainsOK, IsChain
<1>3. CASE subs = None
  <2>1. pulse' = k /\ chains' = chains /\ raced' = raced
    BY <1>3 DEF Pulse
  <2>2. FeedTypes'
    BY <1>1, <2>1 DEF FeedInv, FeedTypes, CandlesOK, BarsOK, ChainsOK
  <2>3. \A v \in Uids : Quiet(v)
    BY <1>1, <2>1 DEF Quiet
  <2> QED BY <2>1, <2>2, <2>3, QuietKeeps
<1>4. CASE subs # None
  <2>1. /\ chains' = [chains EXCEPT ![k] = ScanOf(subs')] /\ pulse' = pulse
        /\ raced' = raced \cup {v \in DOMAIN subs' : UnderWay(v)}
    BY <1>1, <1>4 DEF Pulse
  <2>2. ChainsOK'
    <3>1. IsChain(ScanOf(subs'))
      BY <1>1 DEF FeedInv, FeedTypes, ScanOf, IsChain, SubsOK
    <3> QED BY <2>1, <3>1 DEF FeedInv, FeedTypes, ChainsOK
  <2>3. FeedTypes'
    BY <1>1, <2>1, <2>2 DEF FeedInv, FeedTypes, CandlesOK, BarsOK
  <2>4. ASSUME NEW v \in Uids \ raced' PROVE CacheKnown(v)'
    <3>1. FeedTypes /\ CacheKnown(v) /\ v \notin raced'
      BY <2>1 DEF FeedInv
    <3> QED BY <1>1, <1>2, <2>1, <3>1, ScanKnown
  <2> QED BY <2>3, <2>4 DEF FeedInv
<1> QED BY <1>3, <1>4

\* The chart is removed, and with the last subscriber the timer.
LEMMA UnsubscribeKeeps ==
  ASSUME FeedInv, NEW u \in Uids, Unsubscribe(u)
  PROVE  FeedInv'
<1>1. /\ lib' = [lib EXCEPT ![u] = "idle"]
      /\ subs' = [v \in DOMAIN subs \ {u} |-> subs[v]]
      /\ candles' = candles /\ bars' = bars /\ raced' = raced
      /\ Stop \/ (chains' = chains /\ pulse' = pulse)
  BY DEF Unsubscribe
<1>2. SubsOK(subs') /\ \A v \in DOMAIN subs' : v \in DOMAIN subs /\ subs'[v] = subs[v]
  BY <1>1 DEF FeedInv, FeedTypes, SubsOK
<1>3. /\ pulse' \in 0 .. MaxChains /\ ChainsOK'
      /\ DOMAIN chains' = DOMAIN chains
      /\ \A k \in DOMAIN chains : chains'[k] = chains[k] \/ DOMAIN chains'[k].calls = {}
  <2>1. CASE chains' = chains /\ pulse' = pulse
    BY <2>1 DEF FeedInv, FeedTypes, ChainsOK
  <2>2. CASE Stop
    <3>1. pulse' = 0 /\ 0 \in 0 .. MaxChains
      BY <2>2, FeedAssumption DEF Stop
    <3>2. chains' = chains \/ chains' = [chains EXCEPT ![pulse] = Stopped]
      BY <2>2 DEF Stop
    <3>3. IsChain(Stopped) /\ DOMAIN Stopped.calls = {}
      BY DEF IsChain, Stopped, None
    <3> HIDE DEF Stopped
    <3> QED BY <3>1, <3>2, <3>3 DEF FeedInv, FeedTypes, ChainsOK
  <2> QED BY <1>1, <2>1, <2>2
<1>4. FeedTypes'
  BY <1>1, <1>2, <1>3 DEF FeedInv, FeedTypes, CandlesOK, BarsOK
<1>5. \A v \in Uids : Quiet(v)
  BY <1>1, <1>2, <1>3 DEF Quiet
<1> QED BY <1>1, <1>4, <1>5, QuietKeeps

\* There is nothing yet.
LEMMA FeedStarts == FeedInit => FeedInv
<1> SUFFICES ASSUME FeedInit PROVE FeedInv
  OBVIOUS
<1>1. /\ candles = [u \in Uids |-> <<>>] /\ bars = [u \in Uids |-> None]
      /\ lib = [u \in Uids |-> "idle"] /\ DOMAIN subs = {} /\ pulse = 0
      /\ chains = [k \in 1 .. MaxChains |-> Stopped]
  BY DEF FeedInit, None
<1>2. MaxChains \in Nat /\ MaxCandles \in Nat /\ MaxTrades \in Nat
  BY FeedAssumption
<1>3. CandlesOK
  <2>1. SumFunction(<<>>) = 0
    BY SumEmpty DEF SumFunction
  <2> QED BY <1>1, <1>2, <2>1 DEF CandlesOK
<1>4. ChainsOK /\ \A k \in 1 .. MaxChains : DOMAIN chains[k].calls = {}
  <2>1. IsChain(Stopped) /\ DOMAIN Stopped.calls = {}
    BY DEF IsChain, Stopped, None
  <2> QED BY <1>1, <2>1 DEF ChainsOK
<1>5. FeedTypes
  BY <1>1, <1>2, <1>3, <1>4 DEF FeedTypes, BarsOK, SubsOK
<1>6. ASSUME NEW u \in Uids PROVE CacheKnown(u)
  <2>1. bars[u] = None /\ DOMAIN chains = 1 .. MaxChains
    BY <1>1
  <2> QED BY <1>1, <1>4, <2>1 DEF CacheKnown, OneCall
<1> QED BY <1>5, <1>6 DEF FeedInv

\* Every step keeps the invariant.
LEMMA FeedKeeps == FeedInv /\ [FeedNext]_feedVars => FeedInv'
<1> SUFFICES ASSUME FeedInv, [FeedNext]_feedVars PROVE FeedInv'
  OBVIOUS
<1>1. ASSUME NEW u \in Uids, Trade(u) PROVE FeedInv'
  BY <1>1, TradeKeeps
<1>2. ASSUME NEW u \in Uids, GetBars(u) PROVE FeedInv'
  BY <1>2, GetBarsKeeps
<1>3. ASSUME NEW u \in Uids, BarsSettled(u) PROVE FeedInv'
  BY <1>3, BarsSettledKeeps
<1>4. ASSUME NEW u \in Uids, BarsFailed(u) \/ LoseInterest(u) \/ Updates(u) PROVE FeedInv'
  BY <1>4, IdleKeeps
<1>5. ASSUME NEW u \in Uids, Subscribe(u) PROVE FeedInv'
  BY <1>5, SubscribeKeeps
<1>6. ASSUME NEW u \in Uids, Unsubscribe(u) PROVE FeedInv'
  BY <1>6, UnsubscribeKeeps
<1>7. ASSUME NEW k \in 1 .. MaxChains, Pulse(k) PROVE FeedInv'
  BY <1>7, PulseKeeps
<1>8. ASSUME NEW k \in 1 .. MaxChains, NEW u \in DOMAIN chains[k].calls, ScanSettled(k, u)
      PROVE  FeedInv'
  BY <1>8, ScanSettledKeeps
<1>9. ASSUME NEW k \in 1 .. MaxChains, NEW u \in DOMAIN chains[k].calls, ScanFailed(k, u)
      PROVE  FeedInv'
  BY <1>9, ScanFailedKeeps
<1>10. CASE UNCHANGED feedVars
  BY <1>10 DEF feedVars, FeedInv, FeedTypes, CandlesOK, BarsOK, ChainsOK, CacheKnown, OneCall
<1> QED BY <1>1, <1>2, <1>3, <1>4, <1>5, <1>6, <1>7, <1>8, <1>9, <1>10 DEF FeedNext, Scans

\* The candles that are kept are consistent.
LEMMA CachesAreConsistent == FeedInv => FeedIsConsistent
<1> SUFFICES ASSUME FeedInv PROVE FeedIsConsistent
  OBVIOUS
<1>1. FeedTypeOK
  <2>1. ASSUME NEW u \in Uids PROVE candles[u] \in BoundedSeq(1 .. MaxTrades, MaxCandles)
    <3> DEFINE c == candles[u]
    <3>1. /\ c \in Seq(Nat \ {0}) /\ Len(c) <= MaxCandles /\ SumFunction(c) <= MaxTrades
          /\ MaxTrades \in Nat /\ MaxCandles \in Nat
      BY FeedAssumption DEF FeedInv, FeedTypes, CandlesOK
    <3> HIDE DEF c
    <3>2. /\ Len(c) \in Nat /\ DOMAIN c = 1 .. Len(c) /\ c = [t \in 1 .. Len(c) |-> c[t]]
          /\ \A t \in 1 .. Len(c) : c[t] \in Nat \ {0}
      BY <3>1
    <3>3. IsFiniteSet(1 .. Len(c))
      <4>1. 1 \in Int /\ Len(c) \in Int
        BY <3>2
      <4> QED BY <4>1, FS_Interval, Zenon
    <3>4. \A t \in 1 .. Len(c) : c[t] <= SumFunctionOnSet(c, 1 .. Len(c))
      BY <3>2, <3>3, SumNat
    <3>5. SumFunctionOnSet(c, 1 .. Len(c)) \in Nat /\ SumFunctionOnSet(c, 1 .. Len(c)) <= MaxTrades
      BY <3>1, <3>2, <3>3, SumNat DEF SumFunction
    <3>6. c \in [1 .. Len(c) -> 1 .. MaxTrades] /\ Len(c) \in 0 .. MaxCandles
      BY <3>1, <3>2, <3>4, <3>5
    <3> QED BY <3>6 DEF BoundedSeq, SeqOf, c
  <2> QED BY <2>1 DEF FeedTypeOK, FeedInv, FeedTypes, SubsOK, ChainsOK, IsChain
<1>2. ASSUME NEW u \in DOMAIN subs \ raced
      PROVE  LET map == subs[u].map
             IN  /\ \A t \in DOMAIN map : t < Newest(map) => map[t] = candles[u][t]
                 /\ \A k \in DOMAIN chains : u \in DOMAIN chains[k].calls =>
                      LET answer == chains[k].calls[u]
                      IN  /\ answer # None => Newest(answer) >= Newest(map)
                          /\ \A t \in DOMAIN answer \cap DOMAIN map : answer[t] >= map[t]
  <2> DEFINE map == subs[u].map
             n == Len(candles[u])
  <2>1. u \in Uids /\ n \in Nat /\ CacheKnown(u)
    BY <1>2 DEF FeedInv, FeedTypes, SubsOK, CandlesOK
  <2>2. IsCache(candles[u], map) /\ DOMAIN map \subseteq 1 .. n
    BY <2>1 DEF CacheKnown, IsCache
  <2>3. ASSUME NEW k \in DOMAIN chains, u \in DOMAIN chains[k].calls, NEW answer,
               answer = chains[k].calls[u]
        PROVE  /\ Newest(answer) >= Newest(map)
               /\ \A t \in DOMAIN answer \cap DOMAIN map : answer[t] >= map[t]
    <3>1. IsCache(candles[u], answer) /\ Follows(answer, map) /\ DOMAIN answer \subseteq 1 .. n
      BY <2>1, <2>3 DEF CacheKnown, AnswerKnown, IsCache
    <3> HIDE DEF map, n
    <3>2. /\ Newest(answer) \in 0 .. n /\ \A t \in DOMAIN answer : t <= Newest(answer)
          /\ Newest(map) \in 0 .. n /\ (DOMAIN map = {} => Newest(map) = 0)
      BY <2>1, <2>2, <3>1, NewestIs
    <3>3. Newest(map) <= Newest(answer)
      <4>1. CASE DOMAIN map = {}
        BY <2>1, <3>2, <4>1
      <4>2. CASE DOMAIN map # {}
        <5>1. Newest(map) \in DOMAIN answer
          BY <3>1, <4>2 DEF Follows
        <5> QED BY <3>2, <5>1
      <4> QED BY <4>1, <4>2
    <3> QED BY <2>1, <3>1, <3>2, <3>3 DEF Follows
  <2>4. \A t \in DOMAIN map : t < Newest(map) => map[t] = candles[u][t]
    BY <2>2 DEF IsCache
  <2> QED BY <2>3, <2>4
<1> QED BY <1>1, <1>2 DEF FeedIsConsistent

(* For any number of symbols, candles, trades and chains of timers, the    *)
(* cache of a symbol stays the node's candles, final but for the newest,   *)
(* and no answer under way is older, until two calls for the symbol are    *)
(* under way at once: FeedIsConsistent.                                    *)
THEOREM FeedStaysConsistent == FeedSpec => []FeedIsConsistent
<1>1. FeedSpec => []FeedInv
  BY FeedStarts, FeedKeeps, PTL DEF FeedSpec
<1> QED BY <1>1, CachesAreConsistent, PTL
============================================================================

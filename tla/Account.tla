------------------------------ MODULE Account ------------------------------
(***************************************************************************)
(* The account as the web interface shows it: the orders and the balances  *)
(* of the store, fed by two pollers of the sync middleware and by the      *)
(* page History, which asks for the orders once more when it is mounted.   *)
(* Answers overtake each other; a call may be lost; the session may end    *)
(* and come back (module Session says when).                               *)
(*                                                                         *)
(* A call is three steps: sent, served by the node, settled in the page.   *)
(***************************************************************************)
EXTENDS Naturals, FiniteSets, Functions

CONSTANTS
    Denoms,       \* the coins of the chain
    PageSize,     \* orders the node returns in one answer
    MaxOrders,    \* orders the account places
    MaxChanges,   \* other changes of its orders and coins
    MaxAmount,    \* coins of a denomination
    MaxFailures,  \* calls that may be lost, or sessions that may end
    MaxMounts     \* calls of History that are under way at once

ASSUME AccountAssumption ==
    /\ PageSize \in Nat \ {0}
    /\ {MaxOrders, MaxChanges, MaxAmount, MaxFailures, MaxMounts} \subseteq Nat

VARIABLES
    valid,      \* the node answers this browser's calls
    placed,     \* id -> status of the orders of the account
    coins,      \* denomination -> amount the account has
    changes,    \* changes so far
    failures,   \* losses so far
    poll,       \* the two pollers: what they are doing and the answer they hold
    mounts,     \* the calls of History
    orders,     \* exchange.orders: id -> order
    listed,     \* user.orders: the ids
    balances    \* user.balances: denomination -> amount, once it was seen

chainVars == <<valid, placed, coins, changes>>
storeVars == <<orders, listed, balances>>
accountVars == <<valid, placed, coins, changes, failures, poll, mounts, orders, listed, balances>>

Private == {"orders", "balances"}
Ids == 1..MaxOrders
Amounts == 0..MaxAmount
Calls == 1..MaxMounts

-----------------------------------------------------------------------------
(* What the node answers.                                                  *)

\* queryList: the newest orders of the owner, one page of them.
NewestOrders(S) == {i \in S : Cardinality({j \in S : j > i}) < PageSize}

OrdersAnswer == Restrict(placed, NewestOrders(DOMAIN placed))

\* sdk.Coins carries no zero amounts.
BalancesAnswer == Restrict(coins, {d \in Denoms : coins[d] > 0})

Nothing == [i \in {} |-> 0]
At(step) == [at |-> step, answer |-> Nothing]

Served(k) ==
    IF ~ valid THEN At("failed")
    ELSE [at |-> "ok", answer |-> IF k = "orders" THEN OrdersAnswer ELSE BalancesAnswer]

-----------------------------------------------------------------------------
(* The reducers.                                                           *)

\* Mutant: the list is extended.
ListGrows(answer) ==
    /\ orders' = answer
    /\ listed' = listed \cup DOMAIN answer
    /\ UNCHANGED balances

\* addOrders replaces the map, addUserOrders the list, one after the other
\* with no other step between.
HandleAddOrders(answer) ==
    /\ orders' = answer
    /\ listed' = DOMAIN answer
    /\ UNCHANGED balances

\* One setBalance for each coin of the answer: the others stay.
HandleSetBalance(answer) ==
    /\ balances' = [d \in DOMAIN balances \cup DOMAIN answer |->
                      IF d \in DOMAIN answer THEN answer[d] ELSE balances[d]]
    /\ UNCHANGED <<orders, listed>>

\* A refused or lost call ends in the catch and the store stays as it is.
Settle(k, r) ==
    IF r.at = "failed" THEN UNCHANGED storeVars
    ELSE IF k = "orders" THEN HandleAddOrders(r.answer) ELSE HandleSetBalance(r.answer)

-----------------------------------------------------------------------------
(* The pollers and the page.                                               *)

AccountInit ==
    /\ valid = TRUE
    /\ placed = Nothing
    /\ coins = [d \in Denoms |-> MaxAmount]
    /\ changes = 0
    /\ failures = 0
    /\ poll = [k \in Private |-> At("off")]
    /\ mounts = [c \in Calls |-> At("off")]
    /\ orders = Nothing
    /\ listed = {}
    /\ balances = Nothing

\* '%INIT': handleOrderHistory and handleBalance set the first timers, unless
\* their handles are set already.
Enter ==
    /\ poll' = [k \in Private |-> IF poll[k].at = "off" THEN At("timer") ELSE poll[k]]
    /\ UNCHANGED <<chainVars, failures, mounts, storeVars>>

Send(k) ==
    /\ poll[k].at = "timer"
    /\ poll' = [poll EXCEPT ![k] = At("sent")]
    /\ UNCHANGED <<chainVars, failures, mounts, storeVars>>

Serve(k) ==
    /\ poll[k].at = "sent"
    /\ poll' = [poll EXCEPT ![k] = Served(k)]
    /\ UNCHANGED <<chainVars, failures, mounts, storeVars>>

Lose(k) ==
    /\ poll[k].at = "sent"
    /\ failures < MaxFailures
    /\ failures' = failures + 1
    /\ poll' = [poll EXCEPT ![k] = At("failed")]
    /\ UNCHANGED <<chainVars, mounts, storeVars>>

\* Mutant: no timer after a call that failed.
AnsweredOrDead(k) ==
    /\ poll[k].at \in {"ok", "failed"}
    /\ Settle(k, poll[k])
    /\ poll' = [poll EXCEPT ![k] = At(IF poll[k].at = "ok" THEN "timer" ELSE "dead")]
    /\ UNCHANGED <<chainVars, failures, mounts>>

\* The next timer is set whatever became of the call.
Answered(k) ==
    /\ poll[k].at \in {"ok", "failed"}
    /\ Settle(k, poll[k])
    /\ poll' = [poll EXCEPT ![k] = At("timer")]
    /\ UNCHANGED <<chainVars, failures, mounts>>

\* componentWillMount of History.
Mount(c) ==
    /\ mounts[c].at = "off"
    /\ mounts' = [mounts EXCEPT ![c] = At("sent")]
    /\ UNCHANGED <<chainVars, failures, poll, storeVars>>

MountServed(c) ==
    /\ mounts[c].at = "sent"
    /\ mounts' = [mounts EXCEPT ![c] = Served("orders")]
    /\ UNCHANGED <<chainVars, failures, poll, storeVars>>

MountAnswered(c) ==
    /\ mounts[c].at \in {"ok", "failed"}
    /\ Settle("orders", mounts[c])
    /\ mounts' = [mounts EXCEPT ![c] = At("off")]
    /\ UNCHANGED <<chainVars, failures, poll>>

-----------------------------------------------------------------------------
(* The chain and the node.                                                 *)

Place ==
    /\ Cardinality(DOMAIN placed) < MaxOrders
    /\ placed' = [i \in 1..(Cardinality(DOMAIN placed) + 1) |->
                    IF i \in DOMAIN placed THEN placed[i] ELSE "OPEN"]
    /\ UNCHANGED <<valid, coins, changes, failures, poll, mounts, storeVars>>

Close(i) ==
    /\ placed[i] = "OPEN"
    /\ changes < MaxChanges
    /\ changes' = changes + 1
    /\ placed' = [placed EXCEPT ![i] = "FILLED"]
    /\ UNCHANGED <<valid, coins, failures, poll, mounts, storeVars>>

Transfer(d, n) ==
    /\ changes < MaxChanges
    /\ coins[d] # n
    /\ changes' = changes + 1
    /\ coins' = [coins EXCEPT ![d] = n]
    /\ UNCHANGED <<valid, placed, failures, poll, mounts, storeVars>>

SessionEnds ==
    /\ valid
    /\ failures < MaxFailures
    /\ failures' = failures + 1
    /\ valid' = FALSE
    /\ UNCHANGED <<placed, coins, changes, poll, mounts, storeVars>>

SessionReturns ==
    /\ ~ valid
    /\ valid' = TRUE
    /\ UNCHANGED <<placed, coins, changes, failures, poll, mounts, storeVars>>

Poller(k) == Send(k) \/ Serve(k) \/ Answered(k)
History(c) == MountServed(c) \/ MountAnswered(c)

AccountNext ==
    \/ Enter
    \/ \E c \in Calls : Mount(c) \/ History(c)
    \/ \E k \in Private : Poller(k) \/ Lose(k)
    \/ Place \/ SessionEnds \/ SessionReturns
    \/ \E i \in DOMAIN placed : Close(i)
    \/ \E d \in Denoms, n \in Amounts : Transfer(d, n)

\* Timers fire and calls are settled; users, the chain and the session are
\* under no obligation.
AccountFairness ==
    /\ \A k \in Private : WF_accountVars(Poller(k))
    /\ \A c \in Calls : WF_accountVars(History(c))

AccountSpec == AccountInit /\ [][AccountNext]_accountVars /\ AccountFairness

-----------------------------------------------------------------------------
(* Properties.                                                             *)

AccountTypeOK ==
    /\ valid \in BOOLEAN
    /\ DOMAIN placed \subseteq Ids /\ DOMAIN orders \subseteq Ids
    /\ coins \in [Denoms -> Amounts]
    /\ DOMAIN balances \subseteq Denoms

Polled == \A k \in Private : poll[k].at # "off"

\* Once the pollers run and the session stands, what the account has is what
\* the page shows, sooner or later and for good: the newest page of its
\* orders with their status, and every coin it has any of.  Answers that are
\* older than what is shown (History's call against the poller's) do not
\* survive.
AccountCatchesUp ==
    <>[](valid /\ Polled) =>
        <>[](/\ orders = OrdersAnswer
             /\ \A d \in Denoms : coins[d] > 0 =>
                   d \in DOMAIN balances /\ balances[d] = coins[d])

\* What History shows was true at some time, however the answers overtake
\* each other: the list and the map name the same orders (History reads the
\* map at every id of the list), each is an order of the account, one shown
\* filled is filled, and no more than a page of them is there.
HistoryIsConsistent ==
    /\ AccountTypeOK
    /\ listed = DOMAIN orders
    /\ listed \subseteq DOMAIN placed
    /\ \A i \in listed : orders[i] = "FILLED" => placed[i] = "FILLED"
    /\ Cardinality(listed) <= PageSize

=============================================================================

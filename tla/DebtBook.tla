------------------------------- MODULE DebtBook -------------------------------
(***************************************************************************)
(* What the stable coin system promises about debt, without prices, coins  *)
(* of other kinds, limits, auctions or blocks: stable coin comes into being *)
(* with the debt of somebody, and goes out of being with it.               *)
(***************************************************************************)
EXTENDS Integers

CONSTANT Keys          \* those who may owe

VARIABLES owed,        \* owed[k]: debt of k
          seized,      \* debt seized and not yet settled
          coin         \* stable coin in circulation

bookVars == <<owed, seized, coin>>

BookInit ==
  /\ owed = [k \in Keys |-> 0]
  /\ seized = 0
  /\ coin = 0

\* Draw or repay: the coin in circulation and the debt of k change alike.
Change(k) ==
  /\ coin' # coin
  /\ owed' = [owed EXCEPT ![k] = @ + (coin' - coin)]
  /\ UNCHANGED seized

\* Seize: part of the debt of k becomes nobody's.
Seize(k) ==
  /\ seized' > seized
  /\ owed' = [owed EXCEPT ![k] = @ - (seized' - seized)]
  /\ UNCHANGED coin

\* Settle: seized debt is annihilated with coin.
Annihilate ==
  /\ seized' < seized
  /\ coin' = coin - (seized - seized')
  /\ UNCHANGED owed

\* Nobody's debt, nor the seized debt, is ever negative.
NonNegative == seized' >= 0 /\ \A k \in Keys : owed'[k] >= 0

BookNext == /\ NonNegative
            /\ \/ \E k \in Keys : Change(k) \/ Seize(k)
               \/ Annihilate

BookSpec == BookInit /\ [][BookNext]_bookVars
=============================================================================

----------------------------- MODULE Liquidator -----------------------------
(***************************************************************************)
(* x/liquidator, and with it the whole stable coin system: the liquidator  *)
(* keeper calls the csdt keeper and the auction keeper, and the three      *)
(* modules share the ledger.                                               *)
(*                                                                         *)
(* A step is one message, or one step of the end of a block.  A message    *)
(* whose handler fails is rolled back, and is no step.                     *)
(***************************************************************************)
EXTENDS Csdt, Auction, Dec

CONSTANTS AuctionSize,      \* AuctionSize[d] of the liquidator's collateral params
          DebtAuctionSize,  \* params.DebtAuctionSize
          OracleMoves       \* TRUE: the oracle may change prices at the end of a block

VARIABLE seizedDebt         \* [Total, SentToAuction]

vars == <<bankVars, csdtVars, price, auctionVars, seizedDebt>>

ASSUME LiquidatorAssumption ==
  /\ DOMAIN AuctionSize \subseteq Collaterals
  /\ AuctionSize \in [DOMAIN AuctionSize -> Nat]
  /\ DebtAuctionSize \in Nat \ {0}
  /\ OracleMoves \in BOOLEAN

\* sdk.NewInt64Coin(GovDenom, 2^255-1): ^ is exclusive or in Go, and binds
\* like -, so the literal is (2 XOR 255) - 1.
MintedGov == 252

LiquidatorTypeOK == seizedDebt \in [Total : Nat, SentToAuction : Nat]

TypeOK == BankTypeOK /\ CsdtTypeOK /\ AuctionTypeOK /\ LiquidatorTypeOK

\* Genesis: the chain starts without stable coin, users hold collateral.
GenesisBalance ==
  [ad \in Accounts \X Denoms |->
     IF ad[1] \in Users /\ ad[2] \in Collaterals THEN Endowment ELSE 0]

Init ==
  /\ balance = GenesisBalance
  /\ supply = [d \in Denoms |-> IF d \in Collaterals THEN Endowment * Cardinality(Users) ELSE 0]
  /\ CsdtInit
  /\ AuctionInit
  /\ seizedDebt = [Total |-> 0, SentToAuction |-> 0]

-----------------------------------------------------------------------------

\* collateralToSell and stableToRaise of SeizeAndStartCollateralAuction.
CollateralToSell(o, d) == SmallerOf(collateral[<<o, d>>], AuctionSize[d])
StableToRaise(o, d) ==
  RoundInt(QuoInts(CollateralToSell(o, d), collateral[<<o, d>>]) * debt[<<o, d>>])

\* MsgSeizeAndStartCollateralAuction: seize part of an undercollateralised
\* CSDT, move its collateral to the liquidator and auction it.
SeizeAndStartCollateralAuction(o, d) ==
  /\ HasCsdt(o, d)
  /\ d \in DOMAIN AuctionSize
  /\ collateral[<<o, d>>] # 0           \* Quo panics on a zero divisor
  /\ LET lot == Coin(d, CollateralToSell(o, d))
         b   == Send(balance, CsdtModule, LiquidatorModule, lot)
     IN  /\ PartialSeizeCSDT(o, d, lot.amount, StableToRaise(o, d))
         /\ seizedDebt' = [seizedDebt EXCEPT !.Total = @ + StableToRaise(o, d)]
         /\ CanSend(balance, CsdtModule, lot)
         /\ StartForwardReverseAuction(b, LiquidatorModule, lot,
                                       Coin(StableDenom, StableToRaise(o, d)), o)
  /\ UNCHANGED <<supply, globalDebt, collateralParams, price>>

\* Mutant: debt already sent to auction is available again.
AvailableIsTotal(sd) == sd.Total

Available(sd) == sd.Total - sd.SentToAuction

Settle(sd, amount) ==
  [Total         |-> sd.Total - amount,
   SentToAuction |-> IF sd.SentToAuction > amount THEN sd.SentToAuction - amount ELSE 0]

SettleAmount == SmallerOf(seizedDebt.Total, balance[<<LiquidatorModule, StableDenom>>])

\* MsgStartDebtAuction: SettleDebt annihilates as much seized debt and stable
\* coin as the liquidator has, then StartDebtAuction auctions minted
\* governance coin for stable coin.  An error of the latter undoes both.
\* SettleDebt cannot fail unless the amount exceeds the global debt; its
\* error is ignored.
StartDebtAuction ==
  LET amount  == SettleAmount
      settles == amount <= globalDebt
      sd      == IF settles THEN Settle(seizedDebt, amount) ELSE seizedDebt
      burned  == Coin(StableDenom, IF settles THEN amount ELSE 0)
      minted  == Coin(GovDenom, MintedGov)
      b       == Mint(Burn(balance, LiquidatorModule, burned), LiquidatorModule, minted)
  IN  /\ balance[<<LiquidatorModule, StableDenom>>] = burned.amount
      /\ Available(sd) >= DebtAuctionSize
      /\ IF settles THEN ReduceGlobalDebt(amount) ELSE UNCHANGED globalDebt
      /\ supply' = [supply EXCEPT ![StableDenom] = @ - burned.amount,
                                  ![GovDenom] = @ + MintedGov]
      /\ StartReverseAuction(b, LiquidatorModule, Coin(StableDenom, DebtAuctionSize), minted)
      /\ seizedDebt' = [sd EXCEPT !.SentToAuction = @ + DebtAuctionSize]
      /\ UNCHANGED <<collateral, debt, collateralState, collateralParams, price>>

-----------------------------------------------------------------------------

\* The EndBlockers in the order of app.go: the oracle sets the current
\* prices, then the auction module closes what is due.
OracleEndBlock ==
  /\ BeginEndBlock
  /\ IF OracleMoves THEN price' \in [Collaterals -> Prices] ELSE UNCHANGED price
  /\ UNCHANGED <<bankVars, csdtVars, seizedDebt>>

CloseDueAuction == EndBlockerStep /\ UNCHANGED <<csdtVars, price, seizedDebt>>
Commit          == NextBlock /\ UNCHANGED <<csdtVars, price, seizedDebt>>

CsdtStep == mode = "deliver" /\ CsdtMsg /\ UNCHANGED <<auctionVars, seizedDebt>>
BidStep  == HandleMsgPlaceBid /\ UNCHANGED <<csdtVars, price, seizedDebt>>

SeizeStep == \E o \in Users, d \in Collaterals : SeizeAndStartCollateralAuction(o, d)

EndOfBlock == OracleEndBlock \/ CloseDueAuction \/ Commit

Next == CsdtStep \/ BidStep \/ SeizeStep \/ StartDebtAuction \/ EndOfBlock

Spec == Init /\ [][Next]_vars

\* Blocks keep coming; no user is obliged to send anything.
FairSpec == Spec /\ WF_vars(EndOfBlock)
-----------------------------------------------------------------------------
(***************************************************************************)
(* Properties.                                                             *)
(***************************************************************************)

\* The global debt counter is the debt of all CSDTs plus the debt seized from
\* them and not yet settled: seizing moves debt from a CSDT to the liquidator
\* without touching the counter, settling takes it out of both.
GlobalDebtAccounted == globalDebt = SumFunction(debt) + seizedDebt.Total

\* The per-collateral counter, against which the debt limit is enforced, is
\* the debt of the CSDTs of that collateral, through drawing, repaying and
\* seizing.
CollateralDebtAccounted ==
  \A d \in Collaterals :
    TotalDebt(d) = SumFunctionOnSet(debt, Users \X {d})

\* The csdt module account holds exactly the collateral recorded in the CSDTs,
\* so the panics of ModifyCSDT's and PartialSeizeCSDT's transfers are never
\* reached.
CollateralBacked ==
  \A d \in Collaterals :
    balance[<<CsdtModule, d>>] = SumFunctionOnSet(collateral, Users \X {d})

\* Stable coin exists exactly as far as there is debt for it: drawing and
\* repaying, seizing, auctioning and settling keep the supply of stable coin
\* and the global debt equal.
StableCoinIsDebt == supply[StableDenom] = globalDebt

\* No coin appears or disappears outside the supply keeper: the balances of
\* all accounts add up to the recorded supply, whatever bids are placed.
CoinsConserved ==
  \A d \in Denoms : SumFunctionOnSet(balance, Accounts \X {d}) = supply[d]

\* The amount of debt sent to auction never exceeds the seized debt, though
\* settling takes the same amount from both.
SentWithinTotal == seizedDebt.SentToAuction <= seizedDebt.Total

\* The books of the three modules agree in every state, whatever is drawn,
\* seized, bid, settled and closed in whatever order: counters with CSDTs, module
\* accounts with what they hold for others, coins with their supply, and debt
\* sent to auction with debt seized.
BooksAgree ==
  /\ GlobalDebtAccounted
  /\ CollateralDebtAccounted
  /\ CollateralBacked
  /\ CoinsConserved
  /\ LotsEscrowed
  /\ SentWithinTotal

\* No CSDT is left with debt and no collateral, whatever is withdrawn or
\* seized from it; SeizeAndStartCollateralAuction divides by the collateral.
NoDebtWithoutCollateral ==
  \A o \in Users, d \in Collaterals : collateral[<<o, d>>] = 0 => debt[<<o, d>>] = 0

\* A step touches the books of at most one CSDT, and whatever it takes from or
\* adds to them it adds to or takes from the counters: the global debt without
\* the seized part, the debt of the collateral type, and the collateral in the
\* module account move with that CSDT and otherwise stay.  This is the step
\* that keeps GlobalDebtAccounted, CollateralDebtAccounted and CollateralBacked.
BooksMoveWith(o, d) ==
  /\ \A k \in Keys \ {<<o, d>>} : debt'[k] = debt[k] /\ collateral'[k] = collateral[k]
  /\ globalDebt' - seizedDebt'.Total - debt'[<<o, d>>] = globalDebt - seizedDebt.Total - debt[<<o, d>>]
  /\ TotalDebt(d)' - debt'[<<o, d>>] = TotalDebt(d) - debt[<<o, d>>]
  /\ balance'[<<CsdtModule, d>>] - collateral'[<<o, d>>] = balance[<<CsdtModule, d>>] - collateral[<<o, d>>]
  /\ \A e \in Collaterals \ {d} : /\ TotalDebt(e)' = TotalDebt(e)
                                  /\ balance'[<<CsdtModule, e>>] = balance[<<CsdtModule, e>>]

BooksStay ==
  /\ UNCHANGED <<debt, collateral>>
  /\ globalDebt' - seizedDebt'.Total = globalDebt - seizedDebt.Total
  /\ \A e \in Collaterals : /\ TotalDebt(e)' = TotalDebt(e)
                            /\ balance'[<<CsdtModule, e>>] = balance[<<CsdtModule, e>>]

BooksBalance ==
  [][BooksStay \/ \E o \in Users, d \in Collaterals : BooksMoveWith(o, d)]_vars

\* Only its owner takes collateral out of a CSDT that is not undercollateralised:
\* a step that lowers it either pays the owner the difference, or the CSDT was
\* below its liquidation ratio at the current price.
HealthyCsdtIsSafe ==
  [][\A o \in Users, d \in Collaterals :
       collateral'[<<o, d>>] < collateral[<<o, d>>] =>
         \/ balance'[<<o, d>>] - balance[<<o, d>>] = collateral[<<o, d>>] - collateral'[<<o, d>>]
         \/ IsUnderCollateralized(collateral[<<o, d>>], debt[<<o, d>>], price[d],
                                  collateralParams[d].ratio)]_vars

\* An owner who holds the stable coin he owes can always repay and take all the
\* collateral back: neither the counters nor the module account stand in the
\* way after any sequence of seizures, auctions and settlements.  The one
\* exception is a debt limit that a nominee has lowered below what the other
\* owners owe.  (After the checks ModifyCSDT only assigns.)
ExitPossible ==
  \A o \in Users, d \in DOMAIN collateralParams :
    LET owed == debt[<<o, d>>] IN
    /\ HasCsdt(o, d)
    /\ balance[<<o, StableDenom>>] >= owed
    /\ TotalDebt(d) - owed <= collateralParams[d].limit
    => ChangeAllowed(o, d, -collateral[<<o, d>>], -owed)

\* The system implements the debt book: whatever is modified, seized, bid or
\* settled, in whatever order, stable coin is created and destroyed only
\* together with the debt of an owner or with seized debt.
Book == INSTANCE DebtBook WITH owed <- debt, seized <- seizedDebt.Total,
                               coin <- supply[StableDenom], Keys <- Keys

ImplementsDebtBook == Book!BookSpec
=============================================================================

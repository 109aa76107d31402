-------------------------------- MODULE Csdt --------------------------------
(***************************************************************************)
(* x/csdt: collateralised stable debt tokens.  An owner locks collateral   *)
(* in the module account and draws newly minted stable coin against it.    *)
(*                                                                         *)
(* A CSDT is stored under (owner, denomination) exactly when its           *)
(* collateral or its debt is not zero, so the pair of functions            *)
(* collateral / debt, zero where nothing is stored, is the whole store.    *)
(* Prices and liquidation ratios are sdk.Dec in the code; an integer       *)
(* amount times a Dec is exact, so both are integers here, counted in the  *)
(* same fraction of a unit.                                                *)
(***************************************************************************)
EXTENDS Bank

CONSTANTS GlobalDebtLimit,  \* params.GlobalDebtLimit, in stable coin
          Prices,           \* values the oracle may report
          CollateralParams, \* {[ratio, limit]} a nominee may set
          Nominees,         \* params.Nominees
          MaxChange         \* bound: largest collateral or debt change of one message

VARIABLES collateral,       \* collateral[o, d]: csdt.CollateralAmount
          debt,             \* debt[o, d]: csdt.Debt, in stable coin
          globalDebt,       \* store key "globalDebt"
          collateralState,  \* collateralState[d]: TotalDebt, NotFound if not stored
          collateralParams, \* params.CollateralParams, a function on the enabled denominations
          price             \* price[d]: oracle.GetCurrentPrice

csdtVars == <<collateral, debt, globalDebt, collateralState, collateralParams>>

NotFound == -1

ASSUME CsdtAssumption ==
  /\ GlobalDebtLimit \in Nat
  /\ MaxChange \in Nat
  /\ Prices \subseteq Nat
  /\ CollateralParams \subseteq [ratio : Nat \ {0}, limit : Nat]
  /\ Nominees \subseteq Users

Keys == Users \X Collaterals

CsdtTypeOK ==
  /\ collateral \in [Keys -> Nat]
  /\ debt \in [Keys -> Nat]
  /\ globalDebt \in Nat
  /\ collateralState \in [Collaterals -> Nat \cup {NotFound}]
  /\ DOMAIN collateralParams \subseteq Collaterals
  /\ collateralParams \in [DOMAIN collateralParams -> CollateralParams]
  /\ price \in [Collaterals -> Prices]

CsdtInit ==
  /\ collateral = [k \in Keys |-> 0]
  /\ debt = [k \in Keys |-> 0]
  /\ globalDebt = 0
  /\ collateralState = [d \in Collaterals |-> NotFound]
  /\ \E D \in SUBSET Collaterals : collateralParams \in [D -> CollateralParams]
  /\ price \in [Collaterals -> Prices]

-----------------------------------------------------------------------------

IsCollateralPresent(d) == d \in DOMAIN collateralParams

\* GetCSDT: found.
HasCsdt(o, d) == collateral[<<o, d>>] # 0 \/ debt[<<o, d>>] # 0

\* Mutant: a CSDT without collateral passes for a safe one.
EmptyIsSafe(coll, owed, p, ratio) == coll > 0 /\ coll * p < ratio * owed

IsUnderCollateralized(coll, owed, p, ratio) == coll * p < ratio * owed

TotalDebt(d) == IF collateralState[d] = NotFound THEN 0 ELSE collateralState[d]

\* The coins of ModifyCSDT's second phase: collateral first, then stable
\* coin, minted into or burned out of the module account.
ModifiedBalance(o, d, changeInCollateral, changeInDebt) ==
  LET b == IF changeInCollateral < 0
             THEN Send(balance, CsdtModule, o, Coin(d, -changeInCollateral))
             ELSE Send(balance, o, CsdtModule, Coin(d, changeInCollateral))
  IN  IF changeInDebt < 0
        THEN Burn(Send(b, o, CsdtModule, Coin(StableDenom, -changeInDebt)),
                  CsdtModule, Coin(StableDenom, -changeInDebt))
        ELSE Send(Mint(b, CsdtModule, Coin(StableDenom, changeInDebt)),
                  CsdtModule, o, Coin(StableDenom, changeInDebt))

\* Phase 1 of ModifyCSDT, the checks, and the one transfer of phase 2 that may
\* fail: it panics when the module account cannot pay.
ChangeAllowed(o, d, changeInCollateral, changeInDebt) ==
  LET coll == collateral[<<o, d>>] + changeInCollateral
      owed == debt[<<o, d>>] + changeInDebt
  IN  /\ IsCollateralPresent(d)
      /\ changeInCollateral > 0 => CanSend(balance, o, Coin(d, changeInCollateral))
      /\ changeInDebt < 0 => CanSend(balance, o, Coin(StableDenom, -changeInDebt))
      /\ coll >= 0
      /\ owed >= 0
      /\ ~IsUnderCollateralized(coll, owed, price[d], collateralParams[d].ratio)
      /\ globalDebt + changeInDebt \in 0..GlobalDebtLimit
      /\ TotalDebt(d) + changeInDebt \in 0..collateralParams[d].limit
      /\ changeInCollateral < 0 => CanSend(balance, CsdtModule, Coin(d, -changeInCollateral))

\* ModifyCSDT creates, changes or deletes a CSDT.
ModifyCSDT(o, d, changeInCollateral, changeInDebt) ==
  /\ ChangeAllowed(o, d, changeInCollateral, changeInDebt)
  /\ balance' = ModifiedBalance(o, d, changeInCollateral, changeInDebt)
  /\ supply' = SupplyPlus(Coin(StableDenom, changeInDebt), 1)
  /\ collateral' = [collateral EXCEPT ![<<o, d>>] = @ + changeInCollateral]
  /\ debt' = [debt EXCEPT ![<<o, d>>] = @ + changeInDebt]
  /\ globalDebt' = globalDebt + changeInDebt
  /\ collateralState' = [collateralState EXCEPT ![d] = TotalDebt(d) + changeInDebt]
  /\ UNCHANGED <<collateralParams, price>>

\* The message handlers.  ValidateBasic of the four narrow messages demands a
\* positive amount; MsgCreateOrModifyCSDT takes two changes of any sign.
HandleMsgCreateOrModifyCSDT(o, d) ==
  \E dc, dd \in -MaxChange..MaxChange : ModifyCSDT(o, d, dc, dd)
HandleMsgDepositCollateral(o, d)  == \E n \in 1..MaxChange : ModifyCSDT(o, d, n, 0)
HandleMsgWithdrawCollateral(o, d) == \E n \in 1..MaxChange : ModifyCSDT(o, d, -n, 0)
HandleMsgSettleDebt(o, d)         == \E n \in 1..MaxChange : ModifyCSDT(o, d, 0, -n)
HandleMsgWithdrawDebt(o, d)       == \E n \in 1..MaxChange : ModifyCSDT(o, d, 0, n)

\* Mutants of PartialSeizeCSDT: the debt of the collateral type is not updated,
\* is reduced by the whole debt of the CSDT, or anyone may be seized; the debt
\* stays recorded in the CSDT.
SeizeKeepsDebt(o, d, collateralToSeize, debtToSeize) ==
  /\ HasCsdt(o, d) /\ IsCollateralPresent(d)
  /\ IsUnderCollateralized(collateral[<<o, d>>], debt[<<o, d>>], price[d], collateralParams[d].ratio)
  /\ debtToSeize <= debt[<<o, d>>]
  /\ collateral' = [collateral EXCEPT ![<<o, d>>] = @ - collateralToSeize]
  /\ UNCHANGED <<debt, collateralState>>

SeizeKeepsTotalDebt(o, d, collateralToSeize, debtToSeize) ==
  /\ HasCsdt(o, d) /\ IsCollateralPresent(d)
  /\ IsUnderCollateralized(collateral[<<o, d>>], debt[<<o, d>>], price[d], collateralParams[d].ratio)
  /\ debtToSeize <= debt[<<o, d>>]
  /\ collateral' = [collateral EXCEPT ![<<o, d>>] = @ - collateralToSeize]
  /\ debt' = [debt EXCEPT ![<<o, d>>] = @ - debtToSeize]
  /\ UNCHANGED collateralState

SeizeTakesAllTotalDebt(o, d, collateralToSeize, debtToSeize) ==
  /\ HasCsdt(o, d) /\ IsCollateralPresent(d)
  /\ IsUnderCollateralized(collateral[<<o, d>>], debt[<<o, d>>], price[d], collateralParams[d].ratio)
  /\ debtToSeize <= debt[<<o, d>>]
  /\ collateral' = [collateral EXCEPT ![<<o, d>>] = @ - collateralToSeize]
  /\ debt' = [debt EXCEPT ![<<o, d>>] = @ - debtToSeize]
  /\ collateralState' = [collateralState EXCEPT ![d] = @ - debt[<<o, d>>]]

SeizeAnyone(o, d, collateralToSeize, debtToSeize) ==
  /\ HasCsdt(o, d) /\ IsCollateralPresent(d)
  /\ debtToSeize <= debt[<<o, d>>]
  /\ collateral' = [collateral EXCEPT ![<<o, d>>] = @ - collateralToSeize]
  /\ debt' = [debt EXCEPT ![<<o, d>>] = @ - debtToSeize]
  /\ collateralState' = [collateralState EXCEPT ![d] = @ - debtToSeize]

\* PartialSeizeCSDT removes collateral and debt from a CSDT.  It is called by
\* the liquidator, which also moves the coins; global debt is left alone.
PartialSeizeCSDT(o, d, collateralToSeize, debtToSeize) ==
  /\ HasCsdt(o, d)
  /\ IsCollateralPresent(d)       \* GetCollateralParam panics otherwise
  /\ IsUnderCollateralized(collateral[<<o, d>>], debt[<<o, d>>], price[d], collateralParams[d].ratio)
  /\ collateralToSeize \in 0..collateral[<<o, d>>]
  /\ debtToSeize \in 0..debt[<<o, d>>]
  /\ collateralState[d] # NotFound
  /\ collateralState[d] >= debtToSeize
  /\ collateral' = [collateral EXCEPT ![<<o, d>>] = @ - collateralToSeize]
  /\ debt' = [debt EXCEPT ![<<o, d>>] = @ - debtToSeize]
  /\ collateralState' = [collateralState EXCEPT ![d] = @ - debtToSeize]

\* Mutant: settled debt stays in the global counter.
ReduceNothing(amount) == amount \in 0..globalDebt /\ UNCHANGED globalDebt

\* ReduceGlobalDebt is called by the liquidator when it annihilates debt.
ReduceGlobalDebt(amount) ==
  /\ amount \in 0..globalDebt
  /\ globalDebt' = globalDebt - amount

\* Nominees enable a collateral type and change the terms of an enabled one.
AddCollateralParam(nominee, d, p) ==
  /\ nominee \in Nominees
  /\ ~IsCollateralPresent(d)
  /\ collateralParams' = [e \in DOMAIN collateralParams \cup {d} |->
                            IF e = d THEN p ELSE collateralParams[e]]
  /\ UNCHANGED <<bankVars, collateral, debt, globalDebt, collateralState, price>>

SetCollateralParam(nominee, d, p) ==
  /\ nominee \in Nominees
  /\ IsCollateralPresent(d)
  /\ collateralParams' = [collateralParams EXCEPT ![d] = p]
  /\ UNCHANGED <<bankVars, collateral, debt, globalDebt, collateralState, price>>

\* All messages of x/csdt.
CsdtMsg ==
  \/ \E o \in Users, d \in Collaterals :
       \/ HandleMsgCreateOrModifyCSDT(o, d)
       \/ HandleMsgDepositCollateral(o, d)
       \/ HandleMsgWithdrawCollateral(o, d)
       \/ HandleMsgSettleDebt(o, d)
       \/ HandleMsgWithdrawDebt(o, d)
  \/ \E nominee \in Users, d \in Collaterals, p \in CollateralParams :
       \/ AddCollateralParam(nominee, d, p)
       \/ SetCollateralParam(nominee, d, p)
=============================================================================

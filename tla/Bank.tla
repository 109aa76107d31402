-------------------------------- MODULE Bank --------------------------------
(***************************************************************************)
(* The coin ledger that the modules of the chain share: the bank and       *)
(* supply keepers of the Cosmos SDK, reduced to the calls the keepers of   *)
(* this repository make.  They are not part of the repository; they are    *)
(* modelled from their use (external).                                     *)
(*                                                                         *)
(* A balance is indexed by account and denomination; the operations on it  *)
(* are those of module Ledger.                                             *)
(***************************************************************************)
EXTENDS Ledger, FiniteSets

CONSTANTS Users,        \* accounts of people: owners, bidders, oracles ...
          Collaterals   \* denominations that may be used as collateral

VARIABLES balance,      \* balance[a, d]: coins of denomination d held by a
          supply        \* supply[d]: total supply recorded by x/supply

bankVars == <<balance, supply>>

StableDenom == "ucsdt"
GovDenom    == "uftm"

\* Module accounts.
CsdtModule       == "csdt"
LiquidatorModule == "liquidator"
AuctionModule    == "auction"

ModuleAccounts == {CsdtModule, LiquidatorModule, AuctionModule}
Accounts       == Users \cup ModuleAccounts
Denoms         == Collaterals \cup {StableDenom, GovDenom}

\* People are not module accounts (bank blacklists module addresses), and
\* the stable coin is not accepted as collateral (true of every collateral
\* list in the repository's genesis and default parameters).  Both lists are
\* finite.
ASSUME UsersAssumption       == IsFiniteSet(Users) /\ Users \cap ModuleAccounts = {}
ASSUME CollateralsAssumption == IsFiniteSet(Collaterals) /\ StableDenom \notin Collaterals

Coins == [denom : Denoms, amount : Nat]

\* The recorded total after a MintCoins (sign 1) or a BurnCoins (sign -1).
SupplyPlus(c, sign) == [supply EXCEPT ![c.denom] = @ + sign * c.amount]

BankTypeOK == /\ balance \in [Accounts \X Denoms -> Nat]
              /\ supply \in [Denoms -> Nat]
=============================================================================

------------------------------- MODULE Ledger -------------------------------
(***************************************************************************)
(* The calls of the Cosmos SDK's bank and supply keepers on a ledger b, a  *)
(* function from <<account, denomination>> to an amount (external).        *)
(*                                                                         *)
(* A keeper call that fails (insufficient coins) returns an error or       *)
(* panics; either way the transaction it belongs to is rolled back, so     *)
(* callers put CanSend among the guards of their action.                   *)
(***************************************************************************)
EXTENDS Integers

Coin(d, n) == [denom |-> d, amount |-> n]

\* A ledger b in which `from` can pay, and the ledger after it has paid.
CanSend(b, from, c) == b[<<from, c.denom>>] >= c.amount
Send(b, from, to, c) ==
  [ad \in DOMAIN b |-> b[ad] - (IF ad = <<from, c.denom>> THEN c.amount ELSE 0)
                            + (IF ad = <<to, c.denom>> THEN c.amount ELSE 0)]

\* New coins for an account (MintCoins of the supply keeper, AddCoins of the
\* bank keeper), and coins taken from one (BurnCoins).
Mint(b, m, c) == [b EXCEPT ![<<m, c.denom>>] = @ + c.amount]
Burn(b, m, c) == [b EXCEPT ![<<m, c.denom>>] = @ - c.amount]
=============================================================================

---------------------------- MODULE MCLiquidator ----------------------------
(* Values for the constants of Liquidator that a .cfg cannot spell.        *)
EXTENDS Liquidator, TLC

\* Collateral is sold one at a time.
MC_SmallAuctions == [d \in {"uftm"} |-> 1]

\* The terms a nominee may choose: loose, or stricter in both.
MC_Terms == {[ratio |-> 1, limit |-> 2], [ratio |-> 2, limit |-> 1]}

MC_Symmetry == Permutations(Users)
=============================================================================

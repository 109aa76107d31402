----------------------------- MODULE MCExchange -----------------------------
(* The exchange with one market and with two, for TLC.                     *)
EXTENDS Exchange

OneMarket  == {<<"tst1", "tst2">>}
TwoMarkets == {<<"tst1", "tst2">>, <<"tst2", "tst1">>}
MC_Symmetry == Permutations(Users)
=============================================================================

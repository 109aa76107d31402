---------------------------- MODULE MCOrderView -----------------------------
(* The market data of a node, with one market, for TLC.                    *)
EXTENDS OrderView

OneMarket   == {<<"tst1", "tst2">>}
MC_Symmetry == Permutations(Users)
=============================================================================

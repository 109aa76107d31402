------------------------------ MODULE MCMarket ------------------------------
\* Market with two markets; the chain of one crosses a power of ten.
EXTENDS Market, TLC

CONSTANTS m1, m2
MC_Markets == {m1, m2}
MC_MaxHeight == (m1 :> 10) @@ (m2 :> 9)
=============================================================================

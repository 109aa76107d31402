--------------------------------- MODULE Dec ---------------------------------
(***************************************************************************)
(* Fixed point decimals of the Cosmos SDK (external): a Dec is an integer  *)
(* counted in 1/Precision.  The SDK uses 10^18; the models use a smaller   *)
(* power, large enough that the amounts of an instance round the same way. *)
(***************************************************************************)
EXTENDS Integers

CONSTANT Precision

ASSUME PrecisionAssumption == Precision \in Nat \ {0}

\* chopPrecisionAndRound of a non-negative integer: divide by Precision and
\* round half to even.
ChopRound(n) ==
  LET q == n \div Precision
      r == n % Precision
  IN  CASE 2 * r < Precision -> q
        [] 2 * r > Precision -> q + 1
        [] OTHER             -> IF q % 2 = 0 THEN q ELSE q + 1

\* NewDecFromInt(a).Quo(NewDecFromInt(b)), b # 0.
QuoInts(a, b) == ChopRound((a * Precision * Precision) \div b)

\* x.Mul(NewDecFromInt(n)) is exact; RoundInt rounds half to even.
RoundInt(x) == ChopRound(x)
=============================================================================

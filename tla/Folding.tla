------------------------------ MODULE Folding ------------------------------
(***************************************************************************)
(* FoldLeft of the community modules, for a given op: the states it runs   *)
(* through exist, and the last of them is its result.  The module is       *)
(* instantiated for every fold that is reasoned about (no prover takes op  *)
(* as a parameter of a lemma); op's first argument is what stays the same  *)
(* during the fold.                                                        *)
(***************************************************************************)
EXTENDS Sums

CONSTANT op(_, _, _)

Greatest(s) == CHOOSE x \in s : \A y \in s : x >= y

\* iter is the result for every part of a sequence's domain.
Folds(iter, p, base, seq, dom) ==
  iter = [s \in SUBSET dom |->
            IF s = {} THEN base ELSE op(p, iter[s \ {Greatest(s)}], seq[Greatest(s)])]

\* FoldLeft(LAMBDA s, x : op(p, s, x), base, seq).
Fold(p, base, seq) == (CHOOSE iter : Folds(iter, p, base, seq, DOMAIN seq))[DOMAIN seq]

\* r is the states from the base to the result, of a sequence of length n.
Runs(r, p, base, seq, n) ==
  /\ r[0] = base
  /\ \A i \in 1 .. n : r[i] = op(p, r[i - 1], seq[i])
  /\ r[n] = Fold(p, base, seq)

\* The greatest of some natural numbers.
LEMMA MaxUpTo ==
  ASSUME NEW n \in Nat, NEW s \in SUBSET (1 .. n), s # {}
  PROVE  Greatest(s) \in s /\ \A i \in s : i <= Greatest(s)
<1> DEFINE Bounds == {b \in Nat : \A i \in s : i <= b}
<1>1. n \in Bounds
  OBVIOUS
<1>2. PICK b \in Bounds : \A c \in Bounds : b <= c
  BY <1>1, LeastNat
<1>3. b \in s
  <2> SUFFICES ASSUME b \notin s PROVE FALSE
    OBVIOUS
  <2>1. b # 0
    <3>1. PICK i \in s : TRUE
      OBVIOUS
    <3> QED BY <1>2, <3>1
  <2>2. b - 1 \in Bounds
    BY <1>2, <2>1
  <2> QED BY <1>2, <2>2
<1> QED BY <1>2, <1>3 DEF Greatest

\* There is such an iter.
LEMMA FoldExists ==
  ASSUME NEW p, NEW base, NEW seq, NEW n \in Nat
  PROVE  \E iter : Folds(iter, p, base, seq, 1 .. n)
<1> DEFINE T == {k \in Nat : \E iter : Folds(iter, p, base, seq, 1 .. k)}
<1>1. 0 \in T
  <2>1. Folds([s \in SUBSET (1 .. 0) |-> base], p, base, seq, 1 .. 0)
    <3>1. SUBSET (1 .. 0) = {{}}
      OBVIOUS
    <3> QED BY <3>1 DEF Folds
  <2> QED BY <2>1
<1>2. ASSUME NEW k \in Nat, k \in T
      PROVE  k + 1 \in T
  <2>1. PICK iter : Folds(iter, p, base, seq, 1 .. k)
    BY <1>2
  <2> DEFINE next == [s \in SUBSET (1 .. k + 1) |->
                        IF k + 1 \in s THEN op(p, iter[s \ {k + 1}], seq[k + 1]) ELSE iter[s]]
  <2>2. ASSUME NEW s \in SUBSET (1 .. k + 1)
        PROVE  next[s] = IF s = {} THEN base ELSE op(p, next[s \ {Greatest(s)}], seq[Greatest(s)])
    <3>1. CASE k + 1 \in s
      <4>1. Greatest(s) = k + 1
        <5> HIDE DEF next, T
        <5>0. k + 1 \in Nat /\ s # {}
          BY <3>1
        <5>1. Greatest(s) \in s /\ k + 1 <= Greatest(s)
          BY <3>1, <5>0, MaxUpTo
        <5>2. Greatest(s) \in 1 .. k + 1
          BY <5>1
        <5> QED BY <5>1, <5>2
      <4>2. s \ {k + 1} \in SUBSET (1 .. k + 1) /\ k + 1 \notin s \ {k + 1}
        OBVIOUS
      <4>3. next[s \ {k + 1}] = iter[s \ {k + 1}]
        BY <4>2
      <4>4. next[s] = op(p, iter[s \ {k + 1}], seq[k + 1])
        BY <3>1
      <4> HIDE DEF next
      <4> QED BY <3>1, <4>1, <4>3, <4>4
    <3>2. CASE k + 1 \notin s
      <4>1. s \in SUBSET (1 .. k)
        BY <3>2
      <4>2. next[s] = iter[s]
        BY <3>2
      <4>3. iter[s] = IF s = {} THEN base ELSE op(p, iter[s \ {Greatest(s)}], seq[Greatest(s)])
        BY <2>1, <4>1 DEF Folds
      <4>4. s \ {Greatest(s)} \in SUBSET (1 .. k + 1) /\ k + 1 \notin s \ {Greatest(s)}
        BY <3>2
      <4>5. next[s \ {Greatest(s)}] = iter[s \ {Greatest(s)}]
        BY <4>4
      <4> HIDE DEF next
      <4> QED BY <4>2, <4>3, <4>5
    <3> QED BY <3>1, <3>2
  <2>3. Folds(next, p, base, seq, 1 .. k + 1)
    <3>1. next = [s \in SUBSET (1 .. k + 1) |-> next[s]]
      OBVIOUS
    <3> HIDE DEF next
    <3> QED BY <2>2, <3>1 DEF Folds
  <2> HIDE DEF next
  <2> QED BY <2>3
<1> HIDE DEF T
<1>3. 0 .. n \subseteq T
  BY <1>1, <1>2, UpToEnd
<1>4. n \in T
  BY <1>3
<1> QED BY <1>4 DEF T

\* A fold runs through the states r[0], r[1], ..., r[n].
LEMMA FoldRuns ==
  ASSUME NEW p, NEW base, NEW seq, NEW n \in Nat, DOMAIN seq = 1 .. n
  PROVE  \E r : Runs(r, p, base, seq, n)
<1> DEFINE iter == CHOOSE i : Folds(i, p, base, seq, 1 .. n)
           r    == [i \in 0 .. n |-> iter[1 .. i]]
<1>1. Folds(iter, p, base, seq, 1 .. n)
  BY FoldExists
<1>2. Fold(p, base, seq) = iter[1 .. n]
  BY DEF Fold
<1> HIDE DEF iter
<1>3. r[0] = base
  <2>1. 1 .. 0 = {} /\ {} \in SUBSET (1 .. n) /\ 0 \in 0 .. n
    OBVIOUS
  <2> QED BY <1>1, <2>1 DEF Folds
<1>4. ASSUME NEW i \in 1 .. n
      PROVE  r[i] = op(p, r[i - 1], seq[i])
  <2>1. 1 .. i \in SUBSET (1 .. n) /\ i \in 1 .. i /\ i - 1 \in 0 .. n /\ i \in 0 .. n /\ i \in Nat
    OBVIOUS
  <2>2. Greatest(1 .. i) = i
    <3>1. Greatest(1 .. i) \in 1 .. i /\ i <= Greatest(1 .. i)
      BY <2>1, MaxUpTo
    <3> QED BY <3>1
  <2>3. (1 .. i) \ {i} = 1 .. i - 1
    OBVIOUS
  <2>4. iter[1 .. i] = op(p, iter[(1 .. i) \ {i}], seq[i])
    BY <1>1, <2>1, <2>2 DEF Folds
  <2>5. r[i] = iter[1 .. i] /\ r[i - 1] = iter[1 .. i - 1]
    BY <2>1
  <2> HIDE DEF r
  <2> QED BY <2>3, <2>4, <2>5
<1>5. r[n] = Fold(p, base, seq)
  BY <1>2
<1> HIDE DEF r
<1>6. Runs(r, p, base, seq, n)
  BY <1>3, <1>4, <1>5 DEF Runs
<1> QED BY <1>6
=============================================================================

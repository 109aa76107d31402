--------------------------------- MODULE Sums ---------------------------------
(***************************************************************************)
(* Facts about SumFunctionOnSet, with which the chain's modules state what *)
(* a counter or a module account should hold.  The operator folds + over a *)
(* finite set; its equation holds because a function that adds f up over   *)
(* every subset exists and is unique.  Both are shown by a minimal         *)
(* counterexample, from the well-foundedness of < on the naturals: the     *)
(* library's induction theorems take an operator as parameter.             *)
(***************************************************************************)
EXTENDS Functions, FiniteSetsExt, FiniteSetTheorems, TLAPS

\* The member of s that the fold takes next.
Pick(s) == CHOOSE x \in s : TRUE

\* Every non-empty set of natural numbers has a least element.
LEMMA LeastNat ==
  ASSUME NEW T \in SUBSET Nat, T # {}
  PROVE  \E n \in T : \A m \in T : n <= m
<1>1. PICK n \in T : \A m \in T : <<m, n>> \notin OpToRel(<, Nat)
  BY WFMin, NatLessThanWellFounded, Zenon
<1>2. \A m \in T : ~ (m < n)
  BY <1>1, Zenon DEF OpToRel
<1>3. \A m \in T : n <= m
  BY <1>2
<1> QED BY <1>3

\* What holds of 0, and of the next number whenever it holds of one below n,
\* holds of every number up to n.
LEMMA UpToEnd ==
  ASSUME NEW n \in Nat, NEW T,
         0 \in T, \A i \in 0 .. n - 1 : i \in T => i + 1 \in T
  PROVE  0 .. n \subseteq T
<1> DEFINE F == {i \in 0 .. n : i \notin T}
<1>1. ASSUME F # {} PROVE FALSE
  <2>0. F \in SUBSET Nat
    OBVIOUS
  <2>1. PICK i \in F : \A j \in F : i <= j
    <3> HIDE DEF F
    <3> QED BY <1>1, <2>0, LeastNat
  <2>2. i # 0 /\ i - 1 \in 0 .. n - 1
    BY <2>1
  <2>3. i - 1 \in T
    BY <2>1, <2>2
  <2> QED BY <2>1, <2>2, <2>3
<1> QED BY <1>1

\* The greatest of some natural numbers.
LEMMA MaxIs ==
  ASSUME NEW n \in Nat, NEW s \in SUBSET (0 .. n), s # {}
  PROVE  Max(s) \in s /\ \A i \in s : i <= Max(s)
<1> DEFINE Bounds == {b \in Nat : \A i \in s : i <= b}
<1>1. n \in Bounds
  OBVIOUS
<1>2. PICK b \in Bounds : \A c \in Bounds : b <= c
  <2>1. Bounds \in SUBSET Nat /\ Bounds # {}
    BY <1>1
  <2> HIDE DEF Bounds
  <2> QED BY <2>1, LeastNat
<1>3. b \in s
  <2> SUFFICES ASSUME b \notin s PROVE FALSE
    OBVIOUS
  <2>1. b # 0
    <3>1. PICK i \in s : TRUE
      BY Zenon
    <3> QED BY <1>2, <3>1
  <2>2. b - 1 \in Bounds
    BY <1>2, <2>1
  <2> QED BY <1>2, <2>2
<1> QED BY <1>2, <1>3, Zenon DEF Max

\* iter adds f up over each of the sets in S.
AddsUp(f, S, iter) ==
  iter = [s \in S |-> IF s = {} THEN 0 ELSE f[Pick(s)] + iter[s \ {Pick(s)}]]

\* The sum is what such an iter says of S.
LEMMA SumIsIter ==
  ASSUME NEW f, NEW S
  PROVE  SumFunctionOnSet(f, S) = (CHOOSE iter : AddsUp(f, SUBSET S, iter))[S]
BY DEF SumFunctionOnSet, FoldFunctionOnSet, MapThenFoldSet, AddsUp, Pick

\* The subsets of S with at most n members.
UpTo(S, n) == {s \in SUBSET S : Cardinality(s) <= n}

\* Taking a member out of a finite set.
LEMMA Picked ==
  ASSUME NEW S, IsFiniteSet(S), S # {}
  PROVE  /\ Pick(S) \in S
         /\ IsFiniteSet(S \ {Pick(S)})
         /\ Cardinality(S) \in Nat
         /\ Cardinality(S \ {Pick(S)}) \in Nat
         /\ Cardinality(S \ {Pick(S)}) = Cardinality(S) - 1
<1>1. Pick(S) \in S
  BY DEF Pick
<1> QED BY <1>1, FS_RemoveElement, FS_CardinalityType

\* There is such an iter for the subsets of a finite set.
LEMMA IterExists ==
  ASSUME NEW f, NEW S, IsFiniteSet(S)
  PROVE  \E iter : AddsUp(f, SUBSET S, iter)
<1> DEFINE Fails == {n \in Nat : ~ \E iter : AddsUp(f, UpTo(S, n), iter)}
<1>0. \A s \in SUBSET S : IsFiniteSet(s) /\ Cardinality(s) \in Nat /\ Cardinality(s) <= Cardinality(S)
  BY FS_Subset, FS_CardinalityType
<1>1. ASSUME Fails # {} PROVE FALSE
  <2>1. PICK n \in Fails : \A m \in Fails : n <= m
    BY <1>1, LeastNat
  <2>2. CASE n = 0
    <3>1. UpTo(S, 0) = {{}}
      BY <1>0, FS_EmptySet DEF UpTo
    <3>2. AddsUp(f, UpTo(S, 0), [s \in {{}} |-> 0])
      BY <3>1 DEF AddsUp
    <3> QED BY <2>1, <2>2, <3>2
  <2>3. CASE n # 0
    <3>1. n - 1 \in Nat /\ n - 1 \notin Fails
      BY <2>1, <2>3
    <3>2. PICK g : AddsUp(f, UpTo(S, n - 1), g)
      BY <3>1
    <3> DEFINE h == [s \in UpTo(S, n) |-> IF s = {} THEN 0 ELSE f[Pick(s)] + g[s \ {Pick(s)}]]
    <3>3. \A s \in UpTo(S, n - 1) : h[s] = g[s]
      <4>1. \A s \in UpTo(S, n - 1) : s \in UpTo(S, n)
        BY <1>0, <2>1, <3>1 DEF UpTo
      <4>2. \A s \in UpTo(S, n - 1) : g[s] = IF s = {} THEN 0 ELSE f[Pick(s)] + g[s \ {Pick(s)}]
        BY <3>2 DEF AddsUp
      <4> QED BY <4>1, <4>2
    <3>4. \A s \in UpTo(S, n) : s # {} => s \ {Pick(s)} \in UpTo(S, n - 1)
      BY <1>0, <2>1, <3>1, Picked DEF UpTo
    <3>5. AddsUp(f, UpTo(S, n), h)
      BY <3>3, <3>4 DEF AddsUp
    <3> QED BY <2>1, <3>5
  <2> QED BY <2>2, <2>3
<1>2. Cardinality(S) \in Nat /\ UpTo(S, Cardinality(S)) = SUBSET S
  BY <1>0, FS_CardinalityType DEF UpTo
<1>3. Cardinality(S) \notin Fails
  BY <1>1
<1> QED BY <1>2, <1>3

\* Two ways of adding up agree, on the sets that both add up.
LEMMA IterUnique ==
  ASSUME NEW f, NEW g, NEW S, IsFiniteSet(S), NEW T \in SUBSET S, NEW iter, NEW jter,
         AddsUp(f, SUBSET S, iter), AddsUp(g, SUBSET T, jter),
         \A x \in T : f[x] = g[x]
  PROVE  \A s \in SUBSET T : iter[s] = jter[s]
<1> DEFINE Differ == {s \in SUBSET T : iter[s] # jter[s]}
           Sizes == {Cardinality(s) : s \in Differ}
<1>1. ASSUME Differ # {} PROVE FALSE
  <2>0. \A s \in SUBSET T : IsFiniteSet(s) /\ Cardinality(s) \in Nat
    BY FS_Subset, FS_CardinalityType
  <2>1. Sizes \in SUBSET Nat /\ Sizes # {}
    BY <1>1, <2>0
  <2> HIDE DEF Sizes
  <2>2. PICK n \in Sizes : \A m \in Sizes : n <= m
    BY <2>1, LeastNat
  <2> USE DEF Sizes
  <2>3. PICK s \in Differ : n = Cardinality(s)
    BY <2>2
  <2>4. s \in SUBSET S /\ s \in SUBSET T
    BY <2>3
  <2>5. iter[s] = IF s = {} THEN 0 ELSE f[Pick(s)] + iter[s \ {Pick(s)}]
    BY <2>4 DEF AddsUp
  <2>6. jter[s] = IF s = {} THEN 0 ELSE g[Pick(s)] + jter[s \ {Pick(s)}]
    BY <2>4 DEF AddsUp
  <2>7. s # {}
    BY <2>3, <2>5, <2>6
  <2>8. /\ Pick(s) \in T /\ s \ {Pick(s)} \in SUBSET T
        /\ Cardinality(s \ {Pick(s)}) \in Nat /\ Cardinality(s \ {Pick(s)}) = Cardinality(s) - 1
        /\ Cardinality(s) \in Nat
    BY <2>0, <2>4, <2>7, Picked
  <2>9. s \ {Pick(s)} \notin Differ
    BY <2>2, <2>3, <2>8
  <2> QED BY <2>3, <2>5, <2>6, <2>7, <2>8, <2>9
<1> QED BY <1>1

\* The equation of the sum.
LEMMA SumStep ==
  ASSUME NEW f, NEW S, IsFiniteSet(S)
  PROVE  SumFunctionOnSet(f, S) =
           IF S = {} THEN 0 ELSE f[Pick(S)] + SumFunctionOnSet(f, S \ {Pick(S)})
<1> DEFINE iter == CHOOSE i : AddsUp(f, SUBSET S, i)
<1>1. AddsUp(f, SUBSET S, iter)
  BY IterExists
<1>2. SumFunctionOnSet(f, S) = iter[S]
  BY SumIsIter
<1> HIDE DEF iter
<1>3. iter[S] = IF S = {} THEN 0 ELSE f[Pick(S)] + iter[S \ {Pick(S)}]
  BY <1>1 DEF AddsUp
<1>4. ASSUME S # {} PROVE iter[S \ {Pick(S)}] = SumFunctionOnSet(f, S \ {Pick(S)})
  <2> DEFINE T == S \ {Pick(S)}
             jter == CHOOSE i : AddsUp(f, SUBSET T, i)
  <2>1. T \in SUBSET S /\ IsFiniteSet(T)
    BY FS_Subset
  <2> HIDE DEF T
  <2>2. AddsUp(f, SUBSET T, jter)
    BY <2>1, IterExists
  <2>3. SumFunctionOnSet(f, T) = jter[T]
    BY SumIsIter
  <2> HIDE DEF jter
  <2>4. iter[T] = jter[T]
    BY <1>1, <2>1, <2>2, IterUnique, SMTT(30)
  <2> QED BY <2>3, <2>4 DEF T
<1> QED BY <1>2, <1>3, <1>4

\* The sum depends on the values added up only.
LEMMA SumSame ==
  ASSUME NEW f, NEW g, NEW S, IsFiniteSet(S), \A x \in S : f[x] = g[x]
  PROVE  SumFunctionOnSet(f, S) = SumFunctionOnSet(g, S)
<1> DEFINE iter == CHOOSE i : AddsUp(f, SUBSET S, i)
           jter == CHOOSE i : AddsUp(g, SUBSET S, i)
<1>1. AddsUp(f, SUBSET S, iter) /\ AddsUp(g, SUBSET S, jter)
  BY IterExists
<1>2. SumFunctionOnSet(f, S) = iter[S] /\ SumFunctionOnSet(g, S) = jter[S]
  BY SumIsIter
<1> HIDE DEF iter, jter
<1>3. iter[S] = jter[S]
  BY <1>1, IterUnique
<1> QED BY <1>2, <1>3

\* Nothing adds up to nothing.
LEMMA SumEmpty == ASSUME NEW f PROVE SumFunctionOnSet(f, {}) = 0
  BY SumStep, FS_EmptySet

\* The least set, by size, of a family of finite sets.
LEMMA Smallest ==
  ASSUME NEW F, F # {}, \A s \in F : IsFiniteSet(s)
  PROVE  \E s \in F : \A t \in F : Cardinality(s) <= Cardinality(t)
<1> DEFINE Sizes == {Cardinality(s) : s \in F}
<1>1. Sizes \in SUBSET Nat /\ Sizes # {}
  BY FS_CardinalityType
<1> HIDE DEF Sizes
<1>2. PICK n \in Sizes : \A m \in Sizes : n <= m
  BY <1>1, LeastNat
<1> USE DEF Sizes
<1> QED BY <1>2

\* A sum of integers is one.
LEMMA SumInt ==
  ASSUME NEW f, NEW S, IsFiniteSet(S), \A x \in S : f[x] \in Int
  PROVE  SumFunctionOnSet(f, S) \in Int
<1> DEFINE F == {s \in SUBSET S : SumFunctionOnSet(f, s) \notin Int}
<1>1. ASSUME F # {} PROVE FALSE
  <2>1. \A s \in F : s \in SUBSET S /\ IsFiniteSet(s)
    BY FS_Subset
  <2>2. PICK s \in F : \A t \in F : Cardinality(s) <= Cardinality(t)
    BY <1>1, <2>1, Smallest
  <2>3. s # {}
    BY SumEmpty
  <2>4. /\ Pick(s) \in S /\ s \ {Pick(s)} \in SUBSET S
        /\ s \ {Pick(s)} \notin F
    BY <2>1, <2>2, <2>3, Picked
  <2> QED BY <2>1, <2>3, <2>4, SumStep
<1> QED BY <1>1, FS_Subset

\* A sum without one of its members.
LEMMA SumRemove ==
  ASSUME NEW f, NEW S, IsFiniteSet(S), \A x \in S : f[x] \in Int, NEW x \in S
  PROVE  SumFunctionOnSet(f, S) = f[x] + SumFunctionOnSet(f, S \ {x})
<1> DEFINE Good(s) == \A y \in s : SumFunctionOnSet(f, s) = f[y] + SumFunctionOnSet(f, s \ {y})
           F == {s \in SUBSET S : ~ Good(s)}
<1>1. ASSUME F # {} PROVE FALSE
  <2>1. \A s \in F : s \in SUBSET S /\ IsFiniteSet(s)
    BY FS_Subset
  <2>2. PICK s \in F : \A t \in F : Cardinality(s) <= Cardinality(t)
    BY <1>1, <2>1, Smallest
  <2>3. PICK y \in s : SumFunctionOnSet(f, s) # f[y] + SumFunctionOnSet(f, s \ {y})
    BY <2>2
  <2> DEFINE p == Pick(s)
  <2>4. /\ p \in S /\ y \in S
        /\ p \in s
        /\ s \in SUBSET S
        /\ \A z \in s : s \ {z} \in SUBSET S /\ IsFiniteSet(s \ {z}) /\ IsFiniteSet((s \ {z}) \ {p})
        /\ \A z \in s : Cardinality(s \ {z}) = Cardinality(s) - 1 /\ Cardinality(s) \in Nat
    BY <2>1, Picked, FS_RemoveElement, FS_CardinalityType
  <2> HIDE DEF p, F, Good
  <2>5. \A z \in s : Good(s \ {z})
    <3>1. \A z \in s : s \ {z} \notin F
      BY <2>2, <2>4
    <3> QED BY <2>4, <3>1 DEF F
  <2>6. SumFunctionOnSet(f, s) = f[p] + SumFunctionOnSet(f, s \ {p})
    BY <2>1, <2>3, SumStep DEF p
  <2>7. p # y
    BY <2>3, <2>6
  <2>8. /\ SumFunctionOnSet(f, s \ {p}) = f[y] + SumFunctionOnSet(f, (s \ {p}) \ {y})
        /\ SumFunctionOnSet(f, s \ {y}) = f[p] + SumFunctionOnSet(f, (s \ {y}) \ {p})
    BY <2>3, <2>4, <2>5, <2>7 DEF Good
  <2>9. (s \ {p}) \ {y} = (s \ {y}) \ {p}
    OBVIOUS
  <2>10. SumFunctionOnSet(f, (s \ {y}) \ {p}) \in Int
    BY <2>3, <2>4, SumInt
  <2>11. f[p] \in Int /\ f[y] \in Int
    BY <2>4
  <2>12. \A a, b, c \in Int : a + (b + c) = b + (a + c)
    OBVIOUS
  <2>13. SumFunctionOnSet(f, s) = f[p] + (f[y] + SumFunctionOnSet(f, (s \ {y}) \ {p}))
    BY <2>6, <2>8, <2>9, Zenon
  <2>14. SumFunctionOnSet(f, s) = f[y] + (f[p] + SumFunctionOnSet(f, (s \ {y}) \ {p}))
    BY <2>10, <2>11, <2>12, <2>13, Zenon
  <2> QED BY <2>3, <2>8, <2>14, Zenon
<1> QED BY <1>1

\* A sum with one more member.
LEMMA SumAdd ==
  ASSUME NEW f, NEW S, IsFiniteSet(S), NEW x, x \notin S, \A y \in S \cup {x} : f[y] \in Int
  PROVE  SumFunctionOnSet(f, S \cup {x}) = f[x] + SumFunctionOnSet(f, S)
<1>1. IsFiniteSet(S \cup {x}) /\ (S \cup {x}) \ {x} = S
  BY FS_AddElement
<1> QED BY <1>1, SumRemove

\* Changing one value changes the sum by as much.
LEMMA SumChange ==
  ASSUME NEW f, NEW g, NEW S, IsFiniteSet(S), NEW x \in S,
         \A y \in S : f[y] \in Int /\ g[y] \in Int,
         \A y \in S \ {x} : g[y] = f[y]
  PROVE  /\ SumFunctionOnSet(f, S) \in Int
         /\ SumFunctionOnSet(g, S) = SumFunctionOnSet(f, S) + (g[x] - f[x])
<1> DEFINE R == S \ {x}
<1>1. IsFiniteSet(R) /\ R \subseteq S
  BY FS_Subset
<1>2. /\ SumFunctionOnSet(f, S) = f[x] + SumFunctionOnSet(f, R)
      /\ SumFunctionOnSet(g, S) = g[x] + SumFunctionOnSet(g, R)
  BY SumRemove
<1>3. SumFunctionOnSet(g, R) = SumFunctionOnSet(f, R)
  BY <1>1, SumSame
<1>4. SumFunctionOnSet(f, R) \in Int /\ SumFunctionOnSet(f, S) \in Int
  BY <1>1, SumInt
<1>5. f[x] \in Int /\ g[x] \in Int
  OBVIOUS
<1> HIDE DEF R
<1> QED BY <1>2, <1>3, <1>4, <1>5

\* A sum of natural numbers is one, and at least as great as each of them.
LEMMA SumNat ==
  ASSUME NEW f, NEW S, IsFiniteSet(S), \A x \in S : f[x] \in Nat
  PROVE  /\ SumFunctionOnSet(f, S) \in Nat
         /\ \A x \in S : f[x] <= SumFunctionOnSet(f, S)
<1> DEFINE F == {s \in SUBSET S : SumFunctionOnSet(f, s) \notin Nat}
<1>1. ASSUME F # {} PROVE FALSE
  <2>1. \A s \in F : s \in SUBSET S /\ IsFiniteSet(s)
    BY FS_Subset
  <2>2. PICK s \in F : \A t \in F : Cardinality(s) <= Cardinality(t)
    BY <1>1, <2>1, Smallest
  <2>3. s # {}
    BY SumEmpty
  <2>4. /\ Pick(s) \in S /\ s \ {Pick(s)} \in SUBSET S
        /\ s \ {Pick(s)} \notin F
    BY <2>1, <2>2, <2>3, Picked
  <2> QED BY <2>1, <2>3, <2>4, SumStep
<1>2. \A s \in SUBSET S : SumFunctionOnSet(f, s) \in Nat
  BY <1>1
<1>3. ASSUME NEW x \in S
      PROVE  f[x] <= SumFunctionOnSet(f, S)
  <2>1. SumFunctionOnSet(f, S) = f[x] + SumFunctionOnSet(f, S \ {x})
    BY SumRemove
  <2>2. SumFunctionOnSet(f, S \ {x}) \in Nat /\ f[x] \in Nat
    BY <1>2
  <2> QED BY <2>1, <2>2
<1> QED BY <1>2, <1>3

\* A sum of zeros.
LEMMA SumZero ==
  ASSUME NEW f, NEW S, IsFiniteSet(S), \A x \in S : f[x] = 0
  PROVE  SumFunctionOnSet(f, S) = 0
<1> DEFINE F == {s \in SUBSET S : SumFunctionOnSet(f, s) # 0}
<1>1. ASSUME F # {} PROVE FALSE
  <2>1. \A s \in F : s \in SUBSET S /\ IsFiniteSet(s)
    BY FS_Subset
  <2>2. PICK s \in F : \A t \in F : Cardinality(s) <= Cardinality(t)
    BY <1>1, <2>1, Smallest
  <2>3. s # {}
    BY SumEmpty
  <2>4. /\ Pick(s) \in S /\ s \ {Pick(s)} \in SUBSET S
        /\ s \ {Pick(s)} \notin F
    BY <2>1, <2>2, <2>3, Picked
  <2> QED BY <2>1, <2>3, <2>4, SumStep
<1> QED BY <1>1

\* A sum of which some values are c and the others 0.
LEMMA SumConstant ==
  ASSUME NEW f, NEW S, IsFiniteSet(S), NEW T \in SUBSET S, NEW c \in Nat,
         \A x \in S : f[x] = IF x \in T THEN c ELSE 0
  PROVE  SumFunctionOnSet(f, S) = c * Cardinality(T)
<1> DEFINE Good(s) == SumFunctionOnSet(f, s) = c * Cardinality(s \cap T)
           F == {s \in SUBSET S : ~ Good(s)}
<1>1. ASSUME F # {} PROVE FALSE
  <2>1. \A s \in F : s \in SUBSET S /\ IsFiniteSet(s)
    BY FS_Subset
  <2>2. PICK s \in F : \A t \in F : Cardinality(s) <= Cardinality(t)
    BY <1>1, <2>1, Smallest
  <2>3. s # {}
    BY <2>2, SumEmpty, FS_EmptySet
  <2> DEFINE p == Pick(s)
             r == s \ {p}
  <2>4. /\ p \in s /\ p \in S /\ r \in SUBSET S /\ IsFiniteSet(s)
        /\ Good(r)
    <3>1. /\ p \in s /\ p \in S /\ r \in SUBSET S /\ IsFiniteSet(s)
          /\ Cardinality(s) \in Nat /\ Cardinality(r) = Cardinality(s) - 1
      BY <2>1, <2>3, Picked
    <3>2. r \notin F
      <4>1. ~ (Cardinality(s) <= Cardinality(r))
        BY <3>1
      <4> QED BY <2>2, <4>1
    <3> HIDE DEF Good
    <3> QED BY <3>1, <3>2
  <2>5. SumFunctionOnSet(f, s) = f[p] + SumFunctionOnSet(f, r)
    BY <2>1, <2>3, SumStep
  <2> HIDE DEF p
  <2>6. IsFiniteSet(s \cap T) /\ IsFiniteSet(r \cap T)
    BY <2>4, FS_Subset
  <2>7. Cardinality(s \cap T) \in Nat /\ Cardinality(r \cap T) \in Nat
    BY <2>6, FS_CardinalityType
  <2>8. CASE p \in T
    <3>1. r \cap T = (s \cap T) \ {p} /\ p \in s \cap T
      BY <2>4, <2>8
    <3>2. Cardinality(r \cap T) = Cardinality(s \cap T) - 1
      <4>1. Cardinality((s \cap T) \ {p}) = Cardinality(s \cap T) - 1
        BY <2>6, <3>1, FS_RemoveElement
      <4> QED BY <3>1, <4>1, Zenon
    <3>3. SumFunctionOnSet(f, s) = c + c * Cardinality(r \cap T)
      BY <2>4, <2>5, <2>8
    <3>4. \A m, n \in Nat : m = n - 1 => c + c * m = c * n
      OBVIOUS
    <3>5. c + c * Cardinality(r \cap T) = c * Cardinality(s \cap T)
      BY <2>7, <3>2, <3>4
    <3> QED BY <2>2, <3>3, <3>5
  <2>9. CASE p \notin T
    <3>1. r \cap T = s \cap T
      BY <2>9
    <3>2. f[p] = 0 /\ c * Cardinality(r \cap T) \in Nat
      BY <2>4, <2>7, <2>9
    <3>3. SumFunctionOnSet(f, s) = c * Cardinality(r \cap T)
      BY <2>4, <2>5, <3>2
    <3> QED BY <2>2, <3>1, <3>3
  <2> QED BY <2>8, <2>9
<1>2. S \notin F
  BY <1>1
<1>3. S \cap T = T
  OBVIOUS
<1> QED BY <1>2, <1>3

\* A sum of fewer and smaller numbers is no greater.
LEMMA SumUpTo ==
  ASSUME NEW f, NEW g, NEW S, IsFiniteSet(S), NEW T \in SUBSET S,
         \A x \in S : g[x] \in Nat,
         \A x \in T : f[x] \in Nat /\ f[x] <= g[x]
  PROVE  SumFunctionOnSet(f, T) <= SumFunctionOnSet(g, S)
<1> DEFINE F == {s \in SUBSET S : ~ (SumFunctionOnSet(f, s \cap T) <= SumFunctionOnSet(g, s))}
<1>0. \A s \in SUBSET S : IsFiniteSet(s) /\ IsFiniteSet(s \cap T)
  BY FS_Subset
<1>1. ASSUME F # {} PROVE FALSE
  <2>1. \A s \in F : s \in SUBSET S /\ IsFiniteSet(s)
    BY <1>0
  <2>2. PICK s \in F : \A t \in F : Cardinality(s) <= Cardinality(t)
    BY <1>1, <2>1, Smallest
  <2>3. s # {}
    <3>1. {} \cap T = {} /\ SumFunctionOnSet(f, {}) = 0 /\ SumFunctionOnSet(g, {}) = 0
      BY SumEmpty
    <3>2. SumFunctionOnSet(f, {} \cap T) <= SumFunctionOnSet(g, {})
      BY <3>1
    <3> QED BY <2>2, <3>2
  <2> DEFINE p == Pick(s)
             r == s \ {p}
  <2>4. p \in S /\ p \in s /\ r \in SUBSET S /\ r \notin F /\ IsFiniteSet(s)
    BY <2>1, <2>2, <2>3, Picked
  <2>5. SumFunctionOnSet(g, s) = g[p] + SumFunctionOnSet(g, r) /\ s \in SUBSET S
    BY <2>1, <2>3, SumStep
  <2> HIDE DEF p
  <2>6. SumFunctionOnSet(f, r \cap T) <= SumFunctionOnSet(g, r)
    BY <2>4
  <2>7. /\ SumFunctionOnSet(g, r) \in Nat /\ g[p] \in Nat
        /\ SumFunctionOnSet(f, r \cap T) \in Nat
    <3>1. IsFiniteSet(r) /\ IsFiniteSet(r \cap T) /\ r \subseteq S /\ r \cap T \subseteq T
      BY <1>0, <2>4
    <3> HIDE DEF r
    <3> QED BY <2>4, <3>1, SumNat
  <2>8. CASE p \in T
    <3>1. r \cap T = (s \cap T) \ {p} /\ p \in s \cap T
      BY <2>4, <2>8
    <3>2. SumFunctionOnSet(f, s \cap T) = f[p] + SumFunctionOnSet(f, (s \cap T) \ {p})
      <4>1. IsFiniteSet(s \cap T) /\ \A x \in s \cap T : f[x] \in Int
        BY <1>0, <2>4, <2>5
      <4> QED BY <3>1, <4>1, SumRemove
    <3>3. SumFunctionOnSet(f, s \cap T) = f[p] + SumFunctionOnSet(f, r \cap T)
      BY <3>1, <3>2, Zenon
    <3>4. f[p] \in Nat /\ f[p] <= g[p]
      BY <2>8
    <3> HIDE DEF r
    <3> QED BY <2>2, <2>5, <2>6, <2>7, <3>3, <3>4
  <2>9. CASE p \notin T
    <3>1. r \cap T = s \cap T
      BY <2>9
    <3> QED BY <2>2, <2>5, <2>6, <2>7, <3>1
  <2> QED BY <2>8, <2>9
<1>2. S \notin F /\ S \cap T = T
  BY <1>1
<1> QED BY <1>2

\* The sum over two sets that have nothing in common.
LEMMA SumUnion ==
  ASSUME NEW f, NEW S, NEW T, IsFiniteSet(S), IsFiniteSet(T), S \cap T = {},
         \A x \in S \cup T : f[x] \in Int
  PROVE  SumFunctionOnSet(f, S \cup T) = SumFunctionOnSet(f, S) + SumFunctionOnSet(f, T)
<1> DEFINE F == {s \in SUBSET T : SumFunctionOnSet(f, S \cup s)
                                   # SumFunctionOnSet(f, S) + SumFunctionOnSet(f, s)}
<1>0. \A s \in SUBSET T : IsFiniteSet(s) /\ IsFiniteSet(S \cup s)
  BY FS_Subset, FS_Union
<1>1. ASSUME F # {} PROVE FALSE
  <2>1. \A s \in F : s \in SUBSET T /\ IsFiniteSet(s)
    BY <1>0
  <2>2. PICK s \in F : \A t \in F : Cardinality(s) <= Cardinality(t)
    BY <1>1, <2>1, Smallest
  <2>3. s # {}
    <3>1. S \cup {} = S /\ SumFunctionOnSet(f, {}) = 0 /\ SumFunctionOnSet(f, S) \in Int
      BY SumEmpty, SumInt
    <3>2. SumFunctionOnSet(f, S \cup {}) = SumFunctionOnSet(f, S) + SumFunctionOnSet(f, {})
      BY <3>1
    <3> QED BY <2>2, <3>2
  <2> DEFINE p == Pick(s)
             r == s \ {p}
  <2>4. p \in T /\ p \in s /\ r \in SUBSET T /\ r \notin F /\ s \in SUBSET T
    <3>1. s \in SUBSET T /\ IsFiniteSet(s)
      BY <2>1, <2>2
    <3>2. p \in s /\ Cardinality(s) \in Nat /\ Cardinality(r) = Cardinality(s) - 1
      BY <2>3, <3>1, Picked
    <3> HIDE DEF F, r
    <3>3. r \notin F
      BY <2>2, <3>2
    <3> QED BY <3>1, <3>2, <3>3 DEF r
  <2> HIDE DEF p
  <2>5. SumFunctionOnSet(f, S \cup r) = SumFunctionOnSet(f, S) + SumFunctionOnSet(f, r)
    BY <2>4
  <2>6. p \notin S \cup r /\ (S \cup r) \cup {p} = S \cup s /\ p \notin r /\ r \cup {p} = s
    BY <2>4
  <2>7. /\ IsFiniteSet(r) /\ IsFiniteSet(S \cup r) /\ f[p] \in Int
        /\ \A x \in (S \cup r) \cup {p} : f[x] \in Int
        /\ \A x \in r \cup {p} : f[x] \in Int
    BY <1>0, <2>4
  <2> HIDE DEF r
  <2>8. /\ SumFunctionOnSet(f, (S \cup r) \cup {p}) = f[p] + SumFunctionOnSet(f, S \cup r)
        /\ SumFunctionOnSet(f, r \cup {p}) = f[p] + SumFunctionOnSet(f, r)
    BY <2>6, <2>7, SumAdd
  <2>9. SumFunctionOnSet(f, S) \in Int /\ SumFunctionOnSet(f, r) \in Int
    BY <2>7, SumInt
  <2>10. SumFunctionOnSet(f, S \cup s) # SumFunctionOnSet(f, S) + SumFunctionOnSet(f, s)
    BY <2>2
  <2>11. /\ SumFunctionOnSet(f, S \cup s) = f[p] + SumFunctionOnSet(f, S \cup r)
         /\ SumFunctionOnSet(f, s) = f[p] + SumFunctionOnSet(f, r)
    BY <2>6, <2>8, Zenon
  <2> QED BY <2>5, <2>7, <2>9, <2>10, <2>11
<1> QED BY <1>1

\* What holds of the empty set, and of one element more whenever it holds of
\* some elements of S, holds of S.
LEMMA OneByOne ==
  ASSUME NEW S, IsFiniteSet(S), NEW T, {} \in T,
         \A s \in SUBSET S, x \in S : s \in T /\ x \notin s => s \cup {x} \in T
  PROVE  S \in T
<1> DEFINE F == {s \in SUBSET S : s \notin T}
<1>1. ASSUME F # {} PROVE FALSE
  <2>1. \A s \in F : s \in SUBSET S /\ IsFiniteSet(s)
    BY FS_Subset
  <2>2. PICK s \in F : \A t \in F : Cardinality(s) <= Cardinality(t)
    <3> HIDE DEF F
    <3> QED BY <1>1, <2>1, Smallest
  <2>3. s \in SUBSET S /\ IsFiniteSet(s) /\ s \notin T /\ s # {}
    BY <2>1, <2>2
  <2> DEFINE p == Pick(s)
             r == s \ {p}
  <2>4. p \in s /\ Cardinality(s) \in Nat /\ Cardinality(r) = Cardinality(s) - 1
    BY <2>3, Picked
  <2> HIDE DEF p
  <2>5. r \in SUBSET S /\ p \in S /\ p \notin r /\ r \cup {p} = s
    BY <2>3, <2>4
  <2> HIDE DEF F, r
  <2>6. r \notin F
    BY <2>2, <2>4
  <2>7. r \in T
    BY <2>5, <2>6 DEF F
  <2> QED BY <2>3, <2>5, <2>7
<1> QED BY <1>1

\* The sum of the sums is the sum of both.
LEMMA SumBoth ==
  ASSUME NEW f, NEW g, NEW h, NEW S, IsFiniteSet(S),
         \A x \in S : f[x] \in Int /\ g[x] \in Int /\ h[x] = f[x] + g[x]
  PROVE  SumFunctionOnSet(h, S) = SumFunctionOnSet(f, S) + SumFunctionOnSet(g, S)
<1> DEFINE T == {s \in SUBSET S : SumFunctionOnSet(h, s)
                                    = SumFunctionOnSet(f, s) + SumFunctionOnSet(g, s)}
<1>1. {} \in T
  BY SumEmpty
<1>2. ASSUME NEW s \in SUBSET S, NEW x \in S, s \in T, x \notin s
      PROVE  s \cup {x} \in T
  <2>1. IsFiniteSet(s) /\ s \cup {x} \in SUBSET S
    BY FS_Subset
  <2>2. \A y \in s \cup {x} : f[y] \in Int /\ g[y] \in Int /\ h[y] \in Int
    BY <2>1
  <2>3. /\ SumFunctionOnSet(f, s \cup {x}) = f[x] + SumFunctionOnSet(f, s)
        /\ SumFunctionOnSet(g, s \cup {x}) = g[x] + SumFunctionOnSet(g, s)
        /\ SumFunctionOnSet(h, s \cup {x}) = h[x] + SumFunctionOnSet(h, s)
    BY <1>2, <2>1, <2>2, SumAdd
  <2>4. SumFunctionOnSet(f, s) \in Int /\ SumFunctionOnSet(g, s) \in Int
    BY <2>1, <2>2, SumInt
  <2>5. SumFunctionOnSet(h, s) = SumFunctionOnSet(f, s) + SumFunctionOnSet(g, s)
    BY <1>2
  <2>6. SumFunctionOnSet(h, s \cup {x}) = SumFunctionOnSet(f, s \cup {x}) + SumFunctionOnSet(g, s \cup {x})
    BY <2>2, <2>3, <2>4, <2>5
  <2> QED BY <2>1, <2>6
<1>3. S \in T
  <2> HIDE DEF T
  <2> QED BY <1>1, <1>2, OneByOne
<1> QED BY <1>3

\* Greater terms have a greater sum.
LEMMA SumAtLeast ==
  ASSUME NEW f, NEW g, NEW S, IsFiniteSet(S),
         \A x \in S : f[x] \in Int /\ g[x] \in Int /\ f[x] <= g[x]
  PROVE  /\ SumFunctionOnSet(f, S) \in Int
         /\ SumFunctionOnSet(g, S) \in Int
         /\ SumFunctionOnSet(f, S) <= SumFunctionOnSet(g, S)
<1> DEFINE h == [x \in S |-> g[x] - f[x]]
<1>1. \A x \in S : h[x] \in Nat /\ f[x] \in Int /\ h[x] \in Int /\ g[x] = f[x] + h[x]
  OBVIOUS
<1> HIDE DEF h
<1>2. SumFunctionOnSet(g, S) = SumFunctionOnSet(f, S) + SumFunctionOnSet(h, S)
  BY <1>1, SumBoth
<1>3. SumFunctionOnSet(f, S) \in Int /\ SumFunctionOnSet(g, S) \in Int /\ SumFunctionOnSet(h, S) \in Nat
  BY <1>1, SumInt, SumNat
<1> QED BY <1>2, <1>3

\* Terms that are 0 do not matter.
LEMMA SumOver ==
  ASSUME NEW f, NEW S, IsFiniteSet(S), NEW T \in SUBSET S,
         \A x \in T : f[x] \in Int, \A x \in S \ T : f[x] = 0
  PROVE  SumFunctionOnSet(f, S) = SumFunctionOnSet(f, T)
<1> DEFINE R == S \ T
<1>1. IsFiniteSet(T) /\ IsFiniteSet(R) /\ T \cap R = {} /\ T \cup R = S
  BY FS_Subset
<1>2. \A x \in R : f[x] = 0
  OBVIOUS
<1> HIDE DEF R
<1>3. \A x \in T \cup R : f[x] \in Int
  BY <1>2
<1>4. SumFunctionOnSet(f, T \cup R) = SumFunctionOnSet(f, T) + SumFunctionOnSet(f, R)
  BY <1>1, <1>3, SumUnion
<1>5. SumFunctionOnSet(f, R) = 0 /\ SumFunctionOnSet(f, T) \in Int
  BY <1>1, <1>2, SumZero, SumInt
<1>6. SumFunctionOnSet(f, T) + 0 = SumFunctionOnSet(f, T)
  BY <1>5
<1> QED BY <1>1, <1>4, <1>5, <1>6, Zenon

\* A multiple of each is a multiple of all.
LEMMA SumTimes ==
  ASSUME NEW f, NEW g, NEW S, IsFiniteSet(S), NEW k \in Int,
         \A x \in S : f[x] \in Int /\ g[x] = k * f[x]
  PROVE  SumFunctionOnSet(f, S) \in Int /\ SumFunctionOnSet(g, S) = k * SumFunctionOnSet(f, S)
<1> DEFINE T == {s \in SUBSET S : SumFunctionOnSet(g, s) = k * SumFunctionOnSet(f, s)}
<1>1. {} \in T
  BY SumEmpty
<1>2. ASSUME NEW s \in SUBSET S, NEW x \in S, s \in T, x \notin s
      PROVE  s \cup {x} \in T
  <2> DEFINE a == f[x]
             b == SumFunctionOnSet(f, s)
  <2>1. IsFiniteSet(s) /\ s \cup {x} \in SUBSET S
    BY FS_Subset
  <2>2. \A y \in S : f[y] \in Int /\ g[y] \in Int
    OBVIOUS
  <2>3. /\ SumFunctionOnSet(f, s \cup {x}) = a + b
        /\ SumFunctionOnSet(g, s \cup {x}) = g[x] + SumFunctionOnSet(g, s)
    BY <1>2, <2>1, <2>2, SumAdd
  <2>4. a \in Int /\ b \in Int /\ g[x] = k * a /\ SumFunctionOnSet(g, s) = k * b
    BY <1>2, <2>1, <2>2, SumInt
  <2> HIDE DEF a, b
  <2>5. k * (a + b) = k * a + k * b
    BY <2>4
  <2> QED BY <2>1, <2>3, <2>4, <2>5
<1>3. S \in T
  <2> HIDE DEF T
  <2> QED BY <1>1, <1>2, OneByOne
<1> QED BY <1>3, SumInt

\* h[u] is the sum of c over what u owns, as g[u] has it.
ByOwner(h, U, c, S, own, g) ==
  /\ \A x \in S : c[x] \in Int /\ own[x] \in U
  /\ \A u \in U, x \in S : g[u][x] = IF own[x] = u THEN c[x] ELSE 0
  /\ \A u \in U : h[u] = SumFunctionOnSet(g[u], S)

\* What is summed up owner by owner is the sum of all.
LEMMA SumByOwner ==
  ASSUME NEW U, IsFiniteSet(U), NEW S, IsFiniteSet(S), NEW c, NEW own, NEW g, NEW h,
         ByOwner(h, U, c, S, own, g)
  PROVE  SumFunctionOnSet(h, U) = SumFunctionOnSet(c, S)
<1>0. /\ \A x \in S : c[x] \in Int /\ own[x] \in U
      /\ \A u \in U, x \in S : g[u][x] = IF own[x] = u THEN c[x] ELSE 0
      /\ \A u \in U : h[u] = SumFunctionOnSet(g[u], S)
  BY Zenon DEF ByOwner
<1> DEFINE Upto(s) == [u \in U |-> SumFunctionOnSet(g[u], s)]
           T == {s \in SUBSET S : SumFunctionOnSet(Upto(s), U) = SumFunctionOnSet(c, s)}
<1>1. {} \in T
  <2>1. \A u \in U : Upto({})[u] = 0
    BY SumEmpty
  <2>2. SumFunctionOnSet(Upto({}), U) = 0 /\ SumFunctionOnSet(c, {}) = 0
    <3> HIDE DEF Upto
    <3> QED BY <2>1, SumZero, SumEmpty
  <2> QED BY <2>2
<1>2. ASSUME NEW s \in SUBSET S, NEW x \in S, s \in T, x \notin s
      PROVE  s \cup {x} \in T
  <2> DEFINE r == s \cup {x}
             a == Upto(s)
             b == Upto(r)
             v == own[x]
  <2>1. IsFiniteSet(s) /\ r \in SUBSET S /\ v \in U /\ c[x] \in Int
    BY <1>0, FS_Subset
  <2>2. ASSUME NEW u \in U
        PROVE  a[u] \in Int /\ b[u] = g[u][x] + a[u] /\ g[u][x] \in Int
    <3>1. \A y \in S : g[u][y] \in Int
      BY <1>0
    <3>2. a[u] = SumFunctionOnSet(g[u], s) /\ b[u] = SumFunctionOnSet(g[u], r)
      OBVIOUS
    <3>3. SumFunctionOnSet(g[u], r) = g[u][x] + SumFunctionOnSet(g[u], s)
      BY <1>2, <2>1, <3>1, SumAdd
    <3>4. SumFunctionOnSet(g[u], s) \in Int
      BY <2>1, <3>1, SumInt
    <3> QED BY <3>1, <3>2, <3>3, <3>4
  <2>3. SumFunctionOnSet(a, U) = SumFunctionOnSet(c, s)
    BY <1>2
  <2> HIDE DEF a, b
  <2>4. g[v][x] = c[x] /\ \A u \in U \ {v} : g[u][x] = 0
    BY <1>0, <2>1
  <2> HIDE DEF v
  <2>5. /\ \A u \in U : a[u] \in Int /\ b[u] \in Int
        /\ \A u \in U \ {v} : b[u] = a[u]
        /\ b[v] - a[v] = c[x]
    <3>1. \A u \in U \ {v} : b[u] = a[u]
      <4> SUFFICES ASSUME NEW u \in U \ {v} PROVE b[u] = a[u]
        OBVIOUS
      <4>1. b[u] = 0 + a[u] /\ a[u] \in Int
        BY <2>2, <2>4
      <4> QED BY <4>1
    <3>2. \A u \in U : a[u] \in Int /\ b[u] \in Int
      BY <2>2
    <3>3. b[v] = c[x] + a[v] /\ a[v] \in Int
      BY <2>1, <2>2, <2>4
    <3> QED BY <2>1, <3>1, <3>2, <3>3
  <2>6. /\ SumFunctionOnSet(a, U) \in Int
        /\ SumFunctionOnSet(b, U) = SumFunctionOnSet(a, U) + (b[v] - a[v])
    BY <2>1, <2>5, SumChange
  <2>7. SumFunctionOnSet(c, r) = c[x] + SumFunctionOnSet(c, s)
    BY <1>0, <1>2, <2>1, SumAdd
  <2>8. SumFunctionOnSet(b, U) = SumFunctionOnSet(c, r)
    BY <2>1, <2>3, <2>5, <2>6, <2>7
  <2> QED BY <2>1, <2>8 DEF b
<1>3. S \in T
  <2> HIDE DEF T
  <2> QED BY <1>1, <1>2, OneByOne
<1>4. SumFunctionOnSet(Upto(S), U) = SumFunctionOnSet(h, U)
  <2> DEFINE a == Upto(S)
  <2>1. \A u \in U : a[u] = h[u]
    BY <1>0
  <2> HIDE DEF a
  <2>2. SumFunctionOnSet(a, U) = SumFunctionOnSet(h, U)
    BY <2>1, SumSame
  <2> QED BY <2>2 DEF a
<1> QED BY <1>3, <1>4
=============================================================================

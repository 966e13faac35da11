----------------------------- MODULE DataProofs -----------------------------
(***************************************************************************)
(* What the other proofs need about data.  Induction over finite sets and  *)
(* over the naturals, as the existence of a minimal counterexample; the    *)
(* folds of the community modules, by the function defined by recursion    *)
(* over the subsets of a finite set that each of them chooses; and the     *)
(* encoder of borsh against its three decoders.                            *)
(***************************************************************************)
EXTENDS BorshCodec, FiniteSetTheorems, SequenceTheorems, TLAPS

\* A set of subsets of a finite set has a minimal element.
LEMMA MinimalSubset ==
  ASSUME NEW D, IsFiniteSet(D), NEW T \in SUBSET SUBSET D, T # {}
  PROVE  \E m \in T : \A k \in T : ~ (k \subseteq m /\ k # m)
<1>1. IsWellFoundedOn(StrictSubsetOrdering(D), SUBSET D)
  BY FS_StrictSubsetOrderingWellFounded, FS_FiniteSubsetsOfFinite
<1>2. \E x \in T : \A y \in T : ~ (<<y, x>> \in StrictSubsetOrdering(D))
  BY <1>1, WFMin
<1> QED
  BY <1>2 DEF StrictSubsetOrdering

\* A set of naturals has a least element.
LEMMA MinimalNat ==
  ASSUME NEW T \in SUBSET Nat, T # {}
  PROVE  \E m \in T : \A k \in T : m <= k
<1>1. PICK n \in T : TRUE
  OBVIOUS
<1> DEFINE U == {0 .. k : k \in {j \in T : j <= n}}
<1>2. IsFiniteSet(0 .. n)
  BY FS_Interval
<1>3. U \in SUBSET SUBSET (0 .. n) /\ U # {}
  OBVIOUS
<1>4. \E u \in U : \A w \in U : ~ (w \subseteq u /\ w # u)
  <2> DEFINE D == 0 .. n
  <2> HIDE DEF U, D
  <2>1. IsFiniteSet(D) /\ U \in SUBSET SUBSET D /\ U # {}
    BY <1>2, <1>3 DEF D
  <2> QED
    BY <2>1, MinimalSubset
<1>5. PICK u \in U : \A w \in U : ~ (w \subseteq u /\ w # u)
  BY <1>4
<1>6. PICK m \in T : m <= n /\ u = 0 .. m
  OBVIOUS
<1>7. ASSUME NEW k \in T, k < m PROVE FALSE
  <2>1. 0 .. k \in U
    BY <1>6, <1>7
  <2>2. 0 .. k \subseteq u /\ 0 .. k # u
    BY <1>6, <1>7
  <2> QED
    BY <1>5, <2>1, <2>2
<1> QED
  BY <1>6, <1>7

-----------------------------------------------------------------------------
(* Recursion over the subsets of a finite set: an element is chosen, the    *)
(* others are folded, and then the element is taken in.                     *)

IsFold(g, U, D, choice, step, base) ==
  \A s \in SUBSET U :
    g[s] = IF s = {} THEN base ELSE step[<<choice[s], g[s \ {choice[s]}]>>]

\* On the sets that both are defined on, two solutions agree.
LEMMA FoldsAgree ==
  ASSUME NEW D, IsFiniteSet(D), NEW choice, NEW step, NEW base,
         \A s \in SUBSET D : s # {} => choice[s] \in s,
         NEW A \in SUBSET D, NEW B \in SUBSET D, NEW g, NEW h,
         IsFold(g, A, D, choice, step, base), IsFold(h, B, D, choice, step, base)
  PROVE  \A s \in SUBSET (A \cap B) : g[s] = h[s]
<1> DEFINE T == {s \in SUBSET (A \cap B) : g[s] # h[s]}
<1> SUFFICES ASSUME T # {} PROVE FALSE
  OBVIOUS
<1>1. T \in SUBSET SUBSET D
  OBVIOUS
<1>2. PICK m \in T : \A k \in T : ~ (k \subseteq m /\ k # m)
  <2> HIDE DEF T
  <2> QED
    BY <1>1, MinimalSubset
<1>3. m \in SUBSET A /\ m \in SUBSET B /\ m \in SUBSET D
  OBVIOUS
<1>4. CASE m = {}
  BY <1>3, <1>4 DEF IsFold
<1>5. CASE m # {}
  <2> DEFINE rest == m \ {choice[m]}
  <2>1. rest \subseteq m /\ rest # m
    BY <1>3, <1>5
  <2>2. g[rest] = h[rest]
    BY <1>2, <2>1
  <2> QED
    BY <1>3, <1>5, <2>2 DEF IsFold
<1> QED
  BY <1>4, <1>5

LEMMA RecursionOnSubsets ==
  ASSUME NEW D, IsFiniteSet(D), NEW V, NEW base \in V,
         NEW choice, NEW step \in [D \X V -> V],
         \A s \in SUBSET D : s # {} => choice[s] \in s
  PROVE  \E g \in [SUBSET D -> V] : IsFold(g, D, D, choice, step, base)
<1> DEFINE Solves(g, U) == g \in [SUBSET U -> V] /\ IsFold(g, U, D, choice, step, base)
           Value(s) == (CHOOSE g : Solves(g, s))[s]
           T == {U \in SUBSET D : ~ \E g : Solves(g, U)}
<1>1. ASSUME NEW U \in SUBSET D,
             \A s \in SUBSET U : s # U => \E g : Solves(g, s)
      PROVE  \E g : Solves(g, U)
  <2> DEFINE new == IF U = {} THEN base ELSE step[<<choice[U], Value(U \ {choice[U]})>>]
             h == [s \in SUBSET U |-> IF s = U THEN new ELSE Value(s)]
  <2>1. ASSUME NEW s \in SUBSET U, s # U
        PROVE  /\ Value(s) \in V
               /\ Value(s) = IF s = {} THEN base ELSE step[<<choice[s], Value(s \ {choice[s]})>>]
    <3> DEFINE gs == CHOOSE g : Solves(g, s)
               r  == s \ {choice[s]}
               gr == CHOOSE g : Solves(g, r)
    <3>1. Solves(gs, s)
      BY <1>1, <2>1
    <3>2. Solves(gr, r)
      <4>1. r \in SUBSET U /\ r # U
        BY <2>1
      <4> QED
        BY <1>1, <4>1
    <3>3. r \subseteq s /\ s \in SUBSET D /\ r \in SUBSET D
      OBVIOUS
    <3>4. gs[r] = gr[r]
      <4> HIDE DEF gs, gr, r
      <4> QED
        BY <3>1, <3>2, <3>3, FoldsAgree
    <3>5. Value(s) = gs[s] /\ Value(r) = gr[r]
      OBVIOUS
    <3>6. gs[s] = IF s = {} THEN base ELSE step[<<choice[s], gs[r]>>]
      BY <3>1 DEF IsFold
    <3>7. gs[s] \in V
      BY <3>1
    <3> HIDE DEF gs, gr, Value
    <3> QED
      BY <3>4, <3>5, <3>6, <3>7
  <2>2. new \in V /\ (U # {} => choice[U] \in U)
    <3>1. CASE U = {}
      BY <3>1
    <3>2. CASE U # {}
      <4>1. choice[U] \in U /\ U \ {choice[U]} \in SUBSET U /\ U \ {choice[U]} # U
        BY <3>2
      <4>2. Value(U \ {choice[U]}) \in V
        BY <2>1, <4>1
      <4> HIDE DEF Value
      <4> QED
        BY <3>2, <4>1, <4>2
    <3> QED
      BY <3>1, <3>2
  <2> HIDE DEF Value
  <2>3. h \in [SUBSET U -> V]
    <3> HIDE DEF new
    <3> QED
      BY <2>1, <2>2
  <2>4. ASSUME NEW s \in SUBSET U
        PROVE  h[s] = IF s = {} THEN base ELSE step[<<choice[s], h[s \ {choice[s]}]>>]
    <3>1. s # {} => /\ choice[s] \in s /\ s \ {choice[s]} \in SUBSET U
                    /\ s \ {choice[s]} # U
      OBVIOUS
    <3>2. s # {} => h[s \ {choice[s]}] = Value(s \ {choice[s]})
      BY <3>1
    <3>3. CASE s = U
      <4>1. h[s] = new
        BY <3>3
      <4> QED
        BY <3>2, <3>3, <4>1
    <3>4. CASE s # U
      <4>1. h[s] = Value(s)
        BY <3>4
      <4> QED
        BY <2>1, <3>2, <3>4, <4>1
    <3> QED
      BY <3>3, <3>4
  <2> QED
    BY <2>3, <2>4 DEF IsFold
<1>2. ASSUME T # {} PROVE FALSE
  <2>1. T \in SUBSET SUBSET D
    OBVIOUS
  <2>2. PICK m \in T : \A k \in T : ~ (k \subseteq m /\ k # m)
    <3> HIDE DEF T
    <3> QED
      BY <1>2, <2>1, MinimalSubset
  <2>3. m \in SUBSET D /\ ~ \E g : Solves(g, m)
    OBVIOUS
  <2>4. \A s \in SUBSET m : s # m => \E g : Solves(g, s)
    BY <2>2, <2>3
  <2> HIDE DEF Solves
  <2> QED
    BY <1>1, <2>3, <2>4
<1> QED
  BY <1>2
-----------------------------------------------------------------------------
(* Sums *)

\* What FoldFunction makes of addition, on a set of indices.
SumOn(f, S) == FoldFunctionOnSet(LAMBDA m, n : m + n, 0, f, S)

Pick(s) == CHOOSE x \in s : TRUE

AreSums(g, f, S) ==
  \A s \in SUBSET S : g[s] = IF s = {} THEN 0 ELSE f[Pick(s)] + g[s \ {Pick(s)}]

\* Sums of functions that agree on a set agree on its subsets.
LEMMA SumsAgree ==
  ASSUME NEW S, IsFiniteSet(S), NEW f, NEW h, \A x \in S : f[x] = h[x],
         NEW A, NEW B, S \subseteq A, S \subseteq B,
         NEW g, NEW k, AreSums(g, f, A), AreSums(k, h, B)
  PROVE  \A s \in SUBSET S : g[s] = k[s]
<1> DEFINE T == {s \in SUBSET S : g[s] # k[s]}
<1> SUFFICES ASSUME T # {} PROVE FALSE
  OBVIOUS
<1>1. T \in SUBSET SUBSET S
  OBVIOUS
<1>2. PICK m \in T : \A l \in T : ~ (l \subseteq m /\ l # m)
  <2> HIDE DEF T
  <2> QED
    BY <1>1, MinimalSubset
<1>3. m \in SUBSET S /\ m \in SUBSET A /\ m \in SUBSET B /\ g[m] # k[m]
  OBVIOUS
<1>4. CASE m = {}
  BY <1>3, <1>4 DEF AreSums
<1>5. CASE m # {}
  <2> DEFINE rest == m \ {Pick(m)}
  <2>1. Pick(m) \in m
    BY <1>5 DEF Pick
  <2>2. rest \subseteq m /\ rest # m /\ f[Pick(m)] = h[Pick(m)]
    BY <1>3, <2>1
  <2>3. g[rest] = k[rest]
    BY <1>2, <2>2
  <2>4. g[m] = f[Pick(m)] + g[rest] /\ k[m] = h[Pick(m)] + k[rest]
    BY <1>3, <1>5 DEF AreSums
  <2> HIDE DEF rest
  <2> QED
    BY <1>3, <2>2, <2>3, <2>4
<1> QED
  BY <1>4, <1>5

LEMMA SumsExist ==
  ASSUME NEW S, IsFiniteSet(S), NEW f, \A x \in S : f[x] \in Int
  PROVE  \E g \in [SUBSET S -> Int] : AreSums(g, f, S) /\ SumOn(f, S) = g[S]
<1> DEFINE choice == [s \in SUBSET S |-> Pick(s)]
           step   == [p \in S \X Int |-> f[p[1]] + p[2]]
           base   == 0
<1>1. \A s \in SUBSET S : s # {} => Pick(s) \in s
  BY DEF Pick
<1>2. step \in [S \X Int -> Int] /\ base \in Int
  OBVIOUS
<1>3. \A s \in SUBSET S : s # {} => choice[s] \in s
  BY <1>1
<1>4. \E g \in [SUBSET S -> Int] : IsFold(g, S, S, choice, step, base)
  <2> HIDE DEF choice, step, base
  <2> QED
    BY <1>2, <1>3, RecursionOnSubsets
<1>5. PICK g \in [SUBSET S -> Int] : IsFold(g, S, S, choice, step, base)
  BY <1>4
<1>6. ASSUME NEW s \in SUBSET S
      PROVE  g[s] = IF s = {} THEN 0 ELSE f[Pick(s)] + g[s \ {Pick(s)}]
  <2>1. g[s] = IF s = {} THEN base ELSE step[<<choice[s], g[s \ {choice[s]}]>>]
    BY <1>5 DEF IsFold
  <2>2. CASE s = {}
    BY <2>1, <2>2
  <2>3. CASE s # {}
    <3>1. Pick(s) \in S /\ s \ {Pick(s)} \in SUBSET S /\ choice[s] = Pick(s)
      BY <1>1, <2>3
    <3>2. g[s \ {Pick(s)}] \in Int
      BY <3>1
    <3> HIDE DEF choice
    <3> QED
      BY <2>1, <2>3, <3>1, <3>2
  <2> QED
    BY <2>2, <2>3
<1> HIDE DEF choice, step, base
<1> DEFINE Rec(h) == [s \in SUBSET S |-> IF s = {} THEN 0
                                         ELSE f[Pick(s)] + h[s \ {Pick(s)}]]
           it == CHOOSE h : h = Rec(h)
<1>7. g = Rec(g)
  BY <1>6
<1>8. it = Rec(it)
  <2> HIDE DEF Rec
  <2> QED
    BY <1>7
<1>9. AreSums(it, f, S) /\ AreSums(g, f, S)
  <2> HIDE DEF it
  <2> QED
    BY <1>6, <1>8 DEF AreSums
<1>10. SumOn(f, S) = it[S]
  BY DEF SumOn, FoldFunctionOnSet, MapThenFoldSet, Pick
<1>11. it[S] = g[S]
  <2> HIDE DEF it
  <2>1. \A s \in SUBSET S : it[s] = g[s]
    <3>1. \A x \in S : f[x] = f[x]
      OBVIOUS
    <3>2. S \subseteq S
      OBVIOUS
    <3> QED
      BY <1>9, <3>1, <3>2, SumsAgree
  <2> QED
    BY <2>1
<1> HIDE DEF it
<1> QED
  BY <1>5, <1>9, <1>10, <1>11

InAnyOrder(g, f, S) == \A s \in SUBSET S : \A x \in s : g[s] = f[x] + g[s \ {x}]

\* A sum does not depend on the order.
LEMMA AnyOrder ==
  ASSUME NEW S, IsFiniteSet(S), NEW f, \A x \in S : f[x] \in Int,
         NEW g \in [SUBSET S -> Int], AreSums(g, f, S)
  PROVE  InAnyOrder(g, f, S)
<1> DEFINE T == {s \in SUBSET S : \E x \in s : g[s] # f[x] + g[s \ {x}]}
<1> SUFFICES ASSUME T # {} PROVE FALSE
  BY DEF InAnyOrder
<1>1. T \in SUBSET SUBSET S
  OBVIOUS
<1>2. PICK m \in T : \A l \in T : ~ (l \subseteq m /\ l # m)
  <2> HIDE DEF T
  <2> QED
    BY <1>1, MinimalSubset
<1>3. PICK x \in m : g[m] # f[x] + g[m \ {x}]
  OBVIOUS
<1> DEFINE y == Pick(m)
           a == m \ {x}
           b == m \ {y}
           c == (m \ {x}) \ {y}
<1>4. m \in SUBSET S /\ y \in m /\ g[m] = f[y] + g[b]
  BY <1>3 DEF AreSums, Pick
<1>5. x # y
  BY <1>3, <1>4
<1>6. a \notin T /\ b \notin T
  BY <1>2, <1>3, <1>4
<1>7. g[a] = f[y] + g[a \ {y}]
  BY <1>4, <1>5, <1>6
<1>8. g[b] = f[x] + g[b \ {x}]
  BY <1>4, <1>5, <1>6
<1>9. a \ {y} = c /\ b \ {x} = c /\ c \in SUBSET S
  BY <1>4
<1>10. g[c] \in Int /\ f[x] \in Int /\ f[y] \in Int
  BY <1>4, <1>9
<1>11. g[m] # f[x] + g[a]
  BY <1>3
<1> HIDE DEF T, y, a, b, c
<1>12. g[a] = f[y] + g[c] /\ g[b] = f[x] + g[c]
  BY <1>7, <1>8, <1>9
<1>13. g[m] = f[y] + (f[x] + g[c])
  BY <1>4, <1>12
<1> QED
  BY <1>10, <1>11, <1>12, <1>13

\* What a sum is without one of its terms.
LEMMA SumRemove ==
  ASSUME NEW S, IsFiniteSet(S), NEW f, \A y \in S : f[y] \in Int, NEW x \in S
  PROVE  /\ SumOn(f, S) \in Int /\ SumOn(f, S \ {x}) \in Int
         /\ SumOn(f, S) = f[x] + SumOn(f, S \ {x})
<1> DEFINE R == S \ {x}
<1>1. IsFiniteSet(R) /\ R \subseteq S /\ \A y \in R : f[y] \in Int
  BY FS_Subset
<1>2. PICK g \in [SUBSET S -> Int] : AreSums(g, f, S) /\ SumOn(f, S) = g[S]
  BY SumsExist
<1>3. PICK h \in [SUBSET R -> Int] : AreSums(h, f, R) /\ SumOn(f, R) = h[R]
  <2> HIDE DEF R
  <2> QED
    BY <1>1, SumsExist
<1>4. g[S] = f[x] + g[R]
  <2>1. InAnyOrder(g, f, S)
    BY <1>2, AnyOrder
  <2> QED
    BY <2>1 DEF InAnyOrder
<1>5. g[R] = h[R]
  <2> HIDE DEF R
  <2> QED
    BY <1>1, <1>2, <1>3, SumsAgree
<1> QED
  BY <1>2, <1>3, <1>4, <1>5

\* Functions that agree on a set have the same sum on it.
LEMMA SumSame ==
  ASSUME NEW S, IsFiniteSet(S), NEW f, \A x \in S : f[x] \in Int,
         NEW h, \A x \in S : f[x] = h[x]
  PROVE  SumOn(f, S) = SumOn(h, S)
<1>1. PICK g \in [SUBSET S -> Int] : AreSums(g, f, S) /\ SumOn(f, S) = g[S]
  BY SumsExist
<1>2. PICK k \in [SUBSET S -> Int] : AreSums(k, h, S) /\ SumOn(h, S) = k[S]
  BY SumsExist
<1> QED
  BY <1>1, <1>2, SumsAgree

LEMMA SumEmpty == ASSUME NEW f PROVE SumOn(f, {}) = 0
<1>1. IsFiniteSet({}) /\ \A x \in {} : f[x] \in Int
  BY FS_EmptySet
<1>2. PICK g \in [SUBSET {} -> Int] : AreSums(g, f, {}) /\ SumOn(f, {}) = g[{}]
  BY <1>1, SumsExist
<1> QED
  BY <1>2 DEF AreSums

\* What one changed term does to a sum.
LEMMA SumChange ==
  ASSUME NEW S, IsFiniteSet(S), NEW f, \A y \in S : f[y] \in Int,
         NEW h, NEW x \in S, h[x] \in Int, \A y \in S \ {x} : h[y] = f[y]
  PROVE  SumOn(h, S) = SumOn(f, S) + h[x] - f[x]
<1> DEFINE R == S \ {x}
<1>1. IsFiniteSet(R) /\ \A y \in S : h[y] \in Int
  BY FS_Subset
<1>2. SumOn(f, S) = f[x] + SumOn(f, R) /\ SumOn(f, R) \in Int
  BY SumRemove
<1>3. SumOn(h, S) = h[x] + SumOn(h, R)
  BY <1>1, SumRemove
<1>4. SumOn(f, R) = SumOn(h, R)
  <2>1. \A y \in R : f[y] \in Int /\ f[y] = h[y]
    OBVIOUS
  <2> HIDE DEF R
  <2> QED
    BY <1>1, <2>1, SumSame
<1> HIDE DEF R
<1> QED
  BY <1>2, <1>3, <1>4

-----------------------------------------------------------------------------
(* Induction and recursion up to a number *)

\* A set of numbers with zero and the successor of each is all of them.
LEMMA UpTo ==
  ASSUME NEW n \in Nat, NEW T, 0 \in T, \A k \in 1 .. n : k - 1 \in T => k \in T
  PROVE  \A k \in 0 .. n : k \in T
<1> DEFINE U == {k \in 0 .. n : k \notin T}
<1> SUFFICES ASSUME U # {} PROVE FALSE
  OBVIOUS
<1>1. PICK m \in U : \A k \in U : m <= k
  <2> U \in SUBSET Nat
    OBVIOUS
  <2> HIDE DEF U
  <2> QED
    BY MinimalNat
<1>2. m \in 1 .. n /\ m - 1 \in 0 .. n /\ m - 1 \notin U
  BY <1>1
<1> QED
  BY <1>1, <1>2

IsRecursion(f, m, V, base, step) ==
  /\ f \in [0 .. m -> V] /\ f[0] = base
  /\ \A k \in 1 .. m : f[k] = step[<<k, f[k - 1]>>]

LEMMA RecursionUpTo ==
  ASSUME NEW n \in Nat, NEW V, NEW base \in V, NEW step \in [(1 .. n) \X V -> V]
  PROVE  \E f : IsRecursion(f, n, V, base, step)
<1> DEFINE Solves(f, m) == IsRecursion(f, m, V, base, step)
           T == {m \in 0 .. n : \E f : Solves(f, m)}
<1>1. 0 \in T
  <2> DEFINE f == [k \in 0 .. 0 |-> base]
  <2>1. f \in [0 .. 0 -> V] /\ f[0] = base /\ 1 .. 0 = {}
    OBVIOUS
  <2> HIDE DEF f
  <2> QED
    BY <2>1 DEF IsRecursion
<1>2. ASSUME NEW m \in 1 .. n, m - 1 \in T PROVE m \in T
  <2>1. PICK f : Solves(f, m - 1)
    BY <1>2
  <2> DEFINE g == [k \in 0 .. m |-> IF k = m THEN step[<<m, f[m - 1]>>] ELSE f[k]]
  <2>2. f[m - 1] \in V /\ step[<<m, f[m - 1]>>] \in V
    <3>1. f[m - 1] \in V
      BY <2>1 DEF IsRecursion
    <3> QED
      BY <3>1
  <2>3. \A k \in 0 .. m : k # m => g[k] = f[k] /\ f[k] \in V
    BY <2>1 DEF IsRecursion
  <2>4. g[m] = step[<<m, f[m - 1]>>]
    OBVIOUS
  <2>5. g \in [0 .. m -> V]
    BY <2>2, <2>3, <2>4
  <2> HIDE DEF g
  <2>6. g[0] = base
    BY <2>1, <2>3 DEF IsRecursion
  <2>7. ASSUME NEW k \in 1 .. m PROVE g[k] = step[<<k, g[k - 1]>>]
    <3>1. g[k - 1] = f[k - 1]
      BY <2>3
    <3>2. CASE k = m
      BY <2>4, <3>1, <3>2
    <3>3. CASE k # m
      <4>1. k \in 1 .. m - 1 /\ g[k] = f[k]
        BY <2>3, <3>3
      <4> QED
        BY <2>1, <3>1, <4>1 DEF IsRecursion
    <3> QED
      BY <3>2, <3>3
  <2> QED
    BY <2>5, <2>6, <2>7 DEF IsRecursion
<1>3. n \in T
  <2> HIDE DEF T
  <2>1. \A k \in 0 .. n : k \in T
    BY <1>1, <1>2, UpTo
  <2> QED
    BY <2>1
<1> QED
  BY <1>3

-----------------------------------------------------------------------------
Byte  == 0 .. 255
ByteStrings == Seq(Byte)

LEMMA ByteIs ==
  ASSUME NEW x \in Byte
  PROVE  x \in Int /\ x \in Nat /\ 0 <= x /\ x < 256
BY DEF Byte

-----------------------------------------------------------------------------
(* Folds over a sequence, from either end *)

LEMMA MaxIs ==
  ASSUME NEW n \in Nat, NEW s \in SUBSET (1 .. n), s # {}
  PROVE  Max(s) \in s /\ \A y \in s : Max(s) >= y
<1> DEFINE T == {n - y : y \in s}
<1>1. PICK m \in T : \A k \in T : m <= k
  <2>1. PICK y \in s : TRUE
    OBVIOUS
  <2>2. n - y \in T
    OBVIOUS
  <2>3. T \in SUBSET Nat
    OBVIOUS
  <2> HIDE DEF T
  <2> QED
    BY <2>2, <2>3, MinimalNat
<1>2. n - m \in s /\ \A y \in s : n - m >= y
  <2>1. PICK x \in s : m = n - x
    BY <1>1
  <2>2. \A y \in s : n - y >= n - x
    BY <1>1, <2>1
  <2> QED
    BY <2>1, <2>2
<1> QED
  BY <1>2 DEF Max

LEMMA MinIs ==
  ASSUME NEW n \in Nat, NEW s \in SUBSET (1 .. n), s # {}
  PROVE  Min(s) \in s /\ \A y \in s : Min(s) <= y
<1>1. PICK m \in s : \A k \in s : m <= k
  <2> s \in SUBSET Nat
    OBVIOUS
  <2> QED
    BY MinimalNat
<1> QED
  BY <1>1 DEF Min

LEMMA Ends ==
  ASSUME NEW n \in Nat, NEW k \in 1 .. n
  PROVE  /\ Max(1 .. k) = k /\ (1 .. k) \ {k} = 1 .. k - 1
         /\ Min(k .. n) = k /\ (k .. n) \ {k} = k + 1 .. n
         /\ 1 .. k \in SUBSET (1 .. n) /\ 1 .. k # {}
         /\ k .. n \in SUBSET (1 .. n) /\ k .. n # {}
<1>1. 1 .. k \in SUBSET (1 .. n) /\ k \in 1 .. k /\ k .. n \in SUBSET (1 .. n) /\ k \in k .. n
  OBVIOUS
<1>2. Max(1 .. k) \in 1 .. k /\ Max(1 .. k) >= k
  BY <1>1, MaxIs
<1>3. Min(k .. n) \in k .. n /\ Min(k .. n) <= k
  BY <1>1, MinIs
<1> QED
  BY <1>1, <1>2, <1>3

\* A function on the subsets of a sequence's domain that FoldLeft can choose.
IsLeftFold(g, n, V, base, step) ==
  /\ g \in [SUBSET (1 .. n) -> V]
  /\ \A s \in SUBSET (1 .. n) :
       g[s] = IF s = {} THEN base ELSE step[<<Max(s), g[s \ {Max(s)}]>>]

LEMMA LeftFold ==
  ASSUME NEW n \in Nat, NEW V, NEW base \in V, NEW step \in [(1 .. n) \X V -> V]
  PROVE  \E g : IsLeftFold(g, n, V, base, step)
<1> DEFINE D == 1 .. n
           choice == [s \in SUBSET D |-> Max(s)]
<1>1. \A s \in SUBSET D : s # {} => choice[s] \in s
  BY MaxIs
<1>2. IsFiniteSet(D)
  BY FS_Interval
<1>3. \E g \in [SUBSET D -> V] : IsFold(g, D, D, choice, step, base)
  <2> step \in [D \X V -> V]
    OBVIOUS
  <2> HIDE DEF choice, D
  <2> QED
    BY <1>1, <1>2, RecursionOnSubsets
<1>4. \A s \in SUBSET D : choice[s] = Max(s)
  OBVIOUS
<1> HIDE DEF choice
<1> QED
  BY <1>3, <1>4 DEF IsFold, IsLeftFold

Unfolds(it, n, V, base, step) ==
  /\ it[{}] = base
  /\ \A s \in SUBSET (1 .. n) :
       s # {} /\ it[s \ {Max(s)}] \in V => it[s] = step[<<Max(s), it[s \ {Max(s)}]>>]

Steps(h, n, V, base, step) ==
  /\ h \in [0 .. n -> V] /\ h[0] = base
  /\ \A k \in 1 .. n : h[k] = step[<<k, h[k - 1]>>]

\* A function that follows a fold's steps is the fold.
LEMMA FoldSteps ==
  ASSUME NEW n \in Nat, NEW V, NEW base, NEW step, NEW it, NEW h,
         Unfolds(it, n, V, base, step), Steps(h, n, V, base, step)
  PROVE  it[1 .. n] = h[n]
<1> DEFINE T == {k \in 0 .. n : it[1 .. k] = h[k]}
<1>1. 0 \in T
  <2>1. 1 .. 0 = {} /\ 0 \in 0 .. n
    OBVIOUS
  <2> QED
    BY <2>1 DEF Unfolds, Steps
<1>2. ASSUME NEW k \in 1 .. n, k - 1 \in T PROVE k \in T
  <2>1. /\ Max(1 .. k) = k /\ (1 .. k) \ {k} = 1 .. k - 1
        /\ 1 .. k \in SUBSET (1 .. n) /\ 1 .. k # {}
    BY Ends
  <2>2. it[1 .. k - 1] = h[k - 1] /\ k - 1 \in 0 .. n /\ k \in 0 .. n
    BY <1>2
  <2>3. h[k - 1] \in V
    BY <2>2 DEF Steps
  <2>4. it[1 .. k] = step[<<k, it[1 .. k - 1]>>]
    BY <2>1, <2>2, <2>3 DEF Unfolds
  <2>5. h[k] = step[<<k, h[k - 1]>>]
    BY DEF Steps
  <2> QED
    BY <2>2, <2>4, <2>5
<1>3. n \in 0 .. n
  OBVIOUS
<1> HIDE DEF T
<1>4. n \in T
  BY <1>1, <1>2, <1>3, UpTo
<1> QED
  BY <1>4 DEF T

\* The same of FoldRight.
IsRightFold(g, n, V, base, step) ==
  /\ g \in [SUBSET (1 .. n) -> V]
  /\ \A s \in SUBSET (1 .. n) :
       g[s] = IF s = {} THEN base ELSE step[<<Min(s), g[s \ {Min(s)}]>>]

LEMMA RightFold ==
  ASSUME NEW n \in Nat, NEW V, NEW base \in V, NEW step \in [(1 .. n) \X V -> V]
  PROVE  \E g : IsRightFold(g, n, V, base, step)
<1> DEFINE D == 1 .. n
           choice == [s \in SUBSET D |-> Min(s)]
<1>1. \A s \in SUBSET D : s # {} => choice[s] \in s
  BY MinIs
<1>2. IsFiniteSet(D)
  BY FS_Interval
<1>3. \E g \in [SUBSET D -> V] : IsFold(g, D, D, choice, step, base)
  <2> step \in [D \X V -> V]
    OBVIOUS
  <2> HIDE DEF choice, D
  <2> QED
    BY <1>1, <1>2, RecursionOnSubsets
<1>4. \A s \in SUBSET D : choice[s] = Min(s)
  OBVIOUS
<1> HIDE DEF choice
<1> QED
  BY <1>3, <1>4 DEF IsFold, IsRightFold

-----------------------------------------------------------------------------
(* Numbers *)

\* The quotients that ToLeBytes goes through.
IsDigits(rest, v, w) ==
  /\ rest \in [0 .. w -> Int] /\ rest[0] = v
  /\ \A k \in 1 .. w : rest[k] = rest[k - 1] \div 256

LEMMA ToLeBytesIs ==
  ASSUME NEW v \in Int, NEW w \in Nat
  PROVE  \E rest : /\ IsDigits(rest, v, w)
                   /\ ToLeBytes(v, w) = [k \in 1 .. w |-> rest[k - 1] % 256]
<1> DEFINE step == [p \in (1 .. w) \X Int |-> p[2] \div 256]
<1>1. step \in [(1 .. w) \X Int -> Int]
  OBVIOUS
<1>2. \E g : IsRecursion(g, w, Int, v, step)
  <2> HIDE DEF step
  <2> QED
    BY <1>1, RecursionUpTo
<1>20. PICK g \in [0 .. w -> Int] : g[0] = v /\ \A k \in 1 .. w : g[k] = step[<<k, g[k - 1]>>]
  <2> HIDE DEF step
  <2> QED
    BY <1>2 DEF IsRecursion
<1>3. \A k \in 1 .. w : g[k] = g[k - 1] \div 256
  <2> TAKE k \in 1 .. w
  <2>1. g[k - 1] \in Int
    OBVIOUS
  <2>2. step[<<k, g[k - 1]>>] = g[k - 1] \div 256
    BY <2>1
  <2> QED
    BY <1>20, <2>2
<1> DEFINE Rec(h) == [k \in 0 .. w |-> IF k = 0 THEN v ELSE h[k - 1] \div 256]
           it == CHOOSE h : h = Rec(h)
<1>4. g = Rec(g)
  BY <1>20, <1>3
<1>5. it = Rec(it)
  <2> HIDE DEF Rec
  <2> QED
    BY <1>4
<1>6. ToLeBytes(v, w) = [k \in 1 .. w |-> it[k - 1] % 256]
  BY DEF ToLeBytes
<1> HIDE DEF it
<1>7. it[0] = v /\ \A k \in 1 .. w : it[k] = it[k - 1] \div 256
  BY <1>5
<1>8. \A k \in 0 .. w : it[k] = g[k]
  <2> DEFINE T == {k \in 0 .. w : it[k] = g[k]}
  <2>1. 0 \in T
    BY <1>20, <1>7
  <2>2. \A k \in 1 .. w : k - 1 \in T => k \in T
    BY <1>3, <1>7
  <2>3. \A k \in 0 .. w : k \in T
    <3> HIDE DEF T
    <3> QED
      BY <2>1, <2>2, UpTo
  <2> QED
    BY <2>3
<1>9. it \in [0 .. w -> Int]
  BY <1>5, <1>8
<1> QED
  BY <1>6, <1>7, <1>9 DEF IsDigits

\* What FromLeBytes has made of the bytes above k.
IsValue(h, b, signed) ==
  /\ h \in [0 .. Len(b) -> Int]
  /\ h[Len(b)] = IF signed /\ b[Len(b)] > 127 THEN -1 ELSE 0
  /\ \A k \in 1 .. Len(b) : h[k - 1] = h[k] * 256 + b[k]

LEMMA FromLeBytesIs ==
  ASSUME NEW b \in ByteStrings, NEW signed \in BOOLEAN, Len(b) > 0
  PROVE  \E h : IsValue(h, b, signed) /\ FromLeBytes(b, signed) = h[0]
<1> DEFINE w == Len(b)
           base == IF signed /\ b[Len(b)] > 127 THEN -1 ELSE 0
           step == [p \in (1 .. w) \X Int |-> p[2] * 256 + b[p[1]]]
<1>0. w \in Nat /\ DOMAIN b = 1 .. w /\ \A k \in 1 .. w : b[k] \in Byte
  BY ElementOfSeq DEF ByteStrings
<1>1. step \in [(1 .. w) \X Int -> Int] /\ base \in Int
  <2>1. ASSUME NEW p \in (1 .. w) \X Int PROVE p[2] * 256 + b[p[1]] \in Int
    <3>1. p[1] \in 1 .. w /\ p[2] \in Int
      OBVIOUS
    <3>2. b[p[1]] \in Int
      BY <1>0, <3>1 DEF Byte
    <3> QED
      BY <3>1, <3>2
  <2>2. base \in Int
    OBVIOUS
  <2> QED
    BY <2>1, <2>2
<1>2. \E g : IsRightFold(g, w, Int, base, step)
  <2> HIDE DEF step, w, base
  <2> QED
    BY <1>0, <1>1, RightFold
<1>20. PICK g : IsRightFold(g, w, Int, base, step)
  BY <1>2
<1>3. ASSUME NEW s \in SUBSET (1 .. w)
      PROVE  g[s] = IF s = {} THEN base ELSE g[s \ {Min(s)}] * 256 + b[Min(s)]
  <2>1. s # {} => Min(s) \in 1 .. w /\ g[s \ {Min(s)}] \in Int
    BY <1>0, <1>20, MinIs DEF IsRightFold
  <2>2. s # {} => step[<<Min(s), g[s \ {Min(s)}]>>] = g[s \ {Min(s)}] * 256 + b[Min(s)]
    BY <2>1
  <2> HIDE DEF step, base
  <2> QED
    BY <1>20, <2>2 DEF IsRightFold
<1> HIDE DEF step
<1> DEFINE Rec(f) == [s \in SUBSET DOMAIN b |->
                        IF s = {} THEN base ELSE f[s \ {Min(s)}] * 256 + b[Min(s)]]
           it == CHOOSE f : f = Rec(f)
<1>4. g = Rec(g)
  <2>1. g = [s \in SUBSET (1 .. w) |-> g[s]] /\ DOMAIN b = 1 .. w
    BY <1>0, <1>20 DEF IsRightFold
  <2> HIDE DEF base, w
  <2> QED
    BY <1>3, <2>1
<1>5. it = Rec(it)
  <2> HIDE DEF Rec
  <2> QED
    BY <1>4
<1>6. FromLeBytes(b, signed) = it[DOMAIN b]
  BY DEF FromLeBytes, FoldRight, MapThenFoldSet
<1> HIDE DEF it
<1>7. it[{}] = base /\ \A s \in SUBSET (1 .. w) : s # {} => it[s] = it[s \ {Min(s)}] * 256 + b[Min(s)]
  <2> HIDE DEF base
  <2> QED
    BY <1>0, <1>5
<1> DEFINE h == [k \in 0 .. w |-> it[k + 1 .. w]]
<1>8. h[0] = it[DOMAIN b]
  BY <1>0
<1>9. h[w] = base
  <2>1. w + 1 .. w = {}
    BY <1>0
  <2> HIDE DEF base
  <2> QED
    BY <1>0, <1>7, <2>1
<1>10. ASSUME NEW k \in 1 .. w PROVE h[k - 1] = h[k] * 256 + b[k]
  <2>1. Min(k .. w) = k /\ (k .. w) \ {k} = k + 1 .. w /\ k .. w \in SUBSET (1 .. w) /\ k .. w # {}
    BY <1>0, Ends
  <2> DEFINE s == k .. w
  <2>4. Min(s) = k /\ s \ {k} = k + 1 .. w /\ s \in SUBSET (1 .. w) /\ s # {}
    BY <2>1
  <2> HIDE DEF s, h
  <2>5. it[s] = it[s \ {Min(s)}] * 256 + b[Min(s)]
    BY <1>7, <2>4
  <2>2. it[k .. w] = it[k + 1 .. w] * 256 + b[k]
    <3>1. it[s \ {Min(s)}] = it[k + 1 .. w] /\ b[Min(s)] = b[k]
      BY <2>4
    <3> QED
      BY <2>5, <3>1 DEF s
  <2> USE DEF h
  <2>3. h[k - 1] = it[k .. w] /\ h[k] = it[k + 1 .. w]
    BY <1>0
  <2> QED
    BY <2>2, <2>3
<1>11. h \in [0 .. w -> Int]
  <2> DEFINE T == {j \in 0 .. w : h[w - j] \in Int}
  <2>1. 0 \in T
    <3> HIDE DEF h
    <3> QED
      BY <1>0, <1>1, <1>9
  <2>2. ASSUME NEW j \in 1 .. w, j - 1 \in T PROVE j \in T
    <3>1. PICK i \in 1 .. w : i = w - j + 1
      BY <1>0
    <3>2. w - (j - 1) = i /\ i - 1 = w - j
      BY <1>0, <3>1
    <3>3. h[i - 1] = h[i] * 256 + b[i] /\ b[i] \in Int
      <4>1. b[i] \in Byte
        BY <1>0
      <4> HIDE DEF h, w
      <4>2. h[i - 1] = h[i] * 256 + b[i]
        BY <1>10
      <4>3. b[i] \in Int
        BY Zenon, <4>1, ByteIs
      <4> QED
        BY <4>2, <4>3
    <3> HIDE DEF h
    <3>4. h[w - j] \in Int
      BY <2>2, <3>2, <3>3
    <3> QED
      BY <3>4
  <2>3. \A j \in 0 .. w : j \in T
    <3> HIDE DEF T
    <3> QED
      BY <1>0, <2>1, <2>2, UpTo
  <2>4. ASSUME NEW k \in 0 .. w PROVE h[k] \in Int
    <3>1. w - k \in 0 .. w /\ w - (w - k) = k
      BY <1>0
    <3> HIDE DEF h
    <3> QED
      BY <2>3, <3>1
  <2>5. h = [k \in 0 .. w |-> h[k]]
    OBVIOUS
  <2> HIDE DEF h
  <2> QED
    BY <2>4, <2>5
<1> HIDE DEF h
<1> QED
  BY <1>6, <1>8, <1>9, <1>10, <1>11 DEF IsValue

LEMMA QuotRem ==
  ASSUME NEW x \in Int, NEW y \in Int, 0 <= y, y < 256
  PROVE  (x * 256 + y) \div 256 = x /\ (x * 256 + y) % 256 = y
OBVIOUS

LEMMA RemIs ==
  ASSUME NEW x \in Int
  PROVE  x % 256 \in Byte
BY DEF Byte

\* Writing what was read gives the bytes back, whatever they are.
LEMMA ReadThenWritten ==
  ASSUME NEW b \in ByteStrings, NEW signed \in BOOLEAN, Len(b) > 0
  PROVE  LET v == FromLeBytes(b, signed)
         IN  v \in Int /\ (signed \/ v \in Nat) /\ ToLeBytes(v, Len(b)) = b
<1> DEFINE w == Len(b)  v == FromLeBytes(b, signed)
<1>1. PICK h : IsValue(h, b, signed) /\ v = h[0]
  BY FromLeBytesIs
<1>2. w \in Nat /\ w > 0
  BY DEF ByteStrings
<1>3. ASSUME NEW k \in 1 .. w PROVE b[k] \in Byte /\ b[k] \in Int /\ 0 <= b[k] /\ b[k] < 256
  <2>1. b[k] \in Byte
    BY ElementOfSeq DEF ByteStrings
  <2> QED
    BY Zenon, <2>1, ByteIs
<1>4. /\ \A k \in 0 .. w : h[k] \in Int
      /\ h[w] \in {-1, 0} /\ (~ signed => h[w] = 0)
      /\ \A k \in 1 .. w : h[k - 1] = h[k] * 256 + b[k]
  BY <1>1 DEF IsValue
<1> HIDE DEF w
<1>5. h[0] \in Int
  BY <1>2, <1>4
<1>6. ~ signed => h[0] \in Nat
  <2> SUFFICES ASSUME ~ signed PROVE h[0] \in Nat
    OBVIOUS
  <2> DEFINE T == {j \in 0 .. w : h[w - j] \in Nat}
  <2>1. 0 \in T
    BY <1>2, <1>4
  <2>2. ASSUME NEW j \in 1 .. w, j - 1 \in T PROVE j \in T
    <3>1. PICK i \in 1 .. w : i = w - j + 1
      BY <1>2
    <3>2. w - (j - 1) = i /\ i - 1 = w - j
      BY <1>2, <3>1
    <3>3. h[i - 1] = h[i] * 256 + b[i] /\ b[i] \in Int /\ 0 <= b[i] /\ h[i] \in Nat
      BY <1>3, <1>4, <2>2, <3>2
    <3>4. h[w - j] \in Nat
      BY <3>2, <3>3
    <3> QED
      BY <3>4
  <2>3. w \in T
    <3>1. \A j \in 0 .. w : j \in T
      <4> HIDE DEF T
      <4> QED
        BY <1>2, <2>1, <2>2, UpTo
    <3> QED
      BY <1>2, <3>1
  <2> QED
    BY <1>2, <2>3
<1>7. PICK rest : IsDigits(rest, v, w) /\ ToLeBytes(v, w) = [k \in 1 .. w |-> rest[k - 1] % 256]
  <2>1. v \in Int
    BY <1>1, <1>5
  <2> HIDE DEF v
  <2> QED
    BY <1>2, <2>1, ToLeBytesIs
<1>8. \A k \in 0 .. w : rest[k] = h[k]
  <2> DEFINE T == {k \in 0 .. w : rest[k] = h[k]}
  <2>1. 0 \in T
    BY <1>1, <1>2, <1>7 DEF IsDigits
  <2>2. ASSUME NEW k \in 1 .. w, k - 1 \in T PROVE k \in T
    <3>1. rest[k] = rest[k - 1] \div 256 /\ rest[k - 1] = h[k - 1] /\ k \in 0 .. w
      BY <1>2, <1>7, <2>2 DEF IsDigits
    <3>2. h[k - 1] = h[k] * 256 + b[k] /\ h[k] \in Int
      BY <1>2, <1>4
    <3>3. (h[k] * 256 + b[k]) \div 256 = h[k]
      <4> DEFINE x == h[k]  y == b[k]
      <4>1. x \in Int /\ y \in Int /\ 0 <= y /\ y < 256
        BY <1>3, <3>2
      <4> HIDE DEF x, y
      <4>2. (x * 256 + y) \div 256 = x
        BY <4>1, QuotRem
      <4> QED
        BY <4>2 DEF x, y
    <3> QED
      BY <3>1, <3>2, <3>3
  <2>3. \A k \in 0 .. w : k \in T
    <3> HIDE DEF T
    <3> QED
      BY <1>2, <2>1, <2>2, UpTo
  <2> QED
    BY <2>3
<1>9. ASSUME NEW k \in 1 .. w PROVE rest[k - 1] % 256 = b[k]
  <2>1. k - 1 \in 0 .. w /\ k \in 0 .. w
    BY <1>2
  <2>2. rest[k - 1] = h[k] * 256 + b[k] /\ h[k] \in Int
    BY <1>4, <1>8, <2>1
  <2>3. (h[k] * 256 + b[k]) % 256 = b[k]
    <3>1. b[k] \in Int /\ 0 <= b[k] /\ b[k] < 256 /\ h[k] \in Int
      BY <1>3, <2>2
    <3> HIDE DEF w, v
    <3> QED
      BY <3>1, QuotRem
  <2> QED
    BY <2>2, <2>3
<1>10. b = [k \in 1 .. w |-> b[k]]
  BY DEF ByteStrings, w
<1>11. ToLeBytes(v, w) = b
  <2> HIDE DEF v
  <2> QED
    BY <1>7, <1>9, <1>10
<1> QED
  BY <1>1, <1>5, <1>6, <1>11 DEF w

\* What is left of a number is one of the quotients.
LEMMA HighestIs ==
  ASSUME NEW v \in Int, NEW w \in Nat \ {0}, NEW rest, IsDigits(rest, v, w)
  PROVE  Highest(v, w) = rest[w - 1]
<1> DEFINE Rec(h) == [k \in 0 .. w - 1 |-> IF k = 0 THEN v ELSE h[k - 1] \div 256]
           it == CHOOSE h : h = Rec(h)
           g  == [k \in 0 .. w - 1 |-> rest[k]]
<1>1. g = Rec(g)
  BY DEF IsDigits
<1>2. it = Rec(it)
  <2> HIDE DEF Rec, g
  <2> QED
    BY <1>1
<1>3. Highest(v, w) = it[w - 1]
  BY DEF Highest
<1> HIDE DEF it
<1>4. \A k \in 0 .. w - 1 : it[k] = rest[k]
  <2> DEFINE T == {k \in 0 .. w - 1 : it[k] = rest[k]}
  <2>1. 0 \in T
    BY <1>2 DEF IsDigits
  <2>2. \A k \in 1 .. w - 1 : k - 1 \in T => k \in T
    BY <1>2 DEF IsDigits
  <2>3. \A k \in 0 .. w - 1 : k \in T
    <3>1. w - 1 \in Nat
      OBVIOUS
    <3> HIDE DEF T
    <3> QED
      BY <2>1, <2>2, <3>1, UpTo
  <2> QED
    BY <2>3
<1> QED
  BY <1>3, <1>4

\* A number's bytes.
LEMMA BytesOfNumber ==
  ASSUME NEW v \in Int, NEW w \in Nat
  PROVE  ToLeBytes(v, w) \in ByteStrings /\ Len(ToLeBytes(v, w)) = w
<1>1. PICK rest : IsDigits(rest, v, w) /\ ToLeBytes(v, w) = [k \in 1 .. w |-> rest[k - 1] % 256]
  BY ToLeBytesIs
<1>2. \A k \in 1 .. w : rest[k - 1] % 256 \in Byte
  <2> TAKE k \in 1 .. w
  <2>1. rest[k - 1] \in Int
    BY <1>1 DEF IsDigits
  <2> QED
    BY <2>1, RemIs
<1> DEFINE b == [k \in 1 .. w |-> rest[k - 1] % 256]
<1>3. b \in ByteStrings /\ Len(b) = w
  BY <1>2 DEF ByteStrings
<1> QED
  BY <1>1, <1>3

\* Reading what was written gives a number back that has as many bytes.
LEMMA WrittenThenRead ==
  ASSUME NEW v, NEW w \in Nat \ {0}, NEW signed \in BOOLEAN, InWidth(v, w, signed)
  PROVE  FromLeBytes(ToLeBytes(v, w), signed) = v
<1>1. v \in Int /\ Highest(v, w) \in IF signed THEN -128 .. 127 ELSE 0 .. 255
  BY DEF InWidth
<1>2. PICK rest : IsDigits(rest, v, w) /\ ToLeBytes(v, w) = [k \in 1 .. w |-> rest[k - 1] % 256]
  BY <1>1, ToLeBytesIs
<1> DEFINE b == ToLeBytes(v, w)
<1>3. b \in ByteStrings /\ Len(b) = w
  BY <1>1, BytesOfNumber
<1>4. \A k \in 1 .. w : b[k] = rest[k - 1] % 256
  BY <1>2
<1> HIDE DEF b
<1>5. PICK h : IsValue(h, b, signed) /\ FromLeBytes(b, signed) = h[0]
  BY <1>3, FromLeBytesIs
<1>6. rest[w - 1] \in IF signed THEN -128 .. 127 ELSE 0 .. 255
  BY <1>1, <1>2, HighestIs
<1>7. h[w] = rest[w]
  <2>1. rest[w] = rest[w - 1] \div 256 /\ b[w] = rest[w - 1] % 256 /\ rest[w - 1] \in Int
    BY <1>2, <1>4 DEF IsDigits
  <2>2. h[w] = IF signed /\ b[w] > 127 THEN -1 ELSE 0
    BY <1>3, <1>5 DEF IsValue
  <2> QED
    BY <1>6, <2>1, <2>2
<1>8. h[0] = rest[0]
  <2> DEFINE T == {j \in 0 .. w : h[w - j] = rest[w - j]}
  <2>1. 0 \in T
    BY <1>7
  <2>2. ASSUME NEW j \in 1 .. w, j - 1 \in T PROVE j \in T
    <3>1. PICK i \in 1 .. w : i = w - j + 1
      OBVIOUS
    <3>2. w - (j - 1) = i /\ i - 1 = w - j
      BY <3>1
    <3>3. h[i - 1] = h[i] * 256 + b[i] /\ h[i] = rest[i]
      BY <1>3, <1>5, <2>2, <3>2 DEF IsValue
    <3>4. rest[i] = rest[i - 1] \div 256 /\ b[i] = rest[i - 1] % 256 /\ rest[i - 1] \in Int
      BY <1>2, <1>4 DEF IsDigits
    <3>5. h[i - 1] = rest[i - 1]
      BY <3>3, <3>4
    <3> QED
      BY <3>2, <3>5
  <2>3. w \in T
    <3>1. \A j \in 0 .. w : j \in T
      <4> HIDE DEF T
      <4> QED
        BY <2>1, <2>2, UpTo
    <3> QED
      BY <3>1
  <2> QED
    BY <2>3
<1> QED
  BY <1>2, <1>5, <1>8 DEF IsDigits, b

\* A count is never negative when it is read.
LEMMA CountFits ==
  ASSUME NEW n \in Nat, n <= MaxCount
  PROVE  InWidth(n, 4, TRUE)
<1>1. PICK rest : /\ IsDigits(rest, n, 4)
                  /\ ToLeBytes(n, 4) = [k \in 1 .. 4 |-> rest[k - 1] % 256]
  <2>1. n \in Int /\ 4 \in Nat
    OBVIOUS
  <2> QED
    BY <2>1, ToLeBytesIs
<1>2. rest[0] = n /\ rest[1] = rest[0] \div 256 /\ rest[2] = rest[1] \div 256
      /\ rest[3] = rest[2] \div 256
  BY <1>1 DEF IsDigits
<1>3. n <= 2147483647
  BY DEF MaxCount
<1>4. rest[1] \in Nat /\ rest[1] <= 8388607
  BY <1>2, <1>3
<1>5. rest[2] \in Nat /\ rest[2] <= 32767
  BY <1>2, <1>4
<1>6. rest[3] \in 0 .. 127
  BY <1>2, <1>5
<1>7. Highest(n, 4) = rest[3]
  BY <1>1, HighestIs
<1> QED
  BY <1>6, <1>7 DEF InWidth

-----------------------------------------------------------------------------
(* Pieces of sequences *)

LEMMA PieceIs ==
  ASSUME NEW S, NEW data \in Seq(S), NEW p \in Nat, NEW q \in Nat, p <= q, q <= Len(data)
  PROVE  /\ SubSeq(data, p + 1, q) \in Seq(S)
         /\ Len(SubSeq(data, p + 1, q)) = q - p
         /\ \A i \in 1 .. q - p : SubSeq(data, p + 1, q)[i] = data[p + i]
<1>1. \A i \in p + 1 .. q : data[i] \in S
  <2> TAKE i \in p + 1 .. q
  <2>1. i \in 1 .. Len(data)
    BY LenProperties
  <2> QED
    BY <2>1, ElementOfSeq
<1>2. p + 1 \in Int /\ q \in Int
  OBVIOUS
<1>3. /\ SubSeq(data, p + 1, q) \in Seq(S)
      /\ Len(SubSeq(data, p + 1, q)) = IF p + 1 <= q THEN q - (p + 1) + 1 ELSE 0
      /\ \A i \in 1 .. q - (p + 1) + 1 : SubSeq(data, p + 1, q)[i] = data[(p + 1) + i - 1]
  BY <1>1, <1>2, SubSeqProperties
<1> QED
  BY <1>3

LEMMA Pieces ==
  ASSUME NEW S, NEW data \in Seq(S), NEW p \in Nat, NEW q \in Nat, p <= q, q <= Len(data)
  PROVE  SubSeq(data, 1, p) \o SubSeq(data, p + 1, q) = SubSeq(data, 1, q)
<1>1. 1 \in 1 .. Len(data) + 1 /\ p \in 1 - 1 .. Len(data) /\ q \in p .. Len(data)
  BY LenProperties
<1> QED
  BY <1>1, ConcatAdjacentSubSeq

\* The concatenations of the first few of a sequence of sequences.
IsFlat(f, seqs, S) ==
  /\ f \in [0 .. Len(seqs) -> Seq(S)] /\ f[0] = <<>>
  /\ \A k \in 1 .. Len(seqs) : f[k] = f[k - 1] \o seqs[k]

LEMMA FlattenIs ==
  ASSUME NEW S, NEW seqs \in Seq(Seq(S))
  PROVE  \E f : IsFlat(f, seqs, S) /\ FlattenSeq(seqs) = f[Len(seqs)]
<1> DEFINE n == Len(seqs)  V == Seq(S)
           step == [p \in (1 .. n) \X V |-> p[2] \o seqs[p[1]]]
           base == <<>>
<1>1. n \in Nat /\ base \in V /\ \A k \in 1 .. n : seqs[k] \in V
  BY ElementOfSeq, LenProperties, EmptySeq
<1>2. step \in [(1 .. n) \X V -> V]
  <2>1. ASSUME NEW p \in (1 .. n) \X V PROVE p[2] \o seqs[p[1]] \in V
    <3>1. p[1] \in 1 .. n /\ p[2] \in V
      OBVIOUS
    <3> QED
      BY <1>1, <3>1, ConcatProperties
  <2> QED
    BY <2>1
<1>3. \E g : IsRecursion(g, n, V, base, step)
  <2> HIDE DEF n, V, step, base
  <2> QED
    BY <1>1, <1>2, RecursionUpTo
<1>4. PICK g : IsRecursion(g, n, V, base, step)
  BY <1>3
<1>5. g \in [0 .. n -> V] /\ g[0] = base
  BY <1>4 DEF IsRecursion
<1>6. ASSUME NEW k \in 1 .. n PROVE g[k] = g[k - 1] \o seqs[k]
  <2>1. g[k] = step[<<k, g[k - 1]>>] /\ g[k - 1] \in V
    <3> HIDE DEF step, V, n
    <3> QED
      BY <1>1, <1>4 DEF IsRecursion
  <2>2. step[<<k, g[k - 1]>>] = g[k - 1] \o seqs[k]
    <3> HIDE DEF V
    <3> QED
      BY <2>1
  <2> HIDE DEF step
  <2> QED
    BY <2>1, <2>2
<1>60. n # 0 => g[1] = seqs[1]
  <2> SUFFICES ASSUME n # 0 PROVE g[1] = seqs[1]
    OBVIOUS
  <2>1. PICK j \in 1 .. n : j = 1
    BY <1>1
  <2>2. g[j] = g[j - 1] \o seqs[j] /\ seqs[j] \in V
    BY <1>1, <1>6
  <2>3. j - 1 = 0
    BY <2>1
  <2>4. g[j] = <<>> \o seqs[j]
    BY <1>5, <2>2, <2>3
  <2> QED
    BY <2>1, <2>2, <2>4, ConcatEmptySeq
<1>7. IsFlat(g, seqs, S)
  BY <1>5, <1>6 DEF IsFlat
<1> HIDE DEF step
<1>8. CASE n = 0
  <2>1. FlattenSeq(seqs) = seqs /\ seqs = <<>>
    BY <1>8, EmptySeq DEF FlattenSeq
  <2> QED
    BY <1>5, <1>7, <1>8, <2>1
<1>9. CASE n # 0
  <2> DEFINE Rec(h) == [i \in 1 .. n |-> IF i = 1 THEN seqs[i] ELSE h[i - 1] \o seqs[i]]
             it == CHOOSE h : h = Rec(h)
             h  == [i \in 1 .. n |-> g[i]]
  <2>1. h = Rec(h)
    <3>1. ASSUME NEW i \in 1 .. n
          PROVE  g[i] = IF i = 1 THEN seqs[i] ELSE h[i - 1] \o seqs[i]
      <4>1. CASE i = 1
        BY <1>9, <1>60, <4>1
      <4>2. CASE i # 1
        <5>1. i - 1 \in 1 .. n
          BY <1>1, <4>2
        <5>2. h[i - 1] = g[i - 1]
          BY <5>1
        <5> HIDE DEF h
        <5> QED
          BY <1>6, <4>2, <5>2
      <4> QED
        BY <4>1, <4>2
    <3> QED
      BY <3>1
  <2>2. it = Rec(it)
    <3> HIDE DEF Rec, h
    <3> QED
      BY <2>1
  <2>3. FlattenSeq(seqs) = it[n]
    BY <1>9 DEF FlattenSeq
  <2> HIDE DEF it
  <2>4. it[1] = seqs[1] /\ \A i \in 1 .. n : i # 1 => it[i] = it[i - 1] \o seqs[i]
    <3>1. 1 \in 1 .. n
      BY <1>1, <1>9
    <3> QED
      BY <2>2, <3>1
  <2>5. \A i \in 0 .. n : i # 0 => it[i] = g[i]
    <3> DEFINE T == {i \in 0 .. n : i # 0 => it[i] = g[i]}
    <3>1. 0 \in T
      BY <1>1
    <3>2. ASSUME NEW i \in 1 .. n, i - 1 \in T PROVE i \in T
      <4>0. i \in 0 .. n
        BY <1>1
      <4>1. CASE i = 1
        BY <1>9, <1>60, <2>4, <4>0, <4>1
      <4>2. CASE i # 1
        <5>1. it[i - 1] = g[i - 1]
          BY <1>1, <3>2, <4>2
        <5>2. it[i] = it[i - 1] \o seqs[i] /\ g[i] = g[i - 1] \o seqs[i]
          BY <1>6, <2>4, <4>2
        <5>3. it[i] = g[i]
          BY <5>1, <5>2
        <5> QED
          BY <4>0, <5>3
      <4> QED
        BY <4>1, <4>2
    <3>3. \A i \in 0 .. n : i \in T
      <4> HIDE DEF T, n
      <4> QED
        BY <1>1, <3>1, <3>2, UpTo
    <3> QED
      BY <3>3
  <2>6. n \in 0 .. n
    BY <1>1
  <2> QED
    BY <1>7, <1>9, <2>3, <2>5, <2>6
<1> QED
  BY <1>8, <1>9

PieceLies(f, seqs, k) ==
  /\ Len(f[k]) = Len(f[k - 1]) + Len(seqs[k])
  /\ Len(f[k]) <= Len(f[Len(seqs)])
  /\ SubSeq(f[Len(seqs)], Len(f[k - 1]) + 1, Len(f[k])) = seqs[k]

\* Where a piece lies in the whole.
LEMMA FlatPieces ==
  ASSUME NEW S, NEW seqs \in Seq(Seq(S)), NEW f, IsFlat(f, seqs, S), NEW k \in 1 .. Len(seqs)
  PROVE  PieceLies(f, seqs, k)
<1> DEFINE n == Len(seqs)
           T == {m \in 0 .. n : m >= k => /\ Len(f[k]) <= Len(f[m])
                                          /\ \A i \in 1 .. Len(f[k]) : f[m][i] = f[k][i]}
<1>0. n \in Nat /\ \A m \in 1 .. n : seqs[m] \in Seq(S)
  BY ElementOfSeq, LenProperties
<1>1. \A m \in 0 .. n : f[m] \in Seq(S) /\ Len(f[m]) \in Nat
  <2>1. \A m \in 0 .. n : f[m] \in Seq(S)
    BY DEF IsFlat
  <2> QED
    BY <2>1, LenProperties
<1>2. ASSUME NEW m \in 1 .. n
      PROVE  /\ f[m] = f[m - 1] \o seqs[m] /\ Len(f[m]) = Len(f[m - 1]) + Len(seqs[m])
             /\ m - 1 \in 0 .. n /\ m \in 0 .. n /\ Len(seqs[m]) \in Nat
             /\ \A i \in 1 .. Len(f[m - 1]) : f[m][i] = f[m - 1][i]
             /\ \A i \in 1 .. Len(seqs[m]) : f[m][Len(f[m - 1]) + i] = seqs[m][i]
  <2>1. f[m] = f[m - 1] \o seqs[m]
    BY DEF IsFlat
  <2>2. m - 1 \in 0 .. n /\ m \in 0 .. n
    BY <1>0
  <2>3. f[m - 1] \in Seq(S) /\ seqs[m] \in Seq(S) /\ Len(f[m - 1]) \in Nat /\ Len(seqs[m]) \in Nat
    BY <1>0, <1>1, <2>2, LenProperties
  <2> DEFINE a == f[m - 1]  b == seqs[m]
  <2> HIDE DEF a, b, n
  <2>4. a \in Seq(S) /\ b \in Seq(S) /\ Len(a) \in Nat /\ Len(b) \in Nat /\ f[m] = a \o b
    BY <2>1, <2>3 DEF a, b
  <2>5. /\ Len(a \o b) = Len(a) + Len(b)
        /\ \A i \in 1 .. Len(a) + Len(b) :
             (a \o b)[i] = IF i <= Len(a) THEN a[i] ELSE b[i - Len(a)]
    BY <2>4, ConcatProperties
  <2>6. \A i \in 1 .. Len(a) : (a \o b)[i] = a[i]
    BY <2>4, <2>5
  <2>7. \A i \in 1 .. Len(b) : (a \o b)[Len(a) + i] = b[i]
    <3> TAKE i \in 1 .. Len(b)
    <3>1. Len(a) + i \in 1 .. Len(a) + Len(b) /\ ~ (Len(a) + i <= Len(a))
          /\ (Len(a) + i) - Len(a) = i
      BY <2>4
    <3> QED
      BY <2>5, <3>1
  <2> QED
    BY <2>2, <2>4, <2>5, <2>6, <2>7 DEF a, b
<1>3. 0 \in T
  BY <1>0
<1>4. ASSUME NEW m \in 1 .. n, m - 1 \in T PROVE m \in T
  <2>1. CASE m = k
    BY <1>0, <1>1, <2>1
  <2>2. CASE m < k
    BY <1>0, <2>2
  <2>3. CASE m > k
    <3>1. /\ Len(f[k]) <= Len(f[m - 1]) /\ \A i \in 1 .. Len(f[k]) : f[m - 1][i] = f[k][i]
      BY <1>0, <1>4, <2>3
    <3>2. /\ Len(f[m]) = Len(f[m - 1]) + Len(seqs[m]) /\ Len(seqs[m]) \in Nat
          /\ Len(f[m - 1]) \in Nat /\ Len(f[k]) \in Nat
          /\ \A i \in 1 .. Len(f[m - 1]) : f[m][i] = f[m - 1][i]
      BY <1>0, <1>1, <1>2
    <3> DEFINE A == Len(f[k])  B == Len(f[m - 1])  C == Len(seqs[m])  D == Len(f[m])
    <3>3. Len(f[k]) <= Len(f[m])
      <4>1. A \in Nat /\ B \in Nat /\ C \in Nat /\ A <= B /\ D = B + C
        BY <3>1, <3>2
      <4> HIDE DEF A, B, C, D
      <4>2. A <= D
        BY <4>1
      <4> QED
        BY <4>2 DEF A, D
    <3>4. \A i \in 1 .. Len(f[k]) : f[m][i] = f[k][i]
      <4>1. \A i \in 1 .. A : i \in 1 .. B
        <5>1. A \in Nat /\ B \in Nat /\ A <= B
          BY <3>1, <3>2
        <5> HIDE DEF A, B
        <5> QED
          BY <5>1
      <4> QED
        BY <3>1, <3>2, <4>1
    <3> HIDE DEF A, B, C, D
    <3>5. m \in 0 .. n
      BY <1>0
    <3> QED
      BY <3>3, <3>4, <3>5
  <2> QED
    BY <1>0, <2>1, <2>2, <2>3
<1>5. /\ Len(f[k]) <= Len(f[n]) /\ \A i \in 1 .. Len(f[k]) : f[n][i] = f[k][i]
  <2>1. \A m \in 0 .. n : m \in T
    <3> HIDE DEF T, n
    <3> QED
      BY <1>0, <1>3, <1>4, UpTo
  <2>2. n \in 0 .. n /\ n >= k
    BY <1>0
  <2>3. n \in T
    <3> HIDE DEF T, n
    <3> QED
      BY <2>1, <2>2
  <2>4. n >= k => /\ Len(f[k]) <= Len(f[n]) /\ \A i \in 1 .. Len(f[k]) : f[n][i] = f[k][i]
    <3> HIDE DEF n
    <3> QED
      BY <2>3
  <2> QED
    BY <2>2, <2>4
<1> HIDE DEF T
<1> DEFINE p == Len(f[k - 1])  q == Len(f[k])  w == f[n]
<1>6. /\ w \in Seq(S) /\ p \in Nat /\ q \in Nat /\ q = p + Len(seqs[k]) /\ q <= Len(w)
      /\ Len(seqs[k]) \in Nat /\ k - 1 \in 0 .. n
  <2>1. k - 1 \in 0 .. n /\ k \in 0 .. n /\ n \in 0 .. n
    BY <1>0
  <2>2. w \in Seq(S) /\ p \in Nat /\ q \in Nat
    BY <1>1, <2>1
  <2>3. q = p + Len(seqs[k]) /\ Len(seqs[k]) \in Nat
    BY <1>2
  <2>4. q <= Len(w)
    BY <1>5
  <2> QED
    BY <2>1, <2>2, <2>3, <2>4
<1>7. /\ SubSeq(w, p + 1, q) \in Seq(S) /\ Len(SubSeq(w, p + 1, q)) = q - p
      /\ \A i \in 1 .. q - p : SubSeq(w, p + 1, q)[i] = w[p + i]
  <2> HIDE DEF w, p, q
  <2> QED
    BY <1>6, PieceIs
<1>8. \A i \in 1 .. Len(seqs[k]) : w[p + i] = seqs[k][i]
  <2> TAKE i \in 1 .. Len(seqs[k])
  <2>1. f[k][p + i] = seqs[k][i]
    BY <1>2
  <2>2. p + i \in 1 .. q
    <3> DEFINE l == Len(seqs[k])
    <3>1. p \in Nat /\ q = p + l /\ l \in Nat /\ i \in 1 .. l
      BY <1>6
    <3> HIDE DEF p, q, l
    <3> QED
      BY <3>1
  <2> QED
    BY <1>5, <2>1, <2>2
<1>9. SubSeq(w, p + 1, q) = seqs[k]
  <2> DEFINE a == SubSeq(w, p + 1, q)
  <2>1. a \in Seq(S) /\ Len(a) = Len(seqs[k]) /\ \A i \in 1 .. Len(a) : a[i] = seqs[k][i]
    <3> DEFINE l == Len(seqs[k])
    <3>1. q - p = l
      <4>1. p \in Nat /\ q = p + l /\ l \in Nat
        BY <1>6
      <4> HIDE DEF p, q, l
      <4> QED
        BY <4>1
    <3>2. a \in Seq(S) /\ Len(a) = l /\ \A i \in 1 .. l : a[i] = w[p + i]
      BY <1>7, <3>1
    <3>3. \A i \in 1 .. l : w[p + i] = seqs[k][i]
      BY <1>8
    <3> HIDE DEF a, p, q, w
    <3> QED
      BY <3>2, <3>3
  <2> HIDE DEF a
  <2>2. a = seqs[k]
    BY <1>0, <2>1, SeqEqual
  <2> QED
    BY <2>2 DEF a
<1> QED
  BY <1>6, <1>9 DEF PieceLies

-----------------------------------------------------------------------------
(* Values of one type *)

\* What a decoder can make of a field.
Datum == BOOLEAN \cup Int \cup Seq(Int)

Raw == {"address", "hash32"}

LEMMA WidthIs ==
  /\ \A ty \in DOMAIN Width : Width[ty] \in Nat \ {0}
  /\ Width["bool"] = 1 /\ \A ty \in Raw : ty \in DOMAIN Width /\ Width[ty] = 32
  /\ DOMAIN Width \cap Prefixed = {} /\ Signed \subseteq DOMAIN Width /\ "bool" \in DOMAIN Width
BY DEF Width, Raw, Prefixed, Variable, Signed

LEMMA BytesAreInts ==
  ASSUME NEW b \in ByteStrings
  PROVE  b \in Seq(Int) /\ b \in Datum
<1>1. Byte \subseteq Int
  BY DEF Byte
<1> QED
  BY <1>1, SeqMonotonic DEF ByteStrings, Datum

LEMMA OneByte ==
  ASSUME NEW x \in Byte
  PROVE  <<x>> \in ByteStrings /\ Len(<<x>>) = 1 /\ <<x>>[1] = x
BY DEF ByteStrings

LEMMA FixedRead ==
  ASSUME NEW ty \in DOMAIN Width, NEW b \in ByteStrings, Len(b) = Width[ty],
         ty = "bool" => b[1] \in {0, 1}
  PROVE  FixedBytes(ty, ReadFixed(ty, b)) = b /\ ReadFixed(ty, b) \in Datum
<1>1. CASE ty \in Raw
  BY <1>1, BytesAreInts DEF FixedBytes, ReadFixed, Raw
<1>2. CASE ty = "bool"
  <2>1. ReadFixed(ty, b) = (b[1] # 0)
    BY <1>2 DEF ReadFixed
  <2>2. FixedBytes(ty, ReadFixed(ty, b)) = <<IF b[1] # 0 THEN 1 ELSE 0>>
    BY <1>2, <2>1 DEF FixedBytes
  <2>3. (IF b[1] # 0 THEN 1 ELSE 0) = b[1] /\ b[1] \in Byte
    BY <1>2 DEF Byte
  <2>4. <<b[1]>> = b
    <3>1. Len(b) = 1
      BY <1>2, WidthIs
    <3>2. <<b[1]>> \in ByteStrings /\ Len(<<b[1]>>) = 1 /\ <<b[1]>>[1] = b[1]
      BY <2>3, OneByte
    <3> DEFINE c == <<b[1]>>
    <3>3. c \in ByteStrings /\ Len(c) = 1 /\ c[1] = b[1]
      BY <3>2
    <3> HIDE DEF c
    <3>4. Len(c) = Len(b) /\ \A i \in 1 .. Len(c) : c[i] = b[i]
      BY <3>1, <3>3
    <3>5. c = b
      BY <3>3, <3>4, SeqEqual DEF ByteStrings
    <3> QED
      BY <3>5 DEF c
  <2>5. ReadFixed(ty, b) \in Datum
    BY <2>1 DEF Datum
  <2> QED
    BY <2>2, <2>3, <2>4, <2>5
<1>3. CASE ty \notin Raw /\ ty # "bool"
  <2> DEFINE signed == ty \in Signed
             v == FromLeBytes(b, signed)
  <2>1. ReadFixed(ty, b) = v /\ FixedBytes(ty, v) = ToLeBytes(v, Width[ty])
    BY <1>3 DEF ReadFixed, FixedBytes, Raw
  <2>2. signed \in BOOLEAN /\ Len(b) > 0
    BY WidthIs
  <2>3. v \in Int /\ ToLeBytes(v, Len(b)) = b
    <3> HIDE DEF signed
    <3> QED
      BY <2>2, ReadThenWritten
  <2> HIDE DEF v
  <2> QED
    BY <2>1, <2>3 DEF Datum
<1> QED
  BY <1>1, <1>2, <1>3

LEMMA FixedWritten ==
  ASSUME NEW ty \in DOMAIN Width, NEW v, HasType(ty, v)
  PROVE  /\ FixedBytes(ty, v) \in ByteStrings /\ Len(FixedBytes(ty, v)) = Width[ty]
         /\ ReadFixed(ty, FixedBytes(ty, v)) = v
         /\ ty = "bool" => FixedBytes(ty, v)[1] \in {0, 1}
<1>1. CASE ty \in Raw
  <2>1. FixedBytes(ty, v) = v /\ ReadFixed(ty, v) = v /\ ty # "bool"
    BY <1>1 DEF FixedBytes, ReadFixed, Raw
  <2>2. v \in ByteStrings /\ Len(v) = 32
    BY <1>1 DEF HasType, Raw, ByteStrings, Byte
  <2> QED
    BY <1>1, <2>1, <2>2, WidthIs
<1>2. CASE ty = "bool"
  <2> DEFINE x == IF v THEN 1 ELSE 0
  <2>1. v \in BOOLEAN
    BY <1>2 DEF HasType
  <2>2. FixedBytes(ty, v) = <<x>>
    BY <1>2 DEF FixedBytes
  <2>3. x \in Byte /\ x \in {0, 1} /\ v = (x # 0)
    BY <2>1 DEF Byte
  <2> HIDE DEF x
  <2>4. <<x>> \in ByteStrings /\ Len(<<x>>) = 1 /\ <<x>>[1] = x
    BY <2>3, OneByte
  <2>5. ReadFixed(ty, <<x>>) = (x # 0)
    BY <1>2, <2>4 DEF ReadFixed
  <2> QED
    BY <1>2, <2>2, <2>3, <2>4, <2>5, WidthIs
<1>3. CASE ty \notin Raw /\ ty # "bool"
  <2> DEFINE signed == ty \in Signed
             w == Width[ty]
             b == ToLeBytes(v, w)
  <2>1. FixedBytes(ty, v) = b /\ ReadFixed(ty, b) = FromLeBytes(b, signed)
    BY <1>3 DEF ReadFixed, FixedBytes, Raw
  <2>2. signed \in BOOLEAN /\ w \in Nat \ {0} /\ InWidth(v, w, signed)
    BY <1>3, WidthIs DEF HasType, Raw
  <2>3. FromLeBytes(b, signed) = v
    <3> HIDE DEF signed, w
    <3> QED
      BY <2>2, WrittenThenRead
  <2>4. v \in Int
    BY <2>2 DEF InWidth
  <2>5. b \in ByteStrings /\ Len(b) = w
    <3> HIDE DEF w
    <3> QED
      BY <2>2, <2>4, BytesOfNumber
  <2> HIDE DEF b
  <2> QED
    BY <1>3, <2>1, <2>3, <2>5
<1> QED
  BY <1>1, <1>2, <1>3

\* The elements of a vector, one after the other.
Elements(v) == FlattenSeq([i \in DOMAIN v |-> ToLeBytes(v[i], 8)])

LEMMA PositionsOfEight ==
  ASSUME NEW c \in Nat, NEW i \in 1 .. c
  PROVE  /\ 8 * i - 8 \in Nat /\ 8 * i \in Nat /\ 8 * i - 8 <= 8 * i /\ 8 * i <= 8 * c
         /\ 8 * i - 7 = (8 * i - 8) + 1 /\ 8 * i - (8 * i - 8) = 8 /\ 8 * (i - 1) = 8 * i - 8
OBVIOUS

LEMMA EightIs ==
  ASSUME NEW b \in ByteStrings, NEW c \in Nat, Len(b) = 8 * c, NEW i \in 1 .. c
  PROVE  SubSeq(b, 8 * i - 7, 8 * i) \in ByteStrings /\ Len(SubSeq(b, 8 * i - 7, 8 * i)) = 8
<1> DEFINE p == 8 * i - 8  q == 8 * i
<1>1. p \in Nat /\ q \in Nat /\ p <= q /\ q <= Len(b) /\ q - p = 8 /\ 8 * i - 7 = p + 1
  BY PositionsOfEight
<1>2. SubSeq(b, p + 1, q) \in ByteStrings /\ Len(SubSeq(b, p + 1, q)) = q - p
  <2> HIDE DEF p, q
  <2> QED
    BY <1>1, PieceIs DEF ByteStrings
<1> QED
  BY <1>1, <1>2

LEMMA VecRead ==
  ASSUME NEW b \in ByteStrings, NEW c \in Nat, Len(b) = 8 * c
  PROVE  LET v == ReadVecU64(b)
         IN  v \in Seq(Nat) /\ v \in Datum /\ Len(v) = c /\ Elements(v) = b
<1> DEFINE v == ReadVecU64(b)
           at(i) == SubSeq(b, 8 * i - 7, 8 * i)
           seqs == [i \in DOMAIN v |-> ToLeBytes(v[i], 8)]
<1>1. v = [i \in 1 .. c |-> FromLeBytes(at(i), FALSE)]
  <2>1. (8 * c) \div 8 = c
    OBVIOUS
  <2> QED
    BY <2>1 DEF ReadVecU64
<1>2. ASSUME NEW i \in 1 .. c
      PROVE  v[i] \in Nat /\ ToLeBytes(v[i], 8) = at(i) /\ at(i) \in ByteStrings /\ Len(at(i)) = 8
  <2> DEFINE e == at(i)
  <2>1. e \in ByteStrings /\ Len(e) = 8
    BY EightIs
  <2>2. v[i] = FromLeBytes(e, FALSE)
    BY <1>1
  <2> HIDE DEF e, v
  <2>3. FromLeBytes(e, FALSE) \in Nat /\ ToLeBytes(FromLeBytes(e, FALSE), Len(e)) = e
    <3>1. Len(e) > 0 /\ FALSE \in BOOLEAN
      BY <2>1
    <3> QED
      BY <2>1, <3>1, ReadThenWritten
  <2> QED
    BY <2>1, <2>2, <2>3 DEF e
<1>3. DOMAIN v = 1 .. c
  BY <1>1
<1>4. v \in Seq(Nat) /\ Len(v) = c
  <2>1. v = [i \in 1 .. c |-> v[i]]
    BY <1>1
  <2> HIDE DEF v
  <2>2. v \in [1 .. c -> Nat]
    BY <1>2, <2>1
  <2> QED
    BY <2>2
<1>5. v \in Datum
  <2>1. Nat \subseteq Int
    OBVIOUS
  <2> HIDE DEF v
  <2> QED
    BY <1>4, <2>1, SeqMonotonic DEF Datum
<1> HIDE DEF v
<1>6. seqs \in Seq(ByteStrings) /\ Len(seqs) = c /\ \A i \in 1 .. c : seqs[i] = at(i)
  <2>1. seqs = [i \in 1 .. c |-> at(i)]
    BY <1>2, <1>3
  <2>2. seqs \in [1 .. c -> ByteStrings]
    <3>1. \A i \in 1 .. c : at(i) \in ByteStrings
      BY <1>2
    <3> HIDE DEF at
    <3> QED
      BY <2>1, <3>1
  <2> HIDE DEF seqs, at
  <2> QED
    BY <2>1, <2>2
<1> HIDE DEF seqs
<1>7. PICK f : IsFlat(f, seqs, Byte) /\ FlattenSeq(seqs) = f[Len(seqs)]
  BY <1>6, FlattenIs DEF ByteStrings
<1>8. \A k \in 0 .. c : f[k] = SubSeq(b, 1, 8 * k)
  <2> DEFINE T == {k \in 0 .. c : f[k] = SubSeq(b, 1, 8 * k)}
  <2>1. 0 \in T
    <3>1. f[0] = <<>> /\ 8 * 0 = 0
      BY <1>7 DEF IsFlat
    <3>2. SubSeq(b, 1, 0) = <<>>
      BY SubSeqEmpty
    <3>3. f[0] = SubSeq(b, 1, 8 * 0) /\ 0 \in 0 .. c
      BY <3>1, <3>2
    <3> QED
      BY <3>3
  <2>2. ASSUME NEW k \in 1 .. c, k - 1 \in T PROVE k \in T
    <3> DEFINE p == 8 * k - 8  q == 8 * k
    <3>1. p \in Nat /\ q \in Nat /\ p <= q /\ q <= Len(b) /\ 8 * k - 7 = p + 1 /\ 8 * (k - 1) = p
      BY PositionsOfEight
    <3>2. f[k] = f[k - 1] \o seqs[k]
      BY <1>6, <1>7 DEF IsFlat
    <3>3. f[k - 1] = SubSeq(b, 1, p)
      BY <2>2, <3>1
    <3>4. seqs[k] = SubSeq(b, p + 1, q)
      BY <1>6, <3>1
    <3>5. SubSeq(b, 1, p) \o SubSeq(b, p + 1, q) = SubSeq(b, 1, q)
      <4> HIDE DEF p, q
      <4> QED
        BY <3>1, Pieces DEF ByteStrings
    <3>6. f[k] = SubSeq(b, 1, q)
      <4> HIDE DEF p, q
      <4> QED
        BY <3>2, <3>3, <3>4, <3>5
    <3>7. k \in 0 .. c
      OBVIOUS
    <3> QED
      BY <3>6, <3>7
  <2>3. \A k \in 0 .. c : k \in T
    <3> HIDE DEF T
    <3> QED
      BY <2>1, <2>2, UpTo
  <2> QED
    BY <2>3
<1>9. f[c] = b
  <2>1. f[c] = SubSeq(b, 1, Len(b))
    BY <1>8
  <2> QED
    BY <2>1, SubSeqFull DEF ByteStrings
<1>10. Elements(v) = b
  BY <1>6, <1>7, <1>9 DEF Elements, seqs
<1> QED
  BY <1>4, <1>5, <1>10 DEF v

LEMMA VecWritten ==
  ASSUME NEW v \in Seq(Nat), \A i \in DOMAIN v : InWidth(v[i], 8, FALSE)
  PROVE  /\ Elements(v) \in ByteStrings /\ Len(Elements(v)) = 8 * Len(v)
         /\ ReadVecU64(Elements(v)) = v
<1> DEFINE c == Len(v)
           seqs == [i \in DOMAIN v |-> ToLeBytes(v[i], 8)]
<1>1. c \in Nat /\ DOMAIN v = 1 .. c /\ \A i \in 1 .. c : v[i] \in Nat
  BY LenProperties, ElementOfSeq
<1>2. ASSUME NEW i \in 1 .. c
      PROVE  /\ ToLeBytes(v[i], 8) \in ByteStrings /\ Len(ToLeBytes(v[i], 8)) = 8
             /\ FromLeBytes(ToLeBytes(v[i], 8), FALSE) = v[i]
  <2> DEFINE x == v[i]
  <2>0. i \in DOMAIN v /\ v[i] \in Nat
    BY <1>1
  <2>2. InWidth(x, 8, FALSE)
    BY <2>0
  <2>3. x \in Nat
    BY <2>0
  <2> HIDE DEF x
  <2>1. x \in Int
    BY <2>3
  <2>4. 8 \in Nat \ {0} /\ 8 \in Nat /\ FALSE \in BOOLEAN
    OBVIOUS
  <2> QED
    BY <2>1, <2>2, <2>4, BytesOfNumber, WrittenThenRead DEF x
<1> HIDE DEF c
<1>3. seqs \in Seq(ByteStrings) /\ Len(seqs) = c /\ \A i \in 1 .. c : seqs[i] = ToLeBytes(v[i], 8)
  <2>1. seqs \in [1 .. c -> ByteStrings] /\ seqs = [i \in 1 .. c |-> ToLeBytes(v[i], 8)]
    BY <1>1, <1>2
  <2> HIDE DEF seqs
  <2> QED
    BY <1>1, <2>1
<1> HIDE DEF seqs
<1>4. PICK f : IsFlat(f, seqs, Byte) /\ FlattenSeq(seqs) = f[Len(seqs)]
  BY <1>3, FlattenIs DEF ByteStrings
<1> DEFINE b == f[c]
<1>5. /\ \A k \in 0 .. c : f[k] \in ByteStrings
      /\ f[0] = <<>>
  BY <1>3, <1>4 DEF IsFlat, ByteStrings
<1>6. ASSUME NEW k \in 1 .. c
      PROVE  /\ Len(f[k]) = Len(f[k - 1]) + 8
             /\ SubSeq(b, Len(f[k - 1]) + 1, Len(f[k])) = ToLeBytes(v[k], 8)
  <2>0. seqs \in Seq(Seq(Byte)) /\ IsFlat(f, seqs, Byte) /\ k \in 1 .. Len(seqs)
    BY <1>3, <1>4 DEF ByteStrings
  <2>3. PieceLies(f, seqs, k)
    BY <2>0, FlatPieces
  <2>1. /\ Len(f[k]) = Len(f[k - 1]) + Len(seqs[k])
        /\ SubSeq(f[Len(seqs)], Len(f[k - 1]) + 1, Len(f[k])) = seqs[k]
    BY <2>3 DEF PieceLies
  <2>2. Len(seqs[k]) = 8 /\ seqs[k] = ToLeBytes(v[k], 8) /\ Len(seqs) = c
    BY <1>2, <1>3
  <2> QED
    BY <2>1, <2>2
<1>7. \A k \in 0 .. c : Len(f[k]) = 8 * k
  <2> DEFINE T == {k \in 0 .. c : Len(f[k]) = 8 * k}
  <2>1. 0 \in T
    BY <1>1, <1>5
  <2>2. ASSUME NEW k \in 1 .. c, k - 1 \in T PROVE k \in T
    <3>00. Len(f[k]) = Len(f[k - 1]) + 8
      BY <1>6
    <3>0. k \in 0 .. c
      BY <1>1
    <3>01. Len(f[k - 1]) = 8 * (k - 1)
      BY <2>2
    <3>1. Len(f[k]) = Len(f[k - 1]) + 8 /\ Len(f[k - 1]) = 8 * (k - 1) /\ k \in 0 .. c
      BY <3>00, <3>01, <3>0
    <3> DEFINE l == Len(f[k - 1])  m == Len(f[k])
    <3>2. m = l + 8 /\ l = 8 * (k - 1)
      BY <3>1
    <3> HIDE DEF l, m
    <3>3. m = 8 * k
      BY <3>2
    <3> QED
      BY <3>1, <3>3 DEF m
  <2>3. \A k \in 0 .. c : k \in T
    <3> HIDE DEF T
    <3> QED
      BY <1>1, <2>1, <2>2, UpTo
  <2> QED
    BY <2>3
<1>8. b \in ByteStrings /\ Len(b) = 8 * c
  BY <1>1, <1>5, <1>7
<1>9. ASSUME NEW k \in 1 .. c PROVE SubSeq(b, 8 * k - 7, 8 * k) = ToLeBytes(v[k], 8)
  <2>1. Len(f[k]) = 8 * k /\ Len(f[k - 1]) = 8 * (k - 1) /\ 8 * (k - 1) + 1 = 8 * k - 7
    BY <1>1, <1>7
  <2> HIDE DEF b
  <2> QED
    BY <1>6, <2>1
<1> HIDE DEF b
<1>10. ReadVecU64(b) = v
  <2>1. (8 * c) \div 8 = c
    BY <1>1
  <2>2. ReadVecU64(b) = [i \in 1 .. c |-> FromLeBytes(SubSeq(b, 8 * i - 7, 8 * i), FALSE)]
    BY <1>8, <2>1 DEF ReadVecU64
  <2>3. \A i \in 1 .. c : FromLeBytes(SubSeq(b, 8 * i - 7, 8 * i), FALSE) = v[i]
    BY <1>2, <1>9
  <2>4. v = [i \in 1 .. c |-> v[i]]
    BY <1>1
  <2> QED
    BY <2>2, <2>3, <2>4
<1>11. Elements(v) = b
  BY <1>3, <1>4 DEF Elements, seqs, b
<1> QED
  BY <1>8, <1>10, <1>11 DEF c

-----------------------------------------------------------------------------
(* One field.  The parts of Field, each under a name. *)

From(pos, ty)  == IF ty \in Prefixed THEN pos + 4 ELSE pos
Count(data, pos) == IF Has(data, pos, 4) THEN FromLeBytes(Taken(data, pos, 4), TRUE) ELSE -1
PieceSize(data, pos, ty) ==
  IF ty \notin Prefixed THEN Width[ty]
  ELSE IF ty = "vec_u64" /\ Count(data, pos) <= Len(data) THEN 8 * Count(data, pos)
  ELSE Count(data, pos)
Piece(data, pos, ty) == Taken(data, From(pos, ty), PieceSize(data, pos, ty))

Refuses(data, cur, ty, bools, text) ==
  \/ ~ cur.ok
  \/ ~ Has(data, From(cur.pos, ty), PieceSize(data, cur.pos, ty))
  \/ ty = "bool" /\ Piece(data, cur.pos, ty)[1] \notin bools
  \/ ty = "string" /\ text = "strict" /\ ~ Ascii(Piece(data, cur.pos, ty))

Reads(ty, b, text) ==
  CASE ty = "string"  -> IF text = "decoded" THEN DecodeUnsafe(b) ELSE b
    [] ty = "bytes"   -> b
    [] ty = "vec_u64" -> ReadVecU64(b)
    [] OTHER          -> ReadFixed(ty, b)

LEMMA FieldIs ==
  ASSUME NEW data, NEW cur, NEW ty, NEW bools, NEW text
  PROVE  Field(data, cur, ty, bools, text) =
           IF Refuses(data, cur, ty, bools, text) THEN Cursor(FALSE, cur.pos, <<>>)
           ELSE Cursor(TRUE, From(cur.pos, ty) + PieceSize(data, cur.pos, ty),
                       Append(cur.values, Reads(ty, Piece(data, cur.pos, ty), text)))
BY Zenon DEF Field, Refuses, Reads, Piece, PieceSize, Count, From

LEMMA ReadsIs ==
  ASSUME NEW ty \in Ty, NEW b, NEW text
  PROVE  /\ ty = "string" => Reads(ty, b, text) = IF text = "decoded" THEN DecodeUnsafe(b) ELSE b
         /\ ty = "bytes" => Reads(ty, b, text) = b
         /\ ty = "vec_u64" => Reads(ty, b, text) = ReadVecU64(b)
         /\ ty \in DOMAIN Width => Reads(ty, b, text) = ReadFixed(ty, b)
<1>1. CASE ty = "string"
  BY <1>1 DEF Reads, Width
<1>2. CASE ty = "bytes"
  BY <1>2 DEF Reads, Width
<1>3. CASE ty = "vec_u64"
  BY <1>3 DEF Reads, Width
<1>4. CASE ty \in DOMAIN Width
  BY <1>4, WidthIs DEF Reads, Prefixed, Variable
<1> QED
  BY <1>1, <1>2, <1>3, <1>4 DEF Ty, Prefixed, Variable

\* The count in front of a string or a vector, and its bytes.
LEMMA CountIs ==
  ASSUME NEW data \in ByteStrings, NEW pos \in 0 .. Len(data)
  PROVE  /\ Count(data, pos) \in Int
         /\ Has(data, pos, 4) => /\ pos + 4 <= Len(data) /\ Taken(data, pos, 4) \in ByteStrings
                                 /\ Len(Taken(data, pos, 4)) = 4
                                 /\ ToLeBytes(Count(data, pos), 4) = Taken(data, pos, 4)
<1>1. CASE ~ Has(data, pos, 4)
  BY <1>1 DEF Count
<1>2. CASE Has(data, pos, 4)
  <2> DEFINE b == Taken(data, pos, 4)  l == Len(data)
  <2>1. l \in Nat /\ pos \in 0 .. l /\ 4 <= l - pos
    BY <1>2 DEF Has, ByteStrings
  <2>2. pos \in Nat /\ pos + 4 \in Nat /\ pos <= pos + 4 /\ pos + 4 <= l /\ (pos + 4) - pos = 4
    <3> HIDE DEF l
    <3> QED
      BY <2>1
  <2>3. b \in ByteStrings /\ Len(b) = 4
    BY <2>2, PieceIs DEF Taken, ByteStrings
  <2>4. Count(data, pos) = FromLeBytes(b, TRUE)
    BY <1>2 DEF Count
  <2> HIDE DEF b
  <2>5. FromLeBytes(b, TRUE) \in Int /\ ToLeBytes(FromLeBytes(b, TRUE), Len(b)) = b
    <3>1. Len(b) > 0 /\ TRUE \in BOOLEAN
      BY <2>3
    <3> QED
      BY <2>3, <3>1, ReadThenWritten
  <2>6. ToLeBytes(Count(data, pos), 4) = b /\ Count(data, pos) \in Int
    BY <2>3, <2>4, <2>5
  <2> QED
    BY <2>2, <2>3, <2>6 DEF b
<1> QED
  BY <1>1, <1>2

\* Where an accepted field lies.
LEMMA PieceOfField ==
  ASSUME NEW data \in ByteStrings, NEW pos \in 0 .. Len(data), NEW ty \in Ty,
         Has(data, From(pos, ty), PieceSize(data, pos, ty))
  PROVE  LET from == From(pos, ty)
             n    == PieceSize(data, pos, ty)
             b    == Piece(data, pos, ty)
         IN  /\ from \in Nat /\ n \in Nat /\ pos <= from /\ from + n \in 0 .. Len(data)
             /\ b = SubSeq(data, from + 1, from + n) /\ b \in ByteStrings /\ Len(b) = n
             /\ ty \notin Prefixed => from = pos /\ n = Width[ty]
             /\ ty \in Prefixed => from = pos + 4 /\ Has(data, pos, 4)
             /\ ty = "vec_u64" => n = 8 * Count(data, pos) /\ Count(data, pos) \in Nat
             /\ ty \in Variable => n = Count(data, pos)
<1> DEFINE from == From(pos, ty)  n == PieceSize(data, pos, ty)  b == Piece(data, pos, ty)
           l == Len(data)  c == Count(data, pos)
<1>1. l \in Nat /\ pos \in 0 .. l /\ c \in Int /\ (~ Has(data, pos, 4) => c = -1)
  <2>1. c \in Int
    BY CountIs
  <2>2. l \in Nat
    BY DEF ByteStrings
  <2> QED
    BY <2>1, <2>2 DEF Count
<1>2. from = IF ty \in Prefixed THEN pos + 4 ELSE pos
  BY DEF From
<1>3. n = IF ty \notin Prefixed THEN Width[ty]
          ELSE IF ty = "vec_u64" /\ c <= l THEN 8 * c ELSE c
  BY DEF PieceSize
<1>4. n >= 0 /\ n <= l - from
  BY DEF Has
<1>5. ty \notin Prefixed => Width[ty] \in Nat
  BY WidthIs DEF Ty
<1>6. ty = "vec_u64" => ty \in Prefixed /\ ty \notin Variable
  BY DEF Prefixed, Variable
<1>60. ty \in Variable => ty \in Prefixed
  BY DEF Prefixed
<1>7. /\ from \in Nat /\ n \in Nat /\ pos <= from /\ from + n \in 0 .. l
      /\ ty \notin Prefixed => from = pos /\ n = Width[ty]
      /\ ty \in Prefixed => from = pos + 4 /\ Has(data, pos, 4)
      /\ ty = "vec_u64" => n = 8 * c /\ c \in Nat
      /\ ty \in Variable => n = c
  <2> HIDE DEF from, n, l, c
  <2>1. from \in Nat /\ pos <= from /\ pos \in Nat
    BY <1>1, <1>2
  <2>2. n \in Int
    BY <1>1, <1>3, <1>5
  <2>3. n \in Nat /\ from + n \in 0 .. l
    BY <1>1, <1>4, <2>1, <2>2
  <2>4. ty \in Prefixed => Has(data, pos, 4)
    <3> SUFFICES ASSUME ty \in Prefixed, ~ Has(data, pos, 4) PROVE FALSE
      OBVIOUS
    <3>1. c = -1
      BY <1>1
    <3>2. n < 0
      BY <1>3, <3>1
    <3> QED
      BY <1>4, <2>2, <3>2
  <2>5. ty = "vec_u64" => n = 8 * c /\ c \in Nat
    <3> SUFFICES ASSUME ty = "vec_u64" PROVE n = 8 * c /\ c \in Nat
      OBVIOUS
    <3>1. c <= l
      <4> SUFFICES ASSUME ~ (c <= l) PROVE FALSE
        OBVIOUS
      <4>1. n = c
        BY <1>3, <1>6
      <4> QED
        BY <1>1, <1>4, <2>1, <4>1
    <3>2. n = 8 * c
      BY <1>3, <1>6, <3>1
    <3> QED
      BY <1>1, <2>3, <3>2
  <2>6. ty \in Variable => n = c
    BY <1>3, <1>6, <1>60
  <2> QED
    BY <1>2, <1>3, <2>1, <2>3, <2>4, <2>5, <2>6
<1>8. b = SubSeq(data, from + 1, from + n)
  BY DEF Piece, Taken
<1>9. SubSeq(data, from + 1, from + n) \in ByteStrings /\ Len(SubSeq(data, from + 1, from + n)) = n
  <2> DEFINE q == from + n
  <2> HIDE DEF from, n, l
  <2>1. from \in Nat /\ q \in Nat /\ from <= q /\ q <= l /\ q - from = n
    BY <1>1, <1>7
  <2> HIDE DEF q
  <2> QED
    BY <2>1, PieceIs DEF ByteStrings, l, q
<1> QED
  BY <1>7, <1>8, <1>9

\* What Fits says of one value.
FitsOne(ty, v) ==
  /\ ty = "bool" => v \in BOOLEAN
  /\ ty \in Variable \cup Raw => \A j \in DOMAIN v : v[j] \in 0 .. 255 \cup {Garbled}
  /\ ty = "vec_u64" => \A j \in DOMAIN v : v[j] \in Nat
  /\ ty \in DOMAIN Width \ ({"bool"} \cup Raw) => v \in Int

LEMMA KindsDiffer ==
  /\ "vec_u64" \notin DOMAIN Width /\ DOMAIN Width \cap Variable = {}
  /\ "bool" \notin Variable \cup Raw \cup {"vec_u64"}
  /\ (Variable \cup Raw) \cap {"bool", "vec_u64"} = {} /\ Variable \cap Raw = {}
BY DEF Width, Variable, Raw

LEMMA BytesFit ==
  ASSUME NEW ty \in Variable \cup Raw, NEW b \in ByteStrings
  PROVE  FitsOne(ty, b) /\ b \in Datum
<1>1. \A j \in DOMAIN b : b[j] \in 0 .. 255
  <2>1. DOMAIN b = 1 .. Len(b)
    BY DEF ByteStrings
  <2> QED
    BY <2>1, ElementOfSeq DEF ByteStrings, Byte
<1>2. ty # "bool" /\ ty # "vec_u64" /\ ty \notin DOMAIN Width \ ({"bool"} \cup Raw)
  BY KindsDiffer
<1> QED
  BY <1>1, <1>2, BytesAreInts DEF FitsOne

LEMMA FixedFits ==
  ASSUME NEW ty \in DOMAIN Width, NEW b \in ByteStrings, Len(b) = Width[ty]
  PROVE  FitsOne(ty, ReadFixed(ty, b)) /\ ReadFixed(ty, b) \in Datum
<1>1. CASE ty \in Raw
  <2>1. ReadFixed(ty, b) = b
    BY <1>1 DEF ReadFixed, Raw
  <2> QED
    BY <1>1, <2>1, BytesFit
<1>2. CASE ty = "bool"
  <2>1. ReadFixed(ty, b) = (b[1] # 0)
    BY <1>2 DEF ReadFixed
  <2>2. ReadFixed(ty, b) \in BOOLEAN
    BY <2>1
  <2> QED
    BY <1>2, <2>2, KindsDiffer DEF FitsOne, Datum
<1>3. CASE ty \notin Raw /\ ty # "bool"
  <2> DEFINE signed == ty \in Signed
  <2>1. ReadFixed(ty, b) = FromLeBytes(b, signed)
    BY <1>3 DEF ReadFixed, Raw
  <2>2. signed \in BOOLEAN /\ Len(b) > 0
    BY WidthIs
  <2>3. FromLeBytes(b, signed) \in Int
    <3> HIDE DEF signed
    <3> QED
      BY <2>2, ReadThenWritten
  <2>4. ReadFixed(ty, b) \in Int
    BY <2>1, <2>3
  <2>5. ty \notin Variable \cup Raw /\ ty # "vec_u64"
    BY <1>3, KindsDiffer
  <2> QED
    BY <1>3, <2>4, <2>5 DEF FitsOne, Datum
<1> QED
  BY <1>1, <1>2, <1>3

LEMMA DecodedTextFits ==
  ASSUME NEW b \in ByteStrings
  PROVE  FitsOne("string", DecodeUnsafe(b)) /\ DecodeUnsafe(b) \in Datum
<1>1. CASE Ascii(b)
  <2>1. DecodeUnsafe(b) = b
    BY <1>1 DEF DecodeUnsafe
  <2> QED
    BY <2>1, BytesFit DEF Variable
<1>2. CASE ~ Ascii(b)
  <2> DEFINE v == <<Garbled>>
  <2>1. DecodeUnsafe(b) = v
    BY <1>2 DEF DecodeUnsafe
  <2>2. Garbled \in Int
    BY DEF Garbled
  <2>3. v \in Datum
    BY <2>2 DEF Datum
  <2>4. \A j \in DOMAIN v : v[j] \in 0 .. 255 \cup {Garbled}
    OBVIOUS
  <2>5. "string" # "bool" /\ "string" # "vec_u64" /\ "string" \notin DOMAIN Width
    BY DEF Width
  <2> HIDE DEF v
  <2>6. FitsOne("string", v)
    BY <2>4, <2>5 DEF FitsOne
  <2> QED
    BY <2>1, <2>3, <2>6
<1> QED
  BY <1>1, <1>2

\* Whatever a decoder makes of an accepted field has the field's shape.
LEMMA FieldFits ==
  ASSUME NEW data \in ByteStrings, NEW pos \in 0 .. Len(data), NEW ty \in Ty, NEW text,
         Has(data, From(pos, ty), PieceSize(data, pos, ty))
  PROVE  LET v == Reads(ty, Piece(data, pos, ty), text) IN FitsOne(ty, v) /\ v \in Datum
<1> DEFINE b == Piece(data, pos, ty)  v == Reads(ty, b, text)
<1>1. /\ b \in ByteStrings /\ (ty \notin Prefixed => Len(b) = Width[ty])
      /\ ty = "vec_u64" => Len(b) = 8 * Count(data, pos) /\ Count(data, pos) \in Nat
  BY PieceOfField
<1> HIDE DEF b
<1>2. CASE ty = "string"
  <2>1. v = DecodeUnsafe(b) \/ v = b
    BY <1>2, ReadsIs
  <2> HIDE DEF v
  <2>2. ty \in Variable \cup Raw
    BY <1>2 DEF Variable
  <2>3. FitsOne(ty, v) /\ v \in Datum
    BY <1>1, <1>2, <2>1, <2>2, BytesFit, DecodedTextFits
  <2> QED
    BY <2>3 DEF v, b
<1>3. CASE ty = "bytes"
  <2>1. v = b /\ ty \in Variable \cup Raw
    BY <1>3, ReadsIs DEF Variable
  <2> HIDE DEF v
  <2>2. FitsOne(ty, v) /\ v \in Datum
    BY <1>1, <2>1, BytesFit
  <2> QED
    BY <2>2 DEF v, b
<1>4. CASE ty = "vec_u64"
  <2>1. v = ReadVecU64(b)
    BY <1>4, ReadsIs
  <2> DEFINE c == Count(data, pos)
  <2>2. c \in Nat /\ Len(b) = 8 * c
    BY <1>1, <1>4
  <2> HIDE DEF c, v
  <2>3. v \in Seq(Nat) /\ v \in Datum
    BY <1>1, <2>1, <2>2, VecRead
  <2>4. FitsOne(ty, v)
    <3>1. \A j \in DOMAIN v : v[j] \in Nat
      BY <2>3, ElementOfSeq
    <3> QED
      BY <1>4, <3>1, KindsDiffer DEF FitsOne
  <2> QED
    BY <2>3, <2>4 DEF v, b
<1>5. CASE ty \in DOMAIN Width
  <2>1. v = ReadFixed(ty, b) /\ Len(b) = Width[ty]
    BY <1>1, <1>5, ReadsIs, WidthIs
  <2> HIDE DEF v
  <2>2. FitsOne(ty, v) /\ v \in Datum
    BY <1>1, <1>5, <2>1, FixedFits
  <2> QED
    BY <2>2 DEF v, b
<1> QED
  BY <1>2, <1>3, <1>4, <1>5 DEF Ty, Prefixed, Variable

LEMMA EncodeIs ==
  ASSUME NEW ty \in Ty, NEW v
  PROVE  /\ ty = "vec_u64" => Encode(ty, v) = ToLeBytes(Len(v), 4) \o Elements(v)
         /\ ty \in Variable => Encode(ty, v) = ToLeBytes(Len(v), 4) \o v
         /\ ty \in DOMAIN Width => Encode(ty, v) = FixedBytes(ty, v)
<1>1. ty = "vec_u64" => Encode(ty, v) = ToLeBytes(Len(v), 4) \o Elements(v)
  BY DEF Encode, VecU64, Elements
<1> QED
  BY <1>1, KindsDiffer DEF Encode

\* A decoder that takes nothing but zero and one for a boolean, and keeps the
\* bytes of a string, reads what the encoder writes for what it read.
LEMMA FieldExact ==
  ASSUME NEW data \in ByteStrings, NEW pos \in 0 .. Len(data), NEW ty \in Ty, NEW text,
         Has(data, From(pos, ty), PieceSize(data, pos, ty)), text # "decoded",
         ty = "bool" => Piece(data, pos, ty)[1] \in {0, 1}
  PROVE  Encode(ty, Reads(ty, Piece(data, pos, ty), text))
           = SubSeq(data, pos + 1, From(pos, ty) + PieceSize(data, pos, ty))
<1> DEFINE from == From(pos, ty)  n == PieceSize(data, pos, ty)
           b == Piece(data, pos, ty)  v == Reads(ty, b, text)  c == Count(data, pos)
<1>1. /\ from \in Nat /\ n \in Nat /\ pos <= from /\ from + n \in 0 .. Len(data)
      /\ b = SubSeq(data, from + 1, from + n) /\ b \in ByteStrings /\ Len(b) = n
      /\ ty \notin Prefixed => from = pos /\ n = Width[ty]
      /\ ty \in Prefixed => from = pos + 4 /\ Has(data, pos, 4)
      /\ ty = "vec_u64" => n = 8 * c /\ c \in Nat
      /\ ty \in Variable => n = c
  BY PieceOfField
<1>2. CASE ty \in DOMAIN Width
  <2>1. ty \notin Prefixed
    BY <1>2, WidthIs
  <2>2. v = ReadFixed(ty, b) /\ Encode(ty, v) = FixedBytes(ty, v)
    BY <1>2, ReadsIs, EncodeIs
  <2>3. b \in ByteStrings /\ Len(b) = Width[ty] /\ (ty = "bool" => b[1] \in {0, 1})
    BY <1>1, <2>1
  <2>4. b = SubSeq(data, pos + 1, from + n)
    BY <1>1, <2>1
  <2> HIDE DEF b, from, n, v
  <2>5. FixedBytes(ty, ReadFixed(ty, b)) = b
    BY <1>2, <2>3, FixedRead
  <2>6. Encode(ty, v) = SubSeq(data, pos + 1, from + n)
    BY <2>2, <2>4, <2>5
  <2> QED
    BY <2>6 DEF b, from, n, v
<1>3. CASE ty \in Prefixed
  <2> DEFINE head == Taken(data, pos, 4)
  <2>1. /\ pos + 4 <= Len(data) /\ ToLeBytes(c, 4) = head /\ head = SubSeq(data, pos + 1, pos + 4)
    BY <1>1, <1>3, CountIs DEF Taken
  <2>2. from = pos + 4
    BY <1>1, <1>3
  <2>3. SubSeq(data, pos + 1, pos + 4) \o SubSeq(data, from + 1, from + n)
          = SubSeq(data, pos + 1, from + n)
    <3> DEFINE l == Len(data)  p == pos + 4  q == from + n
    <3>1. l \in Nat /\ pos \in 0 .. l /\ from \in Nat /\ n \in Nat /\ q \in 0 .. l /\ from = p
      BY <1>1, <2>2 DEF ByteStrings
    <3>2. p = pos + 4 /\ q = p + n
      BY <3>1
    <3>3. pos + 1 \in 1 .. l + 1 /\ p \in (pos + 1) - 1 .. l /\ q \in p .. l /\ p + 1 = from + 1
      <4> HIDE DEF l, p, q, from, n
      <4> QED
        BY <3>1, <3>2
    <3>4. data \in Seq(Byte)
      BY DEF ByteStrings
    <3> HIDE DEF p, q, from, n
    <3>5. SubSeq(data, pos + 1, p) \o SubSeq(data, p + 1, q) = SubSeq(data, pos + 1, q)
      BY <3>3, <3>4, ConcatAdjacentSubSeq DEF l
    <3> QED
      BY <3>3, <3>5 DEF p, q
  <2>4. CASE ty \in Variable
    <3>1. v = b
      <4>1. ty = "string" \/ ty = "bytes"
        BY <2>4 DEF Variable
      <4> QED
        BY <4>1, ReadsIs
    <3>2. Len(v) = c
      BY <1>1, <2>4, <3>1
    <3>3. Encode(ty, v) = ToLeBytes(Len(v), 4) \o v
      BY <2>4, EncodeIs
    <3>4. Encode(ty, v) = head \o b
      BY <2>1, <3>1, <3>2, <3>3
    <3> QED
      BY <1>1, <2>1, <2>3, <3>4
  <2>5. CASE ty = "vec_u64"
    <3>0. v = ReadVecU64(b)
      BY <2>5, ReadsIs
    <3>1. Encode(ty, v) = ToLeBytes(Len(v), 4) \o Elements(v)
      <4> HIDE DEF v
      <4> QED
        BY <2>5, EncodeIs
    <3>2. b \in ByteStrings /\ Len(b) = 8 * c /\ c \in Nat
      BY <1>1, <2>5
    <3>3. Len(v) = c /\ Elements(v) = b
      <4> HIDE DEF b, c, v
      <4> QED
        BY <3>0, <3>2, VecRead
    <3>4. Encode(ty, v) = head \o b
      BY <2>1, <3>1, <3>3
    <3> QED
      BY <1>1, <2>1, <2>3, <3>4
  <2> QED
    BY <1>3, <2>4, <2>5 DEF Prefixed
<1> QED
  BY <1>2, <1>3 DEF Ty

LEMMA AsciiKept ==
  ASSUME NEW b \in ByteStrings, Ascii(b)
  PROVE  DecodeUnsafe(b) = b
BY DEF DecodeUnsafe

\* What the encoder writes for a value of the type.
LEMMA EncodeTyped ==
  ASSUME NEW ty \in Ty, NEW v, HasType(ty, v)
  PROVE  Encode(ty, v) \in ByteStrings
<1>1. CASE ty \in DOMAIN Width
  BY <1>1, EncodeIs, FixedWritten
<1>2. CASE ty \in Variable
  <2>1. v \in ByteStrings /\ Len(v) \in Int /\ 4 \in Nat
    BY <1>2 DEF HasType, ByteStrings, Byte
  <2>2. Encode(ty, v) = ToLeBytes(Len(v), 4) \o v
    BY <1>2, EncodeIs
  <2>3. ToLeBytes(Len(v), 4) \in ByteStrings
    BY <2>1, BytesOfNumber
  <2> QED
    BY <2>1, <2>2, <2>3, ConcatProperties DEF ByteStrings
<1>3. CASE ty = "vec_u64"
  <2>0. v \in Seq(Nat) /\ \A i \in DOMAIN v : InWidth(v[i], 8, FALSE)
    BY Zenon, <1>3 DEF HasType
  <2>1. Len(v) \in Int /\ 4 \in Nat
    BY <2>0
  <2>2. Encode(ty, v) = ToLeBytes(Len(v), 4) \o Elements(v)
    BY <1>3, EncodeIs
  <2>3. ToLeBytes(Len(v), 4) \in ByteStrings
    BY <2>1, BytesOfNumber
  <2>4. Elements(v) \in ByteStrings
    BY <2>0, VecWritten
  <2> QED
    BY <2>2, <2>3, <2>4, ConcatProperties DEF ByteStrings
<1> QED
  BY <1>1, <1>2, <1>3 DEF Ty, Prefixed

\* At pos lie h and then b, once as a whole and once as two pieces.
Joined(data, pos, h, b) ==
  /\ pos + Len(h) + Len(b) <= Len(data)
  /\ SubSeq(data, pos + 1, pos + Len(h) + Len(b)) = h \o b

Apart(data, pos, h, b) ==
  /\ SubSeq(data, pos + 1, pos + Len(h)) = h
  /\ SubSeq(data, (pos + Len(h)) + 1, (pos + Len(h)) + Len(b)) = b

LEMMA SplitPiece ==
  ASSUME NEW S, NEW data \in Seq(S), NEW pos \in Nat, NEW h \in Seq(S), NEW b \in Seq(S),
         Joined(data, pos, h, b)
  PROVE  Apart(data, pos, h, b)
<1>0. /\ pos + Len(h) + Len(b) <= Len(data)
      /\ SubSeq(data, pos + 1, pos + Len(h) + Len(b)) = h \o b
  BY DEF Joined
<1> DEFINE x == Len(h)  y == Len(b)  p == pos + x  q == p + y  whole == SubSeq(data, pos + 1, q)
<1>1. x \in Nat /\ y \in Nat /\ q <= Len(data) /\ Len(data) \in Nat
  BY <1>0, LenProperties
<1>2. whole = h \o b
  BY <1>0
<1>3. \A i \in 1 .. x + y : (h \o b)[i] = IF i <= x THEN h[i] ELSE b[i - x]
  BY ConcatProperties
<1>4. /\ p \in Nat /\ q \in Nat /\ pos <= p /\ p <= q /\ pos <= q /\ p <= Len(data)
      /\ p - pos = x /\ q - p = y /\ q - pos = x + y
  <2> DEFINE l == Len(data)
  <2> HIDE DEF x, y, l
  <2> QED
    BY <1>1 DEF l
<1>5. \A i \in 1 .. x + y : whole[i] = data[pos + i]
  <2> HIDE DEF x, y, p, q
  <2> QED
    BY <1>1, <1>4, PieceIs DEF whole
<1>6. SubSeq(data, pos + 1, p) = h
  <2> DEFINE a == SubSeq(data, pos + 1, p)
  <2>1. a \in Seq(S) /\ Len(a) = x /\ \A i \in 1 .. x : a[i] = data[pos + i]
    <3> HIDE DEF x, y, p, q
    <3> QED
      BY <1>1, <1>4, PieceIs DEF a
  <2>2. \A i \in 1 .. x : data[pos + i] = h[i]
    <3> HIDE DEF x, y, p, q, whole
    <3>1. \A i \in 1 .. x : i \in 1 .. x + y /\ i <= x
      BY <1>1
    <3> QED
      BY <1>2, <1>3, <1>5, <3>1
  <2> HIDE DEF a
  <2>3. Len(a) = Len(h) /\ \A i \in 1 .. Len(a) : a[i] = h[i]
    BY <2>1, <2>2
  <2>4. a = h
    BY <2>1, <2>3, SeqEqual
  <2> QED
    BY <2>4 DEF a
<1>7. SubSeq(data, p + 1, q) = b
  <2> DEFINE a == SubSeq(data, p + 1, q)
  <2>1. a \in Seq(S) /\ Len(a) = y /\ \A i \in 1 .. y : a[i] = data[p + i]
    <3> HIDE DEF x, y, p, q
    <3> QED
      BY <1>1, <1>4, PieceIs DEF a
  <2>2. \A i \in 1 .. y : data[p + i] = b[i]
    <3> TAKE i \in 1 .. y
    <3>1. x + i \in 1 .. x + y /\ ~ (x + i <= x) /\ (x + i) - x = i /\ pos + (x + i) = p + i
      <4>1. p = pos + x
        OBVIOUS
      <4> HIDE DEF x, y, p
      <4> QED
        BY <1>1, <4>1
    <3> HIDE DEF x, y, p, q, whole
    <3> QED
      BY <1>2, <1>3, <1>5, <3>1
  <2> HIDE DEF a
  <2>3. Len(a) = Len(b) /\ \A i \in 1 .. Len(a) : a[i] = b[i]
    BY <2>1, <2>2
  <2>4. a = b
    BY <2>1, <2>3, SeqEqual
  <2> QED
    BY <2>4 DEF a
<1> QED
  BY <1>6, <1>7 DEF Apart

Lies(data, pos, e) ==
  pos + Len(e) <= Len(data) /\ SubSeq(data, pos + 1, pos + Len(e)) = e

Found(data, pos, ty, v, text, e) ==
  /\ Has(data, From(pos, ty), PieceSize(data, pos, ty))
  /\ From(pos, ty) + PieceSize(data, pos, ty) = pos + Len(e)
  /\ Reads(ty, Piece(data, pos, ty), text) = v
  /\ ty = "bool" => Piece(data, pos, ty)[1] \in {0, 1}
  /\ ty = "string" => Ascii(Piece(data, pos, ty))

\* The field that lies at a cursor when the encoder's bytes of a value do.
LEMMA FieldFound ==
  ASSUME NEW data \in ByteStrings, NEW pos \in 0 .. Len(data), NEW ty \in Ty, NEW v, HasType(ty, v),
         NEW text, NEW e, e = Encode(ty, v), Lies(data, pos, e)
  PROVE  Found(data, pos, ty, v, text, e)
<1> DEFINE l == Len(data)
<1> USE DEF Lies, Found
<1>0. l \in Nat /\ pos \in Nat /\ e \in ByteStrings /\ Len(e) \in Nat
  BY EncodeTyped, LenProperties DEF ByteStrings
<1>1. CASE ty \in DOMAIN Width
  <2>1. /\ e = FixedBytes(ty, v) /\ Len(e) = Width[ty] /\ ReadFixed(ty, e) = v
        /\ ty = "bool" => e[1] \in {0, 1}
    BY <1>1, EncodeIs, FixedWritten
  <2>2. ty \notin Prefixed /\ Width[ty] \in Nat
    BY <1>1, WidthIs
  <2>3. From(pos, ty) = pos /\ PieceSize(data, pos, ty) = Len(e)
    BY <2>1, <2>2 DEF From, PieceSize
  <2>4. Has(data, pos, Len(e))
    <3> DEFINE k == Len(e)
    <3>1. k \in Nat /\ pos + k <= l
      BY <1>0
    <3> HIDE DEF k
    <3>2. k >= 0 /\ k <= l - pos
      <4> HIDE DEF l
      <4> QED
        BY <1>0, <3>1
    <3> QED
      BY <3>2 DEF Has, k
  <2>5. Piece(data, pos, ty) = e
    BY <2>3 DEF Piece, Taken
  <2>6. Reads(ty, e, text) = v
    BY <1>1, <2>1, ReadsIs
  <2>7. ty # "string"
    BY <1>1, KindsDiffer DEF Variable
  <2> QED
    BY <2>1, <2>3, <2>4, <2>5, <2>6, <2>7
<1>2. CASE ty \in Prefixed
  <2> DEFINE body == IF ty = "vec_u64" THEN Elements(v) ELSE v
             head == ToLeBytes(Len(v), 4)
             m == Len(body)
             c == Len(v)
  <2>1. /\ ty \in Variable => v \in ByteStrings /\ c <= MaxCount
        /\ ty = "vec_u64" => /\ v \in Seq(Nat) /\ c <= MaxCount
                             /\ \A i \in DOMAIN v : InWidth(v[i], 8, FALSE)
    BY Zenon DEF HasType, ByteStrings, Byte
  <2>2. c \in Nat /\ c <= MaxCount
    <3>1. ty \in Variable => v \in ByteStrings
      BY <2>1
    <3>2. ty = "vec_u64" => v \in Seq(Nat)
      BY <2>1
    <3>3. c \in Nat
      BY <1>2, <3>1, <3>2, LenProperties DEF Prefixed, ByteStrings
    <3> QED
      BY <1>2, <2>1, <3>3 DEF Prefixed
  <2>3. head \in ByteStrings /\ Len(head) = 4 /\ FromLeBytes(head, TRUE) = c
    <3> HIDE DEF c
    <3>1. c \in Int
      BY <2>2
    <3>2. 4 \in Nat /\ 4 \in Nat \ {0} /\ TRUE \in BOOLEAN
      OBVIOUS
    <3>3. InWidth(c, 4, TRUE)
      BY <2>2, CountFits
    <3> QED
      BY <3>1, <3>2, <3>3, BytesOfNumber, WrittenThenRead DEF c
  <2>4. body \in ByteStrings /\ (ty = "vec_u64" => m = 8 * c /\ ReadVecU64(body) = v)
        /\ (ty \in Variable => m = c /\ body = v)
    <3>1. CASE ty = "vec_u64"
      <4>1. v \in Seq(Nat) /\ \A i \in DOMAIN v : InWidth(v[i], 8, FALSE)
        BY <2>1, <3>1
      <4>2. Elements(v) \in ByteStrings /\ Len(Elements(v)) = 8 * c /\ ReadVecU64(Elements(v)) = v
        BY <4>1, VecWritten
      <4>3. body = Elements(v) /\ ty \notin Variable
        BY <3>1, KindsDiffer
      <4> QED
        BY <3>1, <4>2, <4>3
    <3>2. CASE ty # "vec_u64"
      <4>1. ty \in Variable /\ body = v
        BY <1>2, <3>2 DEF Prefixed
      <4> QED
        BY <2>1, <3>2, <4>1
    <3> QED
      BY <3>1, <3>2
  <2>5. e = head \o body
    <3>1. CASE ty = "vec_u64"
      BY <3>1, EncodeIs
    <3>2. CASE ty # "vec_u64"
      <4>1. ty \in Variable /\ body = v
        BY <1>2, <3>2 DEF Prefixed
      <4> QED
        BY <4>1, EncodeIs
    <3> QED
      BY <3>1, <3>2
  <2> HIDE DEF head, body
  <2>6. m \in Nat /\ Len(e) = 4 + m
    <3>1. head \in Seq(Byte) /\ body \in Seq(Byte)
      BY <2>3, <2>4 DEF ByteStrings
    <3>2. Len(head \o body) = Len(head) + Len(body)
      BY <3>1, ConcatProperties
    <3>3. Len(body) \in Nat
      BY <3>1, LenProperties
    <3> QED
      BY <2>3, <2>5, <3>2, <3>3
  <2>7. pos + Len(e) = (pos + 4) + m /\ (pos + 4) + m <= l
    <3> DEFINE k == Len(e)
    <3>1. k = 4 + m /\ pos + k <= l
      BY <2>6
    <3> HIDE DEF k, m, l
    <3>2. pos + k = (pos + 4) + m /\ (pos + 4) + m <= l
      BY <1>0, <2>6, <3>1
    <3> QED
      BY <3>2 DEF k
  <2>8. SubSeq(data, pos + 1, pos + 4) = head /\ SubSeq(data, (pos + 4) + 1, (pos + 4) + m) = body
    <3>1. Joined(data, pos, head, body)
      BY <2>3, <2>5, <2>7 DEF Joined
    <3>2. data \in Seq(Byte) /\ head \in Seq(Byte) /\ body \in Seq(Byte)
      BY <2>3, <2>4 DEF ByteStrings
    <3>3. Apart(data, pos, head, body)
      BY <1>0, <3>1, <3>2, SplitPiece
    <3> QED
      BY <2>3, <3>3 DEF Apart
  <2>9. Has(data, pos, 4) /\ Count(data, pos) = c
    <3>1. 4 <= l - pos
      <4> HIDE DEF l, m
      <4> QED
        BY <1>0, <2>6, <2>7
    <3>2. Has(data, pos, 4)
      BY <3>1 DEF Has
    <3>3. Taken(data, pos, 4) = head
      BY <2>8 DEF Taken
    <3> QED
      BY <2>3, <3>2, <3>3 DEF Count
  <2>10. From(pos, ty) = pos + 4
    BY <1>2 DEF From
  <2>11. PieceSize(data, pos, ty) = m
    <3>1. CASE ty = "vec_u64"
      <4>1. m = 8 * c
        BY <2>4, <3>1
      <4>2. c <= l
        <5> HIDE DEF c, m, l
        <5> QED
          BY <1>0, <2>2, <2>7, <4>1
      <4> QED
        BY <1>2, <2>9, <3>1, <4>1, <4>2 DEF PieceSize
    <3>2. CASE ty # "vec_u64"
      BY <1>2, <2>4, <2>9, <3>2 DEF PieceSize, Prefixed
    <3> QED
      BY <3>1, <3>2
  <2>12. Has(data, pos + 4, m)
    <3>1. m >= 0 /\ m <= l - (pos + 4)
      <4> HIDE DEF l, m
      <4> QED
        BY <1>0, <2>6, <2>7
    <3> QED
      BY <3>1 DEF Has
  <2>13. Piece(data, pos, ty) = body
    BY <2>8, <2>10, <2>11 DEF Piece, Taken
  <2>14. Reads(ty, body, text) = v /\ (ty = "string" => Ascii(body))
    <3>1. CASE ty = "vec_u64"
      <4>1. Reads(ty, body, text) = ReadVecU64(body)
        BY <3>1, ReadsIs
      <4> QED
        BY <2>4, <3>1, <4>1
    <3>2. CASE ty = "bytes"
      <4>1. Reads(ty, body, text) = body /\ ty \in Variable
        BY <3>2, ReadsIs DEF Variable
      <4> QED
        BY <2>4, <3>2, <4>1
    <3>3. CASE ty = "string"
      <4>1. Reads(ty, body, text) = (IF text = "decoded" THEN DecodeUnsafe(body) ELSE body)
            /\ ty \in Variable
        BY <3>3, ReadsIs DEF Variable
      <4>2. body = v
        BY <2>4, <4>1
      <4>3. Ascii(body)
        BY <3>3, <4>2 DEF HasType
      <4>4. DecodeUnsafe(body) = body
        BY <2>4, <4>3, AsciiKept
      <4> QED
        BY <3>3, <4>1, <4>2, <4>3, <4>4
    <3> QED
      BY <1>2, <3>1, <3>2, <3>3 DEF Prefixed, Variable
  <2>15. ty # "bool"
    BY <1>2 DEF Prefixed, Variable
  <2> HIDE DEF m
  <2>16. From(pos, ty) + PieceSize(data, pos, ty) = pos + Len(e)
    BY <2>7, <2>10, <2>11
  <2> QED
    BY <2>10, <2>11, <2>12, <2>13, <2>14, <2>15, <2>16
<1> QED
  BY <1>1, <1>2 DEF Ty

CursorType(data) == [ok : BOOLEAN, pos : 0 .. Len(data), values : Seq(Datum)]

GotField(data, cur, ty, text) == Reads(ty, Piece(data, cur.pos, ty), text)

LEMMA StartIsCursor ==
  ASSUME NEW data \in ByteStrings
  PROVE  NewDecoder \in CursorType(data) /\ NewDecoder.ok /\ NewDecoder.pos = 0 /\ NewDecoder.values = <<>>
<1>1. 0 \in 0 .. Len(data)
  <2>1. Len(data) \in Nat
    BY DEF ByteStrings
  <2> QED
    BY <2>1
<1> QED
  BY <1>1, EmptySeq DEF NewDecoder, Cursor, CursorType

LEMMA CursorIs ==
  ASSUME NEW ok, NEW pos, NEW values
  PROVE  LET c == Cursor(ok, pos, values)
         IN  c.ok = ok /\ c.pos = pos /\ c.values = values
BY DEF Cursor

\* A field that is taken, by any decoder.
LEMMA FieldOk ==
  ASSUME NEW data \in ByteStrings, NEW cur \in CursorType(data), NEW ty \in Ty, NEW bools, NEW text
  PROVE  LET next == Field(data, cur, ty, bools, text)
             v    == GotField(data, cur, ty, text)
         IN  /\ next \in CursorType(data)
             /\ next.ok =>
                  /\ cur.ok /\ cur.pos <= next.pos
                  /\ FitsOne(ty, v) /\ v \in Datum /\ next.values = Append(cur.values, v)
                  /\ bools \subseteq {0, 1} /\ text # "decoded" =>
                       Encode(ty, v) = SubSeq(data, cur.pos + 1, next.pos)
<1> DEFINE next == Field(data, cur, ty, bools, text)  v == GotField(data, cur, ty, text)
           pos == cur.pos  from == From(pos, ty)  n == PieceSize(data, pos, ty)
<1>0. cur.ok \in BOOLEAN /\ pos \in 0 .. Len(data) /\ cur.values \in Seq(Datum)
  BY DEF CursorType
<1>1. CASE Refuses(data, cur, ty, bools, text)
  <2>1. next = Cursor(FALSE, pos, <<>>)
    BY <1>1, FieldIs
  <2> HIDE DEF next
  <2>2. ~ next.ok /\ next \in CursorType(data)
    BY <1>0, <2>1, EmptySeq DEF Cursor, CursorType
  <2> QED
    BY <2>2 DEF next
<1>2. CASE ~ Refuses(data, cur, ty, bools, text)
  <2>1. next = Cursor(TRUE, from + n, Append(cur.values, v))
    BY <1>2, FieldIs DEF GotField
  <2>2. /\ cur.ok /\ Has(data, from, n)
        /\ ty = "bool" => Piece(data, pos, ty)[1] \in bools
    BY <1>2 DEF Refuses
  <2>3. from + n \in 0 .. Len(data) /\ pos <= from + n
    <3>1. from \in Nat /\ n \in Nat /\ pos <= from /\ from + n \in 0 .. Len(data)
      BY <1>0, <2>2, PieceOfField
    <3>2. pos \in Int
      BY <1>0
    <3> HIDE DEF from, n, pos
    <3> QED
      BY <3>1, <3>2
  <2>4. FitsOne(ty, v) /\ v \in Datum
    BY <1>0, <2>2, FieldFits DEF GotField
  <2>5. ASSUME bools \subseteq {0, 1}, text # "decoded"
        PROVE  Encode(ty, v) = SubSeq(data, pos + 1, from + n)
    <3>1. ty = "bool" => Piece(data, pos, ty)[1] \in {0, 1}
      BY <2>2, <2>5
    <3> QED
      BY <1>0, <2>2, <2>5, <3>1, FieldExact DEF GotField
  <2> DEFINE q == from + n  vs == Append(cur.values, v)
  <2>6. vs \in Seq(Datum)
    BY <1>0, <2>4, AppendProperties
  <2>7. next = Cursor(TRUE, q, vs) /\ q \in 0 .. Len(data) /\ pos <= q
    BY <2>1, <2>3
  <2> HIDE DEF next, q, vs, v
  <2>8. next.ok = TRUE /\ next.pos = q /\ next.values = vs /\ next \in CursorType(data)
    BY <2>6, <2>7 DEF Cursor, CursorType
  <2>9. /\ next \in CursorType(data) /\ cur.ok /\ pos <= next.pos
        /\ FitsOne(ty, v) /\ v \in Datum /\ next.values = Append(cur.values, v)
    BY <2>2, <2>4, <2>7, <2>8 DEF vs
  <2>10. bools \subseteq {0, 1} /\ text # "decoded" =>
           Encode(ty, v) = SubSeq(data, pos + 1, next.pos)
    BY <2>5, <2>8 DEF q
  <2> QED
    BY <2>9, <2>10 DEF next, v
<1> QED
  BY <1>1, <1>2

\* What the strict decoder takes, the two others take alike.
LEMMA FieldAgrees ==
  ASSUME NEW data \in ByteStrings, NEW cur \in CursorType(data), NEW ty \in Ty,
         Field(data, cur, ty, {0, 1}, "strict").ok
  PROVE  /\ Field(data, cur, ty, {0, 1}, "raw") = Field(data, cur, ty, {0, 1}, "strict")
         /\ Field(data, cur, ty, 0 .. 255, "decoded") = Field(data, cur, ty, {0, 1}, "strict")
<1> DEFINE pos == cur.pos  b == Piece(data, pos, ty)
<1>0. pos \in 0 .. Len(data)
  BY DEF CursorType
<1>1. ~ Refuses(data, cur, ty, {0, 1}, "strict")
  <2> SUFFICES ASSUME Refuses(data, cur, ty, {0, 1}, "strict") PROVE FALSE
    OBVIOUS
  <2>1. Field(data, cur, ty, {0, 1}, "strict") = Cursor(FALSE, pos, <<>>)
    BY FieldIs
  <2>2. Cursor(FALSE, pos, <<>>).ok = FALSE
    BY DEF Cursor
  <2> QED
    BY Zenon, <2>1, <2>2
<1>2. /\ cur.ok /\ Has(data, From(pos, ty), PieceSize(data, pos, ty))
      /\ ty = "bool" => b[1] \in {0, 1}
      /\ ty = "string" => Ascii(b)
  BY <1>1 DEF Refuses
<1>3. ~ Refuses(data, cur, ty, {0, 1}, "raw")
  BY <1>1 DEF Refuses
<1>4. ~ Refuses(data, cur, ty, 0 .. 255, "decoded")
  <2>1. {0, 1} \subseteq 0 .. 255
    OBVIOUS
  <2> QED
    BY <1>1, <2>1 DEF Refuses
<1>5. Reads(ty, b, "raw") = Reads(ty, b, "strict")
  BY DEF Reads
<1>6. Reads(ty, b, "decoded") = Reads(ty, b, "strict")
  <2>1. CASE ty = "string"
    <3>1. b \in ByteStrings
      BY <1>0, <1>2, PieceOfField
    <3>2. DecodeUnsafe(b) = b
      BY <1>2, <2>1, <3>1, AsciiKept
    <3>3. Reads(ty, b, "decoded") = DecodeUnsafe(b)
      BY <2>1, ReadsIs
    <3>4. Reads(ty, b, "strict") = b
      BY <2>1, ReadsIs
    <3> QED
      BY <3>2, <3>3, <3>4
  <2>2. CASE ty # "string"
    BY <2>2 DEF Reads
  <2> QED
    BY <2>1, <2>2
<1> HIDE DEF b
<1>7. b = Piece(data, cur.pos, ty)
  BY DEF b
<1>8. Field(data, cur, ty, {0, 1}, "strict") =
        Cursor(TRUE, From(cur.pos, ty) + PieceSize(data, cur.pos, ty),
               Append(cur.values, Reads(ty, b, "strict")))
  BY <1>1, <1>7, FieldIs
<1>9. Field(data, cur, ty, {0, 1}, "raw") =
        Cursor(TRUE, From(cur.pos, ty) + PieceSize(data, cur.pos, ty),
               Append(cur.values, Reads(ty, b, "raw")))
  BY <1>3, <1>7, FieldIs
<1>10. Field(data, cur, ty, 0 .. 255, "decoded") =
        Cursor(TRUE, From(cur.pos, ty) + PieceSize(data, cur.pos, ty),
               Append(cur.values, Reads(ty, b, "decoded")))
  BY <1>4, <1>7, FieldIs
<1> QED
  BY <1>5, <1>6, <1>8, <1>9, <1>10

Takes(data, cur, ty, v, bools, text, e) ==
  Field(data, cur, ty, bools, text) = Cursor(TRUE, cur.pos + Len(e), Append(cur.values, v))

\* Every decoder takes the bytes of a value for the value.
LEMMA FieldTaken ==
  ASSUME NEW data \in ByteStrings, NEW cur \in CursorType(data), cur.ok, NEW ty \in Ty, NEW v,
         HasType(ty, v), NEW bools, {0, 1} \subseteq bools, NEW text, NEW e, e = Encode(ty, v),
         Lies(data, cur.pos, e)
  PROVE  Takes(data, cur, ty, v, bools, text, e)
<1> DEFINE pos == cur.pos
<1>0. pos \in 0 .. Len(data)
  BY DEF CursorType
<1>1. Found(data, pos, ty, v, text, e)
  BY <1>0, FieldFound
<1>2. ~ Refuses(data, cur, ty, bools, text)
  BY <1>1 DEF Refuses, Found
<1> QED
  BY <1>1, <1>2, FieldIs DEF Found, Takes

-----------------------------------------------------------------------------
(* A whole tuple: the decoders fold Field over the types *)

Cursors(tys, data, bools, text) ==
  FoldLeft(LAMBDA cur, ty : Field(data, cur, ty, bools, text), NewDecoder, tys)

\* The cursor after each of the fields.
IsCursors(c, tys, data, bools, text) ==
  /\ c \in [0 .. Len(tys) -> CursorType(data)] /\ c[0] = NewDecoder
  /\ \A k \in 1 .. Len(tys) : c[k] = Field(data, c[k - 1], tys[k], bools, text)

LEMMA CursorsIs ==
  ASSUME NEW tys \in Seq(Ty), NEW data \in ByteStrings, NEW bools, NEW text
  PROVE  \E c : /\ IsCursors(c, tys, data, bools, text)
                /\ Cursors(tys, data, bools, text) = c[Len(tys)]
<1> DEFINE n == Len(tys)  V == CursorType(data)
           step == [p \in (1 .. n) \X V |-> Field(data, p[2], tys[p[1]], bools, text)]
<1>0. n \in Nat /\ DOMAIN tys = 1 .. n /\ \A k \in 1 .. n : tys[k] \in Ty
  BY ElementOfSeq
<1>1. step \in [(1 .. n) \X V -> V]
  <2>1. ASSUME NEW p \in (1 .. n) \X V PROVE Field(data, p[2], tys[p[1]], bools, text) \in V
    <3>1. p[2] \in V /\ tys[p[1]] \in Ty
      BY <1>0
    <3> QED
      BY <3>1, FieldOk
  <2> QED
    BY <2>1
<1>2. NewDecoder \in V
  BY StartIsCursor
<1>3. \E g : IsLeftFold(g, n, V, NewDecoder, step)
  <2> HIDE DEF step, n, V
  <2> QED
    BY <1>0, <1>1, <1>2, LeftFold
<1>4. PICK g : IsLeftFold(g, n, V, NewDecoder, step)
  BY <1>3
<1>5. ASSUME NEW s \in SUBSET (1 .. n)
      PROVE  g[s] = IF s = {} THEN NewDecoder ELSE Field(data, g[s \ {Max(s)}], tys[Max(s)], bools, text)
  <2>1. s # {} => Max(s) \in 1 .. n /\ g[s \ {Max(s)}] \in V
    BY <1>0, <1>4, MaxIs DEF IsLeftFold
  <2>2. s # {} => step[<<Max(s), g[s \ {Max(s)}]>>]
                    = Field(data, g[s \ {Max(s)}], tys[Max(s)], bools, text)
    BY <2>1
  <2> HIDE DEF step
  <2> QED
    BY <1>4, <2>2 DEF IsLeftFold
<1> HIDE DEF step
<1> DEFINE Rec(f) == [s \in SUBSET DOMAIN tys |->
                        IF s = {} THEN NewDecoder
                        ELSE Field(data, f[s \ {Max(s)}], tys[Max(s)], bools, text)]
           it == CHOOSE f : f = Rec(f)
<1>6. g = Rec(g)
  <2>1. g = [s \in SUBSET (1 .. n) |-> g[s]] /\ DOMAIN tys = 1 .. n
    BY <1>0, <1>4 DEF IsLeftFold
  <2> HIDE DEF n
  <2> QED
    BY <1>5, <2>1
<1>7. it = Rec(it)
  <2> HIDE DEF Rec
  <2> QED
    BY <1>6
<1>8. Cursors(tys, data, bools, text) = it[DOMAIN tys]
  BY DEF Cursors, FoldLeft, MapThenFoldSet
<1> HIDE DEF it
<1>9. it[{}] = NewDecoder /\ \A s \in SUBSET (1 .. n) : s # {} =>
        it[s] = Field(data, it[s \ {Max(s)}], tys[Max(s)], bools, text)
  BY <1>0, <1>7
<1> DEFINE c == [k \in 0 .. n |-> it[1 .. k]]
<1>10. c[0] = NewDecoder /\ c[n] = it[DOMAIN tys]
  <2>1. 0 \in 0 .. n /\ n \in 0 .. n /\ 1 .. 0 = {}
    BY <1>0
  <2> QED
    BY <1>0, <1>9, <2>1
<1>11. ASSUME NEW k \in 1 .. n PROVE c[k] = Field(data, c[k - 1], tys[k], bools, text)
  <2>1. /\ Max(1 .. k) = k /\ (1 .. k) \ {k} = 1 .. k - 1
        /\ 1 .. k \in SUBSET (1 .. n) /\ 1 .. k # {}
    BY <1>0, Ends
  <2>2. k \in 0 .. n /\ k - 1 \in 0 .. n
    BY <1>0
  <2>3. c[k] = it[1 .. k] /\ c[k - 1] = it[1 .. k - 1]
    BY <2>2
  <2> HIDE DEF c
  <2> QED
    BY <1>9, <2>1, <2>3
<1>12. \A k \in 0 .. n : c[k] \in V
  <2> DEFINE T == {k \in 0 .. n : c[k] \in V}
  <2>1. 0 \in T
    <3>1. 0 \in 0 .. n
      BY <1>0
    <3> HIDE DEF c
    <3> QED
      BY <1>2, <1>10, <3>1
  <2>2. ASSUME NEW k \in 1 .. n, k - 1 \in T PROVE k \in T
    <3>1. c[k - 1] \in V /\ k \in 0 .. n
      BY <1>0, <2>2
    <3> HIDE DEF c
    <3>2. c[k] \in V
      BY <1>0, <1>11, <3>1, FieldOk
    <3> QED
      BY <3>1, <3>2
  <2>3. \A k \in 0 .. n : k \in T
    <3> HIDE DEF T
    <3> QED
      BY <1>0, <2>1, <2>2, UpTo
  <2> QED
    BY <2>3
<1>13. c \in [0 .. n -> V]
  <2>1. c = [k \in 0 .. n |-> c[k]]
    OBVIOUS
  <2> HIDE DEF c
  <2> QED
    BY <1>12, <2>1
<1> HIDE DEF c
<1>14. IsCursors(c, tys, data, bools, text)
  BY <1>10, <1>11, <1>13 DEF IsCursors
<1> QED
  BY <1>8, <1>10, <1>14

\* A decoder that ends well took every field.
LEMMA AllTaken ==
  ASSUME NEW tys \in Seq(Ty), NEW data \in ByteStrings, NEW bools, NEW text, NEW c,
         IsCursors(c, tys, data, bools, text), c[Len(tys)].ok
  PROVE  \A k \in 0 .. Len(tys) : c[k].ok
<1> DEFINE n == Len(tys)  T == {j \in 0 .. n : c[n - j].ok}
<1>0. n \in Nat /\ (\A k \in 1 .. n : tys[k] \in Ty) /\ \A k \in 0 .. n : c[k] \in CursorType(data)
  BY ElementOfSeq DEF IsCursors
<1>1. 0 \in T
  <2>1. n - 0 = n /\ 0 \in 0 .. n
    BY <1>0
  <2> QED
    BY <2>1
<1>2. ASSUME NEW j \in 1 .. n, j - 1 \in T PROVE j \in T
  <2> DEFINE k == n - (j - 1)
  <2>1. k \in 1 .. n /\ k - 1 = n - j /\ k - 1 \in 0 .. n /\ j \in 0 .. n
    BY <1>0
  <2>2. c[k].ok
    BY <1>2
  <2> HIDE DEF k, n
  <2>3. c[k] = Field(data, c[k - 1], tys[k], bools, text)
    BY <2>1 DEF IsCursors, n
  <2>4. c[k - 1] \in CursorType(data) /\ tys[k] \in Ty
    BY <1>0, <2>1
  <2> DEFINE cur == c[k - 1]  ty == tys[k]
  <2> HIDE DEF cur, ty
  <2>5. cur \in CursorType(data) /\ ty \in Ty /\ Field(data, cur, ty, bools, text).ok
    BY <2>2, <2>3, <2>4 DEF cur, ty
  <2>6. cur.ok
    BY <2>5, FieldOk
  <2> QED
    BY <2>1, <2>6 DEF cur
<1>3. \A j \in 0 .. n : j \in T
  <2> HIDE DEF T, n
  <2> QED
    BY <1>0, <1>1, <1>2, UpTo
<1> HIDE DEF T
<1>4. ASSUME NEW k \in 0 .. n PROVE c[k].ok
  <2>1. n - k \in 0 .. n /\ n - (n - k) = k
    BY <1>0
  <2>2. c[n - (n - k)].ok
    BY <1>3, <2>1 DEF T
  <2> QED
    BY <2>1, <2>2
<1> QED
  BY <1>4

\* The values a decoder ends with: one of the field's shape for each type.
LEMMA AllRead ==
  ASSUME NEW tys \in Seq(Ty), NEW data \in ByteStrings, NEW bools, NEW text, NEW c,
         IsCursors(c, tys, data, bools, text), c[Len(tys)].ok
  PROVE  LET vals == c[Len(tys)].values
         IN  /\ vals \in Seq(Datum) /\ Len(vals) = Len(tys)
             /\ \A k \in 1 .. Len(tys) :
                  FitsOne(tys[k], vals[k]) /\ vals[k] = GotField(data, c[k - 1], tys[k], text)
<1> DEFINE n == Len(tys)  got == [k \in 1 .. n |-> GotField(data, c[k - 1], tys[k], text)]
           T == {k \in 0 .. n : /\ c[k].values \in Seq(Datum) /\ Len(c[k].values) = k
                                /\ \A i \in 1 .. k : c[k].values[i] = got[i]}
<1>0. n \in Nat /\ (\A k \in 1 .. n : tys[k] \in Ty) /\ \A k \in 0 .. n : c[k] \in CursorType(data)
  BY ElementOfSeq DEF IsCursors
<1>1. ASSUME NEW k \in 1 .. n
      PROVE  /\ c[k].values = Append(c[k - 1].values, got[k])
             /\ got[k] \in Datum /\ FitsOne(tys[k], got[k])
  <2> DEFINE cur == c[k - 1]  ty == tys[k]
  <2>1. k \in 0 .. n /\ k - 1 \in 0 .. n /\ c[k].ok
    BY <1>0, AllTaken
  <2>2. cur \in CursorType(data) /\ ty \in Ty /\ c[k] = Field(data, cur, ty, bools, text)
    BY <1>0, <2>1 DEF IsCursors
  <2>3. got[k] = GotField(data, cur, ty, text)
    OBVIOUS
  <2> HIDE DEF cur, ty, got
  <2>4. Field(data, cur, ty, bools, text).ok
    BY <2>1, <2>2
  <2>5. /\ FitsOne(ty, GotField(data, cur, ty, text)) /\ GotField(data, cur, ty, text) \in Datum
        /\ Field(data, cur, ty, bools, text).values = Append(cur.values, GotField(data, cur, ty, text))
    BY <2>2, <2>4, FieldOk
  <2> QED
    BY <2>2, <2>3, <2>5 DEF cur, ty
<1> HIDE DEF got
<1>2. 0 \in T
  <2>1. c[0].values = <<>>
    BY StartIsCursor DEF IsCursors
  <2>2. 0 \in 0 .. n /\ 1 .. 0 = {}
    BY <1>0
  <2> QED
    BY <2>1, <2>2, EmptySeq
<1>3. ASSUME NEW k \in 1 .. n, k - 1 \in T PROVE k \in T
  <2> DEFINE old == c[k - 1].values  new == c[k].values
  <2>1. old \in Seq(Datum) /\ Len(old) = k - 1 /\ \A i \in 1 .. k - 1 : old[i] = got[i]
    BY <1>3
  <2>2. new = Append(old, got[k]) /\ got[k] \in Datum
    BY <1>1
  <2>3. k \in 0 .. n
    BY <1>0
  <2>7. k \in 1 .. n
    OBVIOUS
  <2> HIDE DEF old, new
  <2>4. /\ new \in Seq(Datum) /\ Len(new) = Len(old) + 1
        /\ \A i \in 1 .. Len(old) : new[i] = old[i]
        /\ new[Len(old) + 1] = got[k]
    BY <2>1, <2>2, AppendProperties
  <2>5. Len(new) = k /\ Len(old) + 1 = k
    <3> DEFINE x == Len(old)  y == Len(new)
    <3>1. x = k - 1 /\ y = x + 1
      BY <2>1, <2>4
    <3> HIDE DEF x, y
    <3>2. y = k /\ x + 1 = k
      BY <1>0, <3>1
    <3> QED
      BY <3>2 DEF x, y
  <2>6. \A i \in 1 .. k : new[i] = got[i]
    <3> TAKE i \in 1 .. k
    <3>1. CASE i = k
      BY <2>4, <2>5, <3>1
    <3>2. CASE i # k
      <4>1. i \in 1 .. k - 1
        BY <1>0, <2>7, <3>2
      <4> QED
        BY <2>1, <2>4, <4>1
    <3> QED
      BY <3>1, <3>2
  <2> QED
    BY <2>3, <2>4, <2>5, <2>6 DEF new
<1>4. n \in T
  <2>1. \A k \in 0 .. n : k \in T
    <3> HIDE DEF T, n
    <3> QED
      BY <1>0, <1>2, <1>3, UpTo
  <2>2. n \in 0 .. n
    BY <1>0
  <2> HIDE DEF T
  <2> QED
    BY <2>1, <2>2
<1>5. c[n].values \in Seq(Datum) /\ Len(c[n].values) = n /\ \A i \in 1 .. n : c[n].values[i] = got[i]
  BY <1>4
<1>6. \A k \in 1 .. n : got[k] = GotField(data, c[k - 1], tys[k], text)
  BY DEF got
<1> QED
  BY <1>1, <1>5, <1>6

\* A decoder that takes nothing but zero and one for a boolean, and keeps the
\* bytes of a string, has read the encoding of the values it ends with.
LEMMA ReadExactly ==
  ASSUME NEW tys \in Seq(Ty), NEW data \in ByteStrings, NEW bools, bools \subseteq {0, 1},
         NEW text, text # "decoded", NEW c,
         IsCursors(c, tys, data, bools, text), c[Len(tys)].ok
  PROVE  EncodeAll(tys, c[Len(tys)].values) = SubSeq(data, 1, c[Len(tys)].pos)
<1> DEFINE n == Len(tys)  vals == c[n].values
           seqs == [i \in DOMAIN tys |-> Encode(tys[i], vals[i])]
           at(k) == c[k].pos
<1>0. /\ n \in Nat /\ DOMAIN tys = 1 .. n /\ \A k \in 1 .. n : tys[k] \in Ty
      /\ \A k \in 0 .. n : c[k] \in CursorType(data)
  BY ElementOfSeq DEF IsCursors
<1>1. \A k \in 0 .. n : at(k) \in 0 .. Len(data) /\ at(k) \in Nat
  <2>1. \A k \in 0 .. n : at(k) \in 0 .. Len(data)
    BY <1>0 DEF CursorType
  <2> HIDE DEF at
  <2> QED
    BY <2>1
<1>2. ASSUME NEW k \in 1 .. n
      PROVE  /\ at(k - 1) <= at(k) /\ Encode(tys[k], vals[k]) = SubSeq(data, at(k - 1) + 1, at(k))
  <2> DEFINE cur == c[k - 1]  ty == tys[k]
  <2>1. k \in 0 .. n /\ k - 1 \in 0 .. n /\ c[k].ok
    BY <1>0, AllTaken
  <2>2. cur \in CursorType(data) /\ ty \in Ty /\ c[k] = Field(data, cur, ty, bools, text)
    BY <1>0, <2>1 DEF IsCursors
  <2>3. vals[k] = GotField(data, cur, ty, text)
    BY AllRead
  <2> HIDE DEF cur, ty, vals
  <2>4. Field(data, cur, ty, bools, text).ok
    BY <2>1, <2>2
  <2>5. /\ cur.pos <= Field(data, cur, ty, bools, text).pos
        /\ Encode(ty, GotField(data, cur, ty, text))
             = SubSeq(data, cur.pos + 1, Field(data, cur, ty, bools, text).pos)
    BY <2>2, <2>4, FieldOk
  <2> QED
    BY <2>2, <2>3, <2>5 DEF cur, ty
<1> HIDE DEF vals
<1>3. ASSUME NEW k \in 1 .. n
      PROVE  /\ seqs[k] = SubSeq(data, at(k - 1) + 1, at(k)) /\ seqs[k] \in ByteStrings
             /\ SubSeq(data, 1, at(k - 1)) \o seqs[k] = SubSeq(data, 1, at(k))
  <2> DEFINE p == at(k - 1)  q == at(k)
  <2>1. k \in 0 .. n /\ k - 1 \in 0 .. n
    BY <1>0
  <2>2. /\ p \in Nat /\ q \in Nat /\ p <= q /\ q <= Len(data)
        /\ Encode(tys[k], vals[k]) = SubSeq(data, p + 1, q)
    <3>1. p \in Nat /\ q \in Nat /\ q \in 0 .. Len(data)
      BY <1>1, <2>1
    <3> HIDE DEF at
    <3>2. q <= Len(data)
      BY <3>1
    <3> QED
      BY <1>2, <3>1, <3>2
  <2>3. seqs[k] = SubSeq(data, p + 1, q)
    BY <1>0, <2>2
  <2> HIDE DEF p, q, seqs
  <2>4. /\ SubSeq(data, p + 1, q) \in ByteStrings
        /\ SubSeq(data, 1, p) \o SubSeq(data, p + 1, q) = SubSeq(data, 1, q)
    BY <2>2, PieceIs, Pieces DEF ByteStrings
  <2>5. seqs[k] \in ByteStrings /\ SubSeq(data, 1, p) \o seqs[k] = SubSeq(data, 1, q)
    BY <2>3, <2>4
  <2> QED
    BY <2>3, <2>5 DEF p, q
<1>4. seqs \in Seq(Seq(Byte)) /\ Len(seqs) = n
  <2>1. seqs = [i \in 1 .. n |-> seqs[i]]
    BY <1>0
  <2> HIDE DEF seqs
  <2>2. seqs \in [1 .. n -> ByteStrings]
    BY <1>3, <2>1
  <2>3. seqs \in Seq(ByteStrings) /\ Len(seqs) = n
    BY <1>0, <2>2
  <2> QED
    BY <2>3 DEF ByteStrings
<1>5. EncodeAll(tys, vals) = FlattenSeq(seqs)
  BY DEF EncodeAll
<1> HIDE DEF seqs
<1>6. PICK f : IsFlat(f, seqs, Byte) /\ FlattenSeq(seqs) = f[Len(seqs)]
  BY <1>4, FlattenIs
<1> DEFINE T == {k \in 0 .. n : f[k] = SubSeq(data, 1, at(k))}
<1>7. 0 \in T
  <2>1. f[0] = <<>> /\ at(0) = 0
    BY <1>6, StartIsCursor DEF IsFlat, IsCursors
  <2>2. SubSeq(data, 1, 0) = <<>>
    BY SubSeqEmpty
  <2>3. 0 \in 0 .. n
    BY <1>0
  <2> HIDE DEF at
  <2> QED
    BY <2>1, <2>2, <2>3
<1>8. ASSUME NEW k \in 1 .. n, k - 1 \in T PROVE k \in T
  <2>1. f[k - 1] = SubSeq(data, 1, at(k - 1))
    BY <1>8
  <2>2. k \in 0 .. n
    BY <1>0
  <2>3. f[k] = f[k - 1] \o seqs[k]
    BY <1>4, <1>6 DEF IsFlat
  <2> HIDE DEF at
  <2>4. f[k] = SubSeq(data, 1, at(k))
    BY <1>3, <2>1, <2>3
  <2> QED
    BY <2>2, <2>4
<1>9. n \in T
  <2>1. \A k \in 0 .. n : k \in T
    <3> HIDE DEF T, n
    <3> QED
      BY <1>0, <1>7, <1>8, UpTo
  <2>2. n \in 0 .. n
    BY <1>0
  <2> HIDE DEF T
  <2> QED
    BY <2>1, <2>2
<1>10. f[n] = SubSeq(data, 1, at(n))
  BY <1>9
<1>11. EncodeAll(tys, vals) = f[n]
  BY <1>4, <1>5, <1>6
<1> QED
  BY <1>10, <1>11 DEF vals

\* What the strict decoder takes as a whole, the two others take alike.
LEMMA AllAgree ==
  ASSUME NEW tys \in Seq(Ty), NEW data \in ByteStrings, NEW c, NEW bools, NEW text, NEW d,
         <<bools, text>> \in {<<{0, 1}, "raw">>, <<0 .. 255, "decoded">>},
         IsCursors(c, tys, data, {0, 1}, "strict"), c[Len(tys)].ok,
         IsCursors(d, tys, data, bools, text)
  PROVE  d[Len(tys)] = c[Len(tys)]
<1> DEFINE n == Len(tys)  T == {k \in 0 .. n : d[k] = c[k]}
<1>0. n \in Nat /\ (\A k \in 1 .. n : tys[k] \in Ty) /\ \A k \in 0 .. n : c[k] \in CursorType(data)
  BY ElementOfSeq DEF IsCursors
<1>1. 0 \in T
  <2>1. d[0] = c[0] /\ 0 \in 0 .. n
    BY <1>0 DEF IsCursors
  <2> QED
    BY <2>1
<1>2. ASSUME NEW k \in 1 .. n, k - 1 \in T PROVE k \in T
  <2> DEFINE cur == c[k - 1]  ty == tys[k]
  <2>1. k \in 0 .. n /\ k - 1 \in 0 .. n /\ c[k].ok /\ d[k - 1] = cur
    BY <1>0, <1>2, AllTaken
  <2>2. /\ cur \in CursorType(data) /\ ty \in Ty
        /\ c[k] = Field(data, cur, ty, {0, 1}, "strict")
    BY <1>0, <2>1 DEF IsCursors
  <2>3. d[k] = Field(data, cur, ty, bools, text)
    BY <1>0, <2>1 DEF IsCursors
  <2> HIDE DEF cur, ty
  <2>4. Field(data, cur, ty, {0, 1}, "strict").ok
    BY <2>1, <2>2
  <2>5. /\ Field(data, cur, ty, {0, 1}, "raw") = c[k]
        /\ Field(data, cur, ty, 0 .. 255, "decoded") = c[k]
    BY <2>2, <2>4, FieldAgrees
  <2>6. (bools = {0, 1} /\ text = "raw") \/ (bools = 0 .. 255 /\ text = "decoded")
    OBVIOUS
  <2>7. d[k] = c[k]
    BY <2>3, <2>5, <2>6
  <2> QED
    BY <2>1, <2>7
<1>3. \A k \in 0 .. n : k \in T
  <2> HIDE DEF T, n
  <2> QED
    BY <1>0, <1>1, <1>2, UpTo
<1>4. n \in 0 .. n
  BY <1>0
<1> QED
  BY <1>3, <1>4

\* A value of each type, in order.
IsTuple(tys, vals) ==
  /\ vals = [i \in 1 .. Len(tys) |-> vals[i]]
  /\ \A i \in 1 .. Len(tys) : HasType(tys[i], vals[i])

LEMMA EncodedTuple ==
  ASSUME NEW tys \in Seq(Ty), NEW vals, IsTuple(tys, vals)
  PROVE  LET seqs == [i \in DOMAIN tys |-> Encode(tys[i], vals[i])]
         IN  /\ seqs \in Seq(ByteStrings) /\ Len(seqs) = Len(tys)
             /\ \A i \in 1 .. Len(tys) : seqs[i] = Encode(tys[i], vals[i])
             /\ EncodeAll(tys, vals) = FlattenSeq(seqs) /\ EncodeAll(tys, vals) \in ByteStrings
<1> DEFINE n == Len(tys)  seqs == [i \in DOMAIN tys |-> Encode(tys[i], vals[i])]
<1>0. n \in Nat /\ DOMAIN tys = 1 .. n /\ \A k \in 1 .. n : tys[k] \in Ty
  BY ElementOfSeq
<1>1. \A i \in 1 .. n : seqs[i] = Encode(tys[i], vals[i]) /\ seqs[i] \in ByteStrings
  <2> TAKE i \in 1 .. n
  <2>1. seqs[i] = Encode(tys[i], vals[i])
    BY <1>0
  <2>2. Encode(tys[i], vals[i]) \in ByteStrings
    BY <1>0, EncodeTyped DEF IsTuple
  <2> QED
    BY <2>1, <2>2
<1>2. EncodeAll(tys, vals) = FlattenSeq(seqs)
  BY DEF EncodeAll
<1>3. seqs = [i \in 1 .. n |-> seqs[i]]
  BY <1>0
<1> HIDE DEF seqs
<1>4. seqs \in Seq(ByteStrings) /\ Len(seqs) = n
  <2>1. seqs \in [1 .. n -> ByteStrings]
    BY <1>1, <1>3
  <2> QED
    BY <1>0, <2>1
<1>5. FlattenSeq(seqs) \in ByteStrings
  <2>1. PICK f : IsFlat(f, seqs, Byte) /\ FlattenSeq(seqs) = f[Len(seqs)]
    BY <1>4, FlattenIs DEF ByteStrings
  <2>2. Len(seqs) \in 0 .. Len(seqs)
    BY <1>0, <1>4
  <2>3. f \in [0 .. Len(seqs) -> ByteStrings]
    BY <2>1 DEF IsFlat, ByteStrings
  <2> QED
    BY <2>1, <2>2, <2>3
<1> QED
  BY <1>1, <1>2, <1>4, <1>5 DEF seqs

TakesAll(end, data, vals) == end.ok /\ end.pos = Len(data) /\ end.values = vals

\* Every decoder takes the encoding of a tuple, all of it, for that tuple.
LEMMA TakenAll ==
  ASSUME NEW tys \in Seq(Ty), NEW vals, IsTuple(tys, vals), NEW data, data = EncodeAll(tys, vals),
         NEW bools, {0, 1} \subseteq bools, NEW text, NEW c, IsCursors(c, tys, data, bools, text)
  PROVE  TakesAll(c[Len(tys)], data, vals)
<1> DEFINE n == Len(tys)  seqs == [i \in DOMAIN tys |-> Encode(tys[i], vals[i])]
<1>0. n \in Nat /\ \A k \in 1 .. n : tys[k] \in Ty
  BY ElementOfSeq
<1>1. /\ seqs \in Seq(ByteStrings) /\ Len(seqs) = n /\ data = FlattenSeq(seqs) /\ data \in ByteStrings
      /\ \A i \in 1 .. n : seqs[i] = Encode(tys[i], vals[i])
  BY EncodedTuple
<1> HIDE DEF seqs
<1>2. PICK f : IsFlat(f, seqs, Byte) /\ FlattenSeq(seqs) = f[Len(seqs)]
  BY <1>1, FlattenIs DEF ByteStrings
<1>3. \A k \in 0 .. n : c[k] \in CursorType(data) /\ f[k] \in ByteStrings /\ Len(f[k]) \in Nat
  <2>1. \A k \in 0 .. n : c[k] \in CursorType(data)
    BY DEF IsCursors
  <2>2. \A k \in 0 .. n : f[k] \in ByteStrings
    BY <1>1, <1>2 DEF IsFlat, ByteStrings
  <2> QED
    BY <2>1, <2>2, LenProperties DEF ByteStrings
<1>4. ASSUME NEW k \in 1 .. n
      PROVE  LET e == Encode(tys[k], vals[k])
             IN  Len(f[k]) = Len(f[k - 1]) + Len(e) /\ Lies(data, Len(f[k - 1]), e)
  <2>1. seqs \in Seq(Seq(Byte)) /\ k \in 1 .. Len(seqs)
    BY <1>1 DEF ByteStrings
  <2>20. PieceLies(f, seqs, k)
    BY <1>2, <2>1, FlatPieces
  <2>2. /\ Len(f[k]) = Len(f[k - 1]) + Len(seqs[k])
        /\ Len(f[k]) <= Len(f[Len(seqs)])
        /\ SubSeq(f[Len(seqs)], Len(f[k - 1]) + 1, Len(f[k])) = seqs[k]
    BY <2>20 DEF PieceLies
  <2>3. data = f[Len(seqs)] /\ seqs[k] = Encode(tys[k], vals[k])
    BY <1>1, <1>2
  <2> DEFINE e == Encode(tys[k], vals[k])
  <2> HIDE DEF e
  <2>4. /\ Len(f[k]) = Len(f[k - 1]) + Len(e) /\ Len(f[k]) <= Len(data)
        /\ SubSeq(data, Len(f[k - 1]) + 1, Len(f[k])) = e
    BY <2>2, <2>3 DEF e
  <2>5. Lies(data, Len(f[k - 1]), e)
    BY <2>4 DEF Lies
  <2> QED
    BY <2>4, <2>5 DEF e
<1> DEFINE T == {k \in 0 .. n : c[k].ok /\ c[k].pos = Len(f[k])}
<1>5. 0 \in T
  <2>1. c[0].ok /\ c[0].pos = 0
    BY <1>1, StartIsCursor DEF IsCursors
  <2>2. Len(f[0]) = 0 /\ 0 \in 0 .. n
    BY <1>0, <1>2, EmptySeq DEF IsFlat
  <2> QED
    BY <2>1, <2>2
<1>6. ASSUME NEW k \in 1 .. n, k - 1 \in T PROVE k \in T
  <2> DEFINE cur == c[k - 1]  ty == tys[k]  v == vals[k]  e == Encode(ty, v)
  <2>1. k \in 0 .. n /\ k - 1 \in 0 .. n /\ cur.ok /\ cur.pos = Len(f[k - 1])
    BY <1>0, <1>6
  <2>2. cur \in CursorType(data) /\ ty \in Ty /\ HasType(ty, v)
    BY <1>0, <1>3, <2>1 DEF IsTuple
  <2>3. c[k] = Field(data, cur, ty, bools, text)
    BY DEF IsCursors
  <2>4. Lies(data, cur.pos, e) /\ Len(f[k]) = cur.pos + Len(e)
    BY <1>4, <2>1
  <2> HIDE DEF cur, ty, v, e
  <2>5. e = Encode(ty, v)
    BY DEF e
  <2>50. data \in ByteStrings
    BY <1>1
  <2>6. Takes(data, cur, ty, v, bools, text, e)
    BY <2>50, <2>1, <2>2, <2>4, <2>5, FieldTaken
  <2>60. c[k] = Cursor(TRUE, cur.pos + Len(e), Append(cur.values, v))
    BY <2>3, <2>6 DEF Takes
  <2>7. c[k].ok /\ c[k].pos = cur.pos + Len(e)
    BY <2>60 DEF Cursor
  <2> QED
    BY <2>1, <2>4, <2>7
<1>7. \A k \in 0 .. n : k \in T
  <2> HIDE DEF T, n
  <2> QED
    BY <1>0, <1>5, <1>6, UpTo
<1>8. \A k \in 0 .. n : c[k].ok /\ c[k].pos = Len(f[k])
  BY <1>7
<1> HIDE DEF T
<1>9. c[n].ok /\ c[n].pos = Len(data)
  <2>1. n \in 0 .. n
    BY <1>0
  <2> QED
    BY <1>1, <1>2, <1>8, <2>1
<1> DEFINE back == c[n].values
<1>10. ASSUME NEW k \in 1 .. n PROVE back[k] = vals[k]
  <2> DEFINE cur == c[k - 1]  ty == tys[k]  v == vals[k]  e == Encode(ty, v)
  <2>1. k - 1 \in 0 .. n /\ cur.pos = Len(f[k - 1])
    BY <1>0, <1>8
  <2>2. cur.pos \in 0 .. Len(data) /\ ty \in Ty /\ HasType(ty, v)
    BY <1>0, <1>3, <2>1 DEF IsTuple, CursorType
  <2>3. Lies(data, cur.pos, e)
    BY <1>4, <2>1
  <2>4. back[k] = GotField(data, cur, ty, text)
    BY <1>1, <1>9, AllRead
  <2> HIDE DEF cur, ty, v, e, back
  <2>5. e = Encode(ty, v)
    BY DEF e
  <2>6. Found(data, cur.pos, ty, v, text, e)
    BY <1>1, <2>2, <2>3, <2>5, FieldFound
  <2>7. back[k] = v
    BY <2>4, <2>6 DEF Found, GotField
  <2> QED
    BY <2>7 DEF v
<1>11. back = vals
  <2>1. back \in Seq(Datum) /\ Len(back) = n
    BY <1>1, <1>9, AllRead
  <2> HIDE DEF back
  <2>2. back = [i \in 1 .. n |-> back[i]]
    BY <2>1
  <2>3. vals = [i \in 1 .. n |-> vals[i]]
    BY DEF IsTuple
  <2> QED
    BY <1>10, <2>2, <2>3
<1> QED
  BY <1>9, <1>11 DEF TakesAll

LEMMA Decoders ==
  ASSUME NEW tys, NEW data
  PROVE  /\ RustPrefix(tys, data) = Cursors(tys, data, {0, 1}, "strict")
         /\ GoDecoder(tys, data) = Cursors(tys, data, {0, 1}, "raw")
         /\ BorshDecoder(tys, data) = Cursors(tys, data, 0 .. 255, "decoded")
<1>1. RustPrefix(tys, data) = Cursors(tys, data, {0, 1}, "strict")
  BY DEF RustPrefix, Cursors
<1>2. GoDecoder(tys, data) = Cursors(tys, data, {0, 1}, "raw")
  BY DEF GoDecoder, Cursors
<1>3. BorshDecoder(tys, data) = Cursors(tys, data, 0 .. 255, "decoded")
  BY DEF BorshDecoder, Cursors
<1> QED
  BY <1>1, <1>2, <1>3

\* Values of the shapes of their types.
Shaped(tys, vals) ==
  /\ vals \in Seq(Datum) /\ Len(vals) = Len(tys)
  /\ \A k \in 1 .. Len(tys) : FitsOne(tys[k], vals[k])

LEMMA TypedIsShaped ==
  ASSUME NEW ty \in Ty, NEW v, HasType(ty, v)
  PROVE  FitsOne(ty, v)
<1>1. ty = "bool" => v \in BOOLEAN
  BY Zenon DEF HasType
<1>2. ty \in Variable \cup Raw => \A j \in DOMAIN v : v[j] \in 0 .. 255 \cup {Garbled}
  <2> SUFFICES ASSUME ty \in Variable \cup Raw
               PROVE  \A j \in DOMAIN v : v[j] \in 0 .. 255 \cup {Garbled}
    OBVIOUS
  <2>1. v \in Seq(0 .. 255)
    BY Zenon DEF HasType, Raw
  <2>2. DOMAIN v = 1 .. Len(v)
    BY <2>1
  <2> QED
    BY <2>1, <2>2, ElementOfSeq
<1>3. ty = "vec_u64" => \A j \in DOMAIN v : v[j] \in Nat
  <2> SUFFICES ASSUME ty = "vec_u64" PROVE \A j \in DOMAIN v : v[j] \in Nat
    OBVIOUS
  <2>1. v \in Seq(Nat)
    BY Zenon DEF HasType
  <2>2. DOMAIN v = 1 .. Len(v)
    BY <2>1
  <2> QED
    BY <2>1, <2>2, ElementOfSeq
<1>4. ty \in DOMAIN Width \ ({"bool"} \cup Raw) => v \in Int
  <2> SUFFICES ASSUME ty \in DOMAIN Width \ ({"bool"} \cup Raw) PROVE v \in Int
    OBVIOUS
  <2>1. ty \in DOMAIN Width \ {"bool", "address", "hash32"}
    BY DEF Raw
  <2>2. InWidth(v, Width[ty], ty \in Signed)
    BY Zenon, <2>1 DEF HasType
  <2> QED
    BY <2>2 DEF InWidth
<1> QED
  BY <1>1, <1>2, <1>3, <1>4 DEF FitsOne

\* TryFromSlice, from its definition.
LEMMA TryFromSliceIs ==
  ASSUME NEW tys \in Seq(Ty), NEW data \in ByteStrings
  PROVE  LET d == TryFromSlice(tys, data)  c == RustPrefix(tys, data)
         IN  d.ok = (c.ok /\ c.pos = Len(data)) /\ d.values = c.values
<1>1. PICK c : /\ IsCursors(c, tys, data, {0, 1}, "strict")
               /\ Cursors(tys, data, {0, 1}, "strict") = c[Len(tys)]
  BY CursorsIs
<1> DEFINE cur == RustPrefix(tys, data)
<1>2. cur \in CursorType(data)
  <2>1. Len(tys) \in 0 .. Len(tys)
    <3>1. Len(tys) \in Nat
      OBVIOUS
    <3> QED
      BY <3>1
  <2> QED
    BY <1>1, <2>1, Decoders DEF IsCursors
<1>3. TryFromSlice(tys, data) = [cur EXCEPT !.ok = cur.ok /\ cur.pos = Len(data)]
  BY DEF TryFromSlice
<1> HIDE DEF cur
<1> QED
  BY <1>2, <1>3 DEF CursorType, cur

\* What try_from_slice takes is the encoding of what it makes of it, and the
\* two other decoders make the same of it.
LEMMA RustReads ==
  ASSUME NEW tys \in Seq(Ty), NEW data \in ByteStrings, TryFromSlice(tys, data).ok
  PROVE  LET vals == TryFromSlice(tys, data).values
         IN  /\ Shaped(tys, vals) /\ EncodeAll(tys, vals) = data
             /\ GoDecoder(tys, data).ok /\ GoDecoder(tys, data).values = vals
             /\ BorshDecoder(tys, data).ok /\ BorshDecoder(tys, data).values = vals
<1>1. PICK c : /\ IsCursors(c, tys, data, {0, 1}, "strict")
               /\ Cursors(tys, data, {0, 1}, "strict") = c[Len(tys)]
  BY CursorsIs
<1>2. PICK g : /\ IsCursors(g, tys, data, {0, 1}, "raw")
               /\ Cursors(tys, data, {0, 1}, "raw") = g[Len(tys)]
  BY CursorsIs
<1>3. PICK a : /\ IsCursors(a, tys, data, 0 .. 255, "decoded")
               /\ Cursors(tys, data, 0 .. 255, "decoded") = a[Len(tys)]
  BY CursorsIs
<1> DEFINE end == c[Len(tys)]
<1>4. RustPrefix(tys, data) = end /\ GoDecoder(tys, data) = g[Len(tys)]
      /\ BorshDecoder(tys, data) = a[Len(tys)]
  BY <1>1, <1>2, <1>3, Decoders
<1>5. end.ok /\ end.pos = Len(data) /\ TryFromSlice(tys, data).values = end.values
  BY <1>4, TryFromSliceIs
<1>6. Shaped(tys, end.values)
  BY <1>1, <1>5, AllRead DEF Shaped
<1>7. EncodeAll(tys, end.values) = data
  <2>1. EncodeAll(tys, end.values) = SubSeq(data, 1, end.pos)
    BY <1>1, <1>5, ReadExactly
  <2> QED
    BY <1>5, <2>1, SubSeqFull DEF ByteStrings
<1>8. g[Len(tys)] = end /\ a[Len(tys)] = end
  <2>1. end.ok
    BY <1>5
  <2> QED
    BY <1>1, <1>2, <1>3, <2>1, AllAgree
<1> QED
  BY <1>4, <1>5, <1>6, <1>7, <1>8

LEMMA GoReads ==
  ASSUME NEW tys \in Seq(Ty), NEW data \in ByteStrings, GoDecoder(tys, data).ok
  PROVE  LET vals == GoDecoder(tys, data).values
         IN  Shaped(tys, vals) /\ IsPrefix(EncodeAll(tys, vals), data)
<1>1. PICK c : /\ IsCursors(c, tys, data, {0, 1}, "raw")
               /\ Cursors(tys, data, {0, 1}, "raw") = c[Len(tys)]
  BY CursorsIs
<1> DEFINE end == c[Len(tys)]
<1>2. GoDecoder(tys, data) = end /\ end.ok
  BY <1>1, Decoders
<1>3. Shaped(tys, end.values)
  BY <1>1, <1>2, AllRead DEF Shaped
<1>4. EncodeAll(tys, end.values) = SubSeq(data, 1, end.pos)
  BY <1>1, <1>2, ReadExactly
<1>5. end.pos \in 0 .. Len(data)
  <2>1. Len(tys) \in Nat
    OBVIOUS
  <2>2. Len(tys) \in 0 .. Len(tys)
    BY <2>1
  <2> QED
    BY <1>1, <2>2 DEF IsCursors, CursorType
<1> DEFINE q == end.pos
<1> HIDE DEF q, end
<1>6. IsPrefix(SubSeq(data, 1, q), data)
  <2>1. data \in Seq(Byte) /\ Len(data) \in Nat /\ q \in Nat /\ q <= Len(data) /\ q \in 0 .. Len(data)
    BY <1>5 DEF ByteStrings, q
  <2>2. Len(SubSeq(data, 1, q)) = q
    <3>1. 0 + 1 = 1 /\ q - 0 = q /\ 0 <= q /\ 0 \in Nat
      BY <2>1
    <3> QED
      BY <2>1, <3>1, PieceIs
  <2> DEFINE p == SubSeq(data, 1, q)
  <2>3. SubSeq(p, 1, Len(p)) = p
    <3>1. p \in Seq(Byte)
      <4>1. 0 + 1 = 1 /\ q - 0 = q /\ 0 <= q /\ 0 \in Nat
        BY <2>1
      <4> QED
        BY <2>1, <4>1, PieceIs
    <3> QED
      BY <3>1, SubSeqFull
  <2> QED
    BY <2>1, <2>2, <2>3 DEF IsPrefix
<1> QED
  BY <1>2, <1>3, <1>4, <1>6 DEF q

LEMMA AsReads ==
  ASSUME NEW tys \in Seq(Ty), NEW data \in ByteStrings, BorshDecoder(tys, data).ok
  PROVE  Shaped(tys, BorshDecoder(tys, data).values)
<1>1. PICK c : /\ IsCursors(c, tys, data, 0 .. 255, "decoded")
               /\ Cursors(tys, data, 0 .. 255, "decoded") = c[Len(tys)]
  BY CursorsIs
<1>2. BorshDecoder(tys, data) = c[Len(tys)]
  BY <1>1, Decoders
<1> QED
  BY <1>1, <1>2, AllRead DEF Shaped

\* A typed caller's bytes are taken by every decoder for what it gave.
LEMMA WrittenIsRead ==
  ASSUME NEW tys \in Seq(Ty), NEW vals, IsTuple(tys, vals), NEW data, data = EncodeAll(tys, vals)
  PROVE  /\ data \in ByteStrings
         /\ TryFromSlice(tys, data).ok /\ TryFromSlice(tys, data).values = vals
         /\ GoDecoder(tys, data).ok /\ GoDecoder(tys, data).values = vals
         /\ BorshDecoder(tys, data).ok /\ BorshDecoder(tys, data).values = vals
<1>0. data \in ByteStrings
  BY EncodedTuple
<1>1. PICK c : /\ IsCursors(c, tys, data, {0, 1}, "strict")
               /\ Cursors(tys, data, {0, 1}, "strict") = c[Len(tys)]
  BY <1>0, CursorsIs
<1>2. TakesAll(c[Len(tys)], data, vals)
  <2>1. {0, 1} \subseteq {0, 1}
    OBVIOUS
  <2> QED
    BY <1>1, <2>1, TakenAll
<1>3. TryFromSlice(tys, data).ok /\ TryFromSlice(tys, data).values = vals
  <2> DEFINE end == c[Len(tys)]
  <2>1. RustPrefix(tys, data) = end
    BY <1>1, Decoders
  <2> HIDE DEF end
  <2>2. end.ok /\ end.pos = Len(data) /\ end.values = vals
    BY <1>2 DEF TakesAll, end
  <2>3. /\ TryFromSlice(tys, data).ok = (end.ok /\ end.pos = Len(data))
        /\ TryFromSlice(tys, data).values = end.values
    BY <1>0, <2>1, TryFromSliceIs
  <2> QED
    BY <2>2, <2>3
<1> QED
  BY <1>0, <1>3, RustReads

-----------------------------------------------------------------------------
(* The tuples with an element of each of the sets *)

\* The tuples of S, each followed by an element of T.
Longer(S, T) == {Append(s, v) : s \in S, v \in T}

LEMMA LongerIs ==
  ASSUME NEW U, NEW T \in SUBSET U, NEW S \in SUBSET Seq(U)
  PROVE  Longer(S, T) \in SUBSET Seq(U)
<1>1. ASSUME NEW s \in S, NEW v \in T PROVE Append(s, v) \in Seq(U)
  BY AppendProperties
<1> QED
  BY <1>1 DEF Longer

LEMMA TuplesOfAre ==
  ASSUME NEW U, NEW sets \in Seq(SUBSET U), NEW t \in TuplesOf(sets)
  PROVE  t \in Seq(U) /\ Len(t) = Len(sets) /\ \A i \in 1 .. Len(sets) : t[i] \in sets[i]
<1> DEFINE n == Len(sets)  V == SUBSET Seq(U)
           step == [p \in (1 .. n) \X V |-> Longer(p[2], sets[p[1]])]
           base == {<<>>}
<1>00. n \in Nat
  OBVIOUS
<1>0. n \in Nat /\ DOMAIN sets = 1 .. n /\ \A k \in 1 .. n : sets[k] \subseteq U
  BY ElementOfSeq
<1>1. step \in [(1 .. n) \X V -> V]
  <2>1. ASSUME NEW p \in (1 .. n) \X V PROVE Longer(p[2], sets[p[1]]) \in V
    <3>1. p[2] \in V /\ p[1] \in 1 .. n
      OBVIOUS
    <3>2. sets[p[1]] \in SUBSET U
      BY <1>0, <3>1
    <3> QED
      BY <3>1, <3>2, LongerIs
  <2> HIDE DEF V
  <2> QED
    BY <2>1
<1>2. base \in V
  BY EmptySeq
<1>3. \E g : IsLeftFold(g, n, V, base, step)
  <2> HIDE DEF step, n, V, base
  <2> QED
    BY <1>00, <1>1, <1>2, LeftFold
<1>4. PICK g : IsLeftFold(g, n, V, base, step)
  BY <1>3
<1> HIDE DEF V
<1>5. ASSUME NEW s \in SUBSET (1 .. n)
      PROVE  g[s] = IF s = {} THEN base ELSE Longer(g[s \ {Max(s)}], sets[Max(s)])
  <2>1. s # {} => Max(s) \in 1 .. n /\ g[s \ {Max(s)}] \in V
    <3> HIDE DEF base, step
    <3> QED
      BY <1>00, <1>4, MaxIs DEF IsLeftFold
  <2>2. s # {} => step[<<Max(s), g[s \ {Max(s)}]>>] = Longer(g[s \ {Max(s)}], sets[Max(s)])
    BY <2>1
  <2> HIDE DEF step, base
  <2> QED
    BY <1>4, <2>2 DEF IsLeftFold
<1> HIDE DEF step
<1> DEFINE Rec(f) == [s \in SUBSET DOMAIN sets |->
                        IF s = {} THEN base ELSE Longer(f[s \ {Max(s)}], sets[Max(s)])]
           it == CHOOSE f : f = Rec(f)
<1>6. g = Rec(g)
  <2>1. g = [s \in SUBSET (1 .. n) |-> g[s]] /\ DOMAIN sets = 1 .. n
    BY <1>0, <1>4 DEF IsLeftFold
  <2> HIDE DEF n, base
  <2> QED
    BY <1>5, <2>1
<1>7. it = Rec(it)
  <2> HIDE DEF Rec
  <2> QED
    BY <1>6
<1>8. TuplesOf(sets) = it[DOMAIN sets]
  BY DEF TuplesOf, FoldLeft, MapThenFoldSet, Longer
<1> HIDE DEF it
<1>9. it[{}] = base /\ \A s \in SUBSET (1 .. n) : s # {} =>
        it[s] = Longer(it[s \ {Max(s)}], sets[Max(s)])
  <2> HIDE DEF base
  <2> QED
    BY <1>0, <1>7
<1> DEFINE T == {k \in 0 .. n : \A x \in it[1 .. k] :
                    x \in Seq(U) /\ Len(x) = k /\ \A i \in 1 .. k : x[i] \in sets[i]}
<1>10. 0 \in T
  <2>1. 0 \in 0 .. n /\ 1 .. 0 = {}
    BY <1>0
  <2>2. \A x \in it[1 .. 0] : x = <<>>
    BY <1>9, <2>1
  <2> QED
    BY <2>1, <2>2, EmptySeq
<1>11. ASSUME NEW k \in 1 .. n, k - 1 \in T PROVE k \in T
  <2>1. /\ Max(1 .. k) = k /\ (1 .. k) \ {k} = 1 .. k - 1
        /\ 1 .. k \in SUBSET (1 .. n) /\ 1 .. k # {}
    BY <1>0, Ends
  <2>2. it[1 .. k] = Longer(it[1 .. k - 1], sets[k])
    BY <1>9, <2>1
  <2>3. ASSUME NEW y \in it[1 .. k]
        PROVE  y \in Seq(U) /\ Len(y) = k /\ \A i \in 1 .. k : y[i] \in sets[i]
    <3>1. PICK x \in it[1 .. k - 1], v \in sets[k] : y = Append(x, v)
      BY <2>2 DEF Longer
    <3>2. x \in Seq(U) /\ Len(x) = k - 1 /\ \A i \in 1 .. k - 1 : x[i] \in sets[i]
      BY <1>11, <3>1
    <3>3. v \in U
      BY <1>0, <3>1
      <3>4. /\ y \in Seq(U) /\ Len(y) = Len(x) + 1
          /\ \A i \in 1 .. Len(x) : y[i] = x[i]
          /\ y[Len(x) + 1] = v
      BY <3>1, <3>2, <3>3, AppendProperties
    <3>5. Len(y) = k /\ Len(x) + 1 = k
      <4> DEFINE a == Len(x)  b == Len(y)
      <4>1. a = k - 1 /\ b = a + 1
        BY <3>2, <3>4
      <4> HIDE DEF a, b
      <4>2. b = k /\ a + 1 = k
        BY <1>0, <4>1
      <4> QED
        BY <4>2 DEF a, b
    <3>6. \A i \in 1 .. k : y[i] \in sets[i]
      <4> TAKE i \in 1 .. k
      <4>1. CASE i = k
        BY <3>1, <3>4, <3>5, <4>1
      <4>2. CASE i # k
        <5>1. i \in 1 .. k - 1
          BY <1>0, <4>2
        <5> QED
          BY <3>2, <3>4, <5>1
      <4> QED
        BY <4>1, <4>2
    <3> QED
      BY <3>4, <3>5, <3>6
  <2>4. k \in 0 .. n
    BY <1>0
  <2> QED
    BY <2>3, <2>4
<1>12. n \in T
  <2>1. \A k \in 0 .. n : k \in T
    <3> HIDE DEF T, n
    <3> QED
      BY <1>0, <1>10, <1>11, UpTo
  <2>2. n \in 0 .. n
    BY <1>0
  <2> HIDE DEF T
  <2> QED
    BY <2>1, <2>2
<1>13. t \in Seq(U) /\ Len(t) = n /\ \A i \in 1 .. n : t[i] \in sets[i]
  <2>1. t \in it[1 .. n]
    BY <1>0, <1>8
  <2> QED
    BY <1>12, <2>1
<1> QED
  BY <1>13
=============================================================================

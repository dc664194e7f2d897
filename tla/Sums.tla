-------------------------------- MODULE Sums --------------------------------
(***************************************************************************)
(* Facts about folds over finite sets, as the models use them: a sum does  *)
(* not depend on the order in which its terms are taken.                   *)
(*                                                                         *)
(* Induction over a finite set is done by a least counterexample, a        *)
(* smallest subset that fails: the order of the subsets by inclusion is    *)
(* well founded.                                                           *)
(***************************************************************************)
EXTENDS Integers, FiniteSetsExt, Functions, FiniteSetTheorems, TLAPS

\* The element MapThenFoldSet takes next.
First(s) == CHOOSE x \in s : TRUE

\* Among subsets of a finite set there is one that includes no other.
LEMMA SmallestSubset ==
    ASSUME NEW S, IsFiniteSet(S), NEW T \in SUBSET SUBSET S, T # {}
    PROVE  \E u \in T : \A v \in T : v \subseteq u => v = u
<1>1. IsWellFoundedOn(StrictSubsetOrdering(S), FiniteSubsetsOf(S))
  BY FS_StrictSubsetOrderingWellFounded, Zenon
<1>2. T \subseteq FiniteSubsetsOf(S)
  BY FS_FiniteSubsetsOfFinite, Zenon
<1>3. PICK u \in T : \A v \in T : <<v, u>> \notin StrictSubsetOrdering(S)
  BY <1>1, <1>2, WFMin, Zenon
<1>4. \A v \in T : v \subseteq u => v = u
  <2>1. SUFFICES ASSUME NEW v \in T, v \subseteq u, v # u
                 PROVE  <<v, u>> \in StrictSubsetOrdering(S)
    BY <1>3
  <2> QED BY <2>1 DEF StrictSubsetOrdering
<1> QED BY <1>4

LEMMA FirstIn ==
    ASSUME NEW s, s # {}
    PROVE  First(s) \in s
BY DEF First

-----------------------------------------------------------------------------
(* The function a fold computes.                                           *)

\* F folds the subsets of S with h, from base.
Folds(F, S, base, h) ==
    \A s \in SUBSET S :
        F[s] = IF s = {} THEN base ELSE h[<<First(s), F[s \ {First(s)}]>>]

\* Two of them agree where both are defined.
LEMMA FoldUnique ==
    ASSUME NEW S, IsFiniteSet(S), NEW U \in SUBSET S, NEW base, NEW h, NEW F, NEW G,
           Folds(F, S, base, h), Folds(G, U, base, h)
    PROVE  \A s \in SUBSET U : F[s] = G[s]
<1> DEFINE Bad == {s \in SUBSET U : F[s] # G[s]}
<1>1. SUFFICES ASSUME Bad # {} PROVE FALSE
  OBVIOUS
<1>2. Bad \in SUBSET SUBSET S
  OBVIOUS
<1>3. PICK u \in Bad : \A v \in Bad : v \subseteq u => v = u
  <2> HIDE DEF Bad
  <2> QED BY <1>1, <1>2, SmallestSubset
<1>4. u \in SUBSET U /\ u \in SUBSET S
  OBVIOUS
<1>5. CASE u = {}
  BY <1>4, <1>5 DEF Folds
<1>6. CASE u # {}
  <2>1. First(u) \in u
    BY <1>6, FirstIn
  <2> DEFINE v == u \ {First(u)}
  <2>2. v \subseteq u /\ v # u /\ v \in SUBSET U
    BY <1>4, <2>1
  <2>3. F[v] = G[v]
    BY <1>3, <2>2
  <2>4. F[u] = h[<<First(u), F[v]>>] /\ G[u] = h[<<First(u), G[v]>>]
    BY <1>4, <1>6 DEF Folds
  <2> QED BY <2>3, <2>4
<1> QED BY <1>5, <1>6

\* There is one for every finite set.
LEMMA FoldExists ==
    ASSUME NEW S, IsFiniteSet(S), NEW V, NEW base \in V, NEW h \in [S \X V -> V]
    PROVE  \E F \in [SUBSET S -> V] : Folds(F, S, base, h)
<1> DEFINE Good(u) == \E F \in [SUBSET u -> V] : Folds(F, u, base, h)
           Bad == {u \in SUBSET S : ~Good(u)}
<1>1. SUFFICES ASSUME Bad # {} PROVE FALSE
  OBVIOUS
<1>2. PICK s \in Bad : \A v \in Bad : v \subseteq s => v = s
  <2>1. Bad \in SUBSET SUBSET S
    OBVIOUS
  <2> HIDE DEF Bad
  <2> QED BY <1>1, <2>1, SmallestSubset
<1>3. s \in SUBSET S /\ ~Good(s) /\ IsFiniteSet(s)
  BY <1>2, FS_Subset
<1> HIDE DEF Good
<1> DEFINE Of(u) == CHOOSE F : F \in [SUBSET u -> V] /\ Folds(F, u, base, h)
<1>4. ASSUME NEW u \in SUBSET s, u # s
      PROVE  Of(u) \in [SUBSET u -> V] /\ Folds(Of(u), u, base, h)
  <2>1. Good(u)
    BY <1>2, <1>4
  <2> QED BY <2>1 DEF Good
<1> HIDE DEF Of
<1>5. CASE s = {}
  <2> DEFINE F == [u \in SUBSET s |-> base]
  <2>1. F \in [SUBSET s -> V]
    OBVIOUS
  <2>2. Folds(F, s, base, h)
    BY <1>5 DEF Folds
  <2> HIDE DEF F
  <2> QED BY <1>3, <2>1, <2>2 DEF Good
<1>6. CASE s # {}
  <2>1. First(s) \in s
    BY <1>6, FirstIn
  <2> DEFINE r == s \ {First(s)}
             G == [u \in SUBSET s |-> IF u = s THEN h[<<First(s), Of(r)[r]>>] ELSE Of(u)[u]]
  <2>2. r \in SUBSET s /\ r # s
    BY <2>1
  <2>3. Of(r)[r] \in V
    <3> HIDE DEF r
    <3>1. Of(r) \in [SUBSET r -> V]
      BY <1>4, <2>2
    <3> QED BY <3>1
  <2>4. First(s) \in S
    BY <1>3, <2>1
  <2>5. G \in [SUBSET s -> V]
    <3>1. <<First(s), Of(r)[r]>> \in S \X V
      BY <2>3, <2>4
    <3>2. h[<<First(s), Of(r)[r]>>] \in V
      BY <3>1
    <3>3. \A u \in SUBSET s : u # s => Of(u)[u] \in V
      BY <1>4
    <3> HIDE DEF r
    <3> QED BY <3>2, <3>3
  <2>6. /\ G[s] = h[<<First(s), Of(r)[r]>>]
        /\ \A u \in SUBSET s : u # s => G[u] = Of(u)[u]
    OBVIOUS
  <2> HIDE DEF G
  <2>7. ASSUME NEW u \in SUBSET s
        PROVE  G[u] = IF u = {} THEN base ELSE h[<<First(u), G[u \ {First(u)}]>>]
    <3>1. CASE u = s
      BY <1>6, <2>2, <2>6, <3>1
    <3>2. CASE u # s
      <4>1. Of(u) \in [SUBSET u -> V] /\ Folds(Of(u), u, base, h) /\ G[u] = Of(u)[u]
        BY <1>4, <2>6, <3>2
      <4>2. CASE u = {}
        BY <4>1, <4>2 DEF Folds
      <4>3. CASE u # {}
        <5> DEFINE v == u \ {First(u)}
        <5>1. First(u) \in u
          BY <4>3, FirstIn
        <5>2. v \in SUBSET u /\ v \in SUBSET s /\ v # s
          BY <3>2, <5>1
        <5>3. Folds(Of(v), v, base, h) /\ G[v] = Of(v)[v]
          BY <1>4, <2>6, <5>2
        <5>4. IsFiniteSet(u)
          BY <1>3, FS_Subset
        <5>5. Of(u)[v] = Of(v)[v]
          <6>1. \A w \in SUBSET v : Of(u)[w] = Of(v)[w]
            BY <4>1, <5>2, <5>3, <5>4, FoldUnique
          <6> QED BY <6>1
        <5>6. Of(u)[u] = h[<<First(u), Of(u)[v]>>]
          BY <4>1, <4>3 DEF Folds
        <5> QED BY <4>1, <4>3, <5>3, <5>5, <5>6
      <4> QED BY <4>2, <4>3
    <3> QED BY <3>1, <3>2
  <2>8. Folds(G, s, base, h)
    BY <2>7 DEF Folds
  <2> QED BY <1>3, <2>5, <2>8 DEF Good
<1> QED BY <1>5, <1>6

-----------------------------------------------------------------------------
(* Sums of numbers.                                                        *)

\* F has the partial sums of w over the subsets of S.
Totals(F, w, S) ==
    /\ F \in [SUBSET S -> Int]
    /\ SumFunctionOnSet(w, S) = F[S]
    /\ \A s \in SUBSET S : F[s] = IF s = {} THEN 0 ELSE w[First(s)] + F[s \ {First(s)}]

Numbers(w, S) == \A x \in S : w[x] \in Int

\* The sum over S is computed by a function that folds the subsets of S.
LEMMA SumFolds ==
    ASSUME NEW S, IsFiniteSet(S), NEW w, Numbers(w, S)
    PROVE  \E F : Totals(F, w, S)
<1>0. \A x \in S : w[x] \in Int
  BY DEF Numbers
<1> DEFINE h == [p \in S \X Int |-> w[p[1]] + p[2]]
           P(F) == F = [s \in SUBSET S |->
                          IF s = {} THEN 0
                          ELSE w[CHOOSE x \in s : TRUE] + F[s \ {CHOOSE x \in s : TRUE}]]
<1>1. SumFunctionOnSet(w, S) = (CHOOSE F : P(F))[S]
  BY Zenon DEF SumFunctionOnSet, FoldFunctionOnSet, MapThenFoldSet
<1>2. h \in [S \X Int -> Int]
  BY <1>0
<1>3. \A x \in S, v \in Int : h[<<x, v>>] = w[x] + v
  BY <1>0
<1> HIDE DEF h
<1>4. PICK F \in [SUBSET S -> Int] : Folds(F, S, 0, h)
  <2>1. 0 \in Int
    OBVIOUS
  <2> QED BY <1>2, <2>1, FoldExists, Zenon
<1>5. \A s \in SUBSET S : F[s] = IF s = {} THEN 0 ELSE w[First(s)] + F[s \ {First(s)}]
  <2>1. TAKE s \in SUBSET S
  <2>2. s # {} => First(s) \in S /\ F[s \ {First(s)}] \in Int
    BY FirstIn
  <2> QED BY <1>3, <1>4, <2>2 DEF Folds
<1>6. P(F)
  BY <1>5 DEF First
<1> DEFINE G == CHOOSE H : P(H)
<1>7. P(G)
  <2> HIDE DEF P
  <2> QED BY <1>6
<1>8. \A s \in SUBSET S : G[s] = IF s = {} THEN 0 ELSE w[First(s)] + G[s \ {First(s)}]
  <2> HIDE DEF G
  <2> QED BY <1>7 DEF First
<1>9. SumFunctionOnSet(w, S) = G[S]
  BY <1>1
<1> HIDE DEF G, P
<1>10. \A s \in SUBSET S : G[s] = F[s]
  <2> DEFINE Bad == {s \in SUBSET S : G[s] # F[s]}
  <2>1. SUFFICES ASSUME Bad # {} PROVE FALSE
    OBVIOUS
  <2>2. PICK u \in Bad : \A v \in Bad : v \subseteq u => v = u
    <3>1. Bad \in SUBSET SUBSET S
      OBVIOUS
    <3> HIDE DEF Bad
    <3> QED BY <2>1, <3>1, SmallestSubset
  <2>3. CASE u = {}
    BY <1>5, <1>8, <2>3
  <2>4. CASE u # {}
    <3>1. First(u) \in u
      BY <2>4, FirstIn
    <3>2. u \ {First(u)} \notin Bad
      BY <2>2, <3>1
    <3>3. G[u \ {First(u)}] = F[u \ {First(u)}]
      BY <3>2
    <3> QED BY <1>5, <1>8, <2>4, <3>3
  <2> QED BY <2>3, <2>4
<1>11. SumFunctionOnSet(w, S) = F[S]
  <2>1. S \in SUBSET S
    OBVIOUS
  <2> QED BY <1>9, <1>10, <2>1
<1>12. Totals(F, w, S)
  BY <1>5, <1>11 DEF Totals
<1> QED BY <1>12

LEMMA SumInt ==
    ASSUME NEW S, IsFiniteSet(S), NEW w, Numbers(w, S)
    PROVE  SumFunctionOnSet(w, S) \in Int
<1>1. PICK F : Totals(F, w, S)
  BY SumFolds
<1>2. F \in [SUBSET S -> Int] /\ SumFunctionOnSet(w, S) = F[S]
  BY <1>1 DEF Totals
<1>3. S \in SUBSET S
  OBVIOUS
<1>4. F[S] \in Int
  BY <1>2, <1>3
<1> QED BY <1>2, <1>4

LEMMA SumEmpty ==
    ASSUME NEW w
    PROVE  SumFunctionOnSet(w, {}) = 0
<1>1. IsFiniteSet({}) /\ Numbers(w, {})
  BY FS_EmptySet DEF Numbers
<1>2. PICK F : Totals(F, w, {})
  BY <1>1, SumFolds
<1>3. F[{}] = 0 /\ SumFunctionOnSet(w, {}) = F[{}]
  BY <1>2 DEF Totals
<1> QED BY <1>3

\* Partial sums of functions that agree on a subset agree there.
LEMMA TotalsAgree ==
    ASSUME NEW S, IsFiniteSet(S), NEW T \in SUBSET S, NEW v, NEW w, NEW F, NEW G,
           Totals(F, v, S), Totals(G, w, T), \A x \in T : v[x] = w[x]
    PROVE  F[T] = G[T]
<1> DEFINE Bad == {s \in SUBSET T : F[s] # G[s]}
<1>1. CASE Bad # {}
  <2>1. PICK u \in Bad : \A t \in Bad : t \subseteq u => t = u
    <3>1. Bad \in SUBSET SUBSET S
      OBVIOUS
    <3> HIDE DEF Bad
    <3> QED BY <1>1, <3>1, SmallestSubset
  <2>2. u \in SUBSET T /\ u \in SUBSET S /\ F[u] # G[u]
    OBVIOUS
  <2>3. u # {}
    BY <2>2 DEF Totals
  <2>4. First(u) \in u
    BY <2>3, FirstIn
  <2>5. F[u \ {First(u)}] = G[u \ {First(u)}]
    BY <2>1, <2>4
  <2>6. v[First(u)] = w[First(u)]
    BY <2>2, <2>4
  <2>7. /\ F[u] = v[First(u)] + F[u \ {First(u)}]
        /\ G[u] = w[First(u)] + G[u \ {First(u)}]
    BY <2>2, <2>3 DEF Totals
  <2> QED BY <2>2, <2>5, <2>6, <2>7
<1>2. CASE Bad = {}
  <2>1. T \in SUBSET T
    OBVIOUS
  <2> QED BY <1>2, <2>1
<1> QED BY <1>1, <1>2

\* Functions that agree on a set have one sum over it.
LEMMA SumAgree ==
    ASSUME NEW S, IsFiniteSet(S), NEW v, NEW w, Numbers(w, S), \A x \in S : v[x] = w[x]
    PROVE  SumFunctionOnSet(v, S) = SumFunctionOnSet(w, S)
<1>1. Numbers(v, S)
  BY DEF Numbers
<1>2. PICK F : Totals(F, v, S)
  BY <1>1, SumFolds
<1>3. PICK G : Totals(G, w, S)
  BY SumFolds
<1>4. F[S] = G[S]
  <2>1. S \in SUBSET S
    OBVIOUS
  <2> QED BY <1>2, <1>3, <2>1, TotalsAgree
<1> QED BY <1>2, <1>3, <1>4 DEF Totals

\* Any term may be taken first.
LEMMA SumStep ==
    ASSUME NEW S, IsFiniteSet(S), NEW w, Numbers(w, S), NEW x \in S
    PROVE  SumFunctionOnSet(w, S) = w[x] + SumFunctionOnSet(w, S \ {x})
<1>1. PICK F : Totals(F, w, S)
  BY SumFolds
<1> DEFINE Bad == {s \in SUBSET S : \E y \in s : F[s] # w[y] + F[s \ {y}]}
<1>2. Bad = {}
  <2>1. SUFFICES ASSUME Bad # {} PROVE FALSE
    OBVIOUS
  <2>2. PICK u \in Bad : \A t \in Bad : t \subseteq u => t = u
    <3>1. Bad \in SUBSET SUBSET S
      OBVIOUS
    <3> HIDE DEF Bad
    <3> QED BY <2>1, <3>1, SmallestSubset
  <2>3. PICK y \in u : F[u] # w[y] + F[u \ {y}]
    OBVIOUS
  <2> DEFINE z == First(u)
  <2>4. z \in u /\ u \in SUBSET S
    BY FirstIn
  <2>5. F[u] = w[z] + F[u \ {z}]
    BY <1>1, <2>4 DEF Totals
  <2>6. y # z
    BY <2>3, <2>5
  <2>7. F[u \ {z}] = w[y] + F[(u \ {z}) \ {y}]
    <3>1. u \ {z} \notin Bad
      BY <2>2, <2>4
    <3>2. y \in u \ {z}
      BY <2>6
    <3> QED BY <3>1, <3>2
  <2>8. F[u \ {y}] = w[z] + F[(u \ {y}) \ {z}]
    <3>1. u \ {y} \notin Bad
      BY <2>2
    <3>2. z \in u \ {y}
      BY <2>4, <2>6
    <3> QED BY <3>1, <3>2
  <2>9. (u \ {z}) \ {y} = (u \ {y}) \ {z}
    OBVIOUS
  <2>10. F[(u \ {y}) \ {z}] \in Int /\ w[y] \in Int /\ w[z] \in Int
    <3>1. (u \ {y}) \ {z} \in SUBSET S /\ y \in S /\ z \in S
      BY <2>4
    <3> HIDE DEF z
    <3> QED BY <1>1, <3>1 DEF Totals, Numbers
  <2>11. PICK r : r = F[(u \ {y}) \ {z}]
    OBVIOUS
  <2>12. F[u \ {z}] = w[y] + r /\ F[u \ {y}] = w[z] + r /\ r \in Int
    BY <2>7, <2>8, <2>9, <2>10, <2>11
  <2> HIDE DEF z
  <2>13. F[u] = w[z] + (w[y] + r) /\ w[z] + (w[y] + r) = w[y] + (w[z] + r)
    BY <2>5, <2>10, <2>12
  <2> QED BY <2>3, <2>12, <2>13
<1> DEFINE T == S \ {x}
<1>3. F[S] = w[x] + F[T]
  BY <1>2
<1>4. SumFunctionOnSet(w, T) = F[T]
  <2>1. IsFiniteSet(T) /\ T \in SUBSET S /\ Numbers(w, T)
    BY FS_Subset DEF Numbers
  <2> HIDE DEF T
  <2>2. PICK G : Totals(G, w, T)
    BY <2>1, SumFolds
  <2>3. F[T] = G[T]
    BY <1>1, <2>1, <2>2, TotalsAgree
  <2> QED BY <2>2, <2>3 DEF Totals
<1>5. SumFunctionOnSet(w, S) = F[S]
  BY <1>1 DEF Totals
<1> QED BY <1>3, <1>4, <1>5

\* One more term.
LEMMA SumAdd ==
    ASSUME NEW S, IsFiniteSet(S), NEW x, x \notin S, NEW w, Numbers(w, S \cup {x})
    PROVE  SumFunctionOnSet(w, S \cup {x}) = w[x] + SumFunctionOnSet(w, S)
<1>1. IsFiniteSet(S \cup {x})
  BY FS_AddElement
<1>2. (S \cup {x}) \ {x} = S /\ x \in S \cup {x}
  OBVIOUS
<1>3. SumFunctionOnSet(w, S \cup {x}) = w[x] + SumFunctionOnSet(w, (S \cup {x}) \ {x})
  BY <1>1, <1>2, SumStep
<1> QED BY <1>2, <1>3

\* A sum of natural numbers is one.
LEMMA SumNat ==
    ASSUME NEW S, IsFiniteSet(S), NEW w, \A x \in S : w[x] \in Nat
    PROVE  SumFunctionOnSet(w, S) \in Nat
<1> DEFINE Bad == {s \in SUBSET S : SumFunctionOnSet(w, s) \notin Nat}
<1>1. SUFFICES ASSUME Bad # {} PROVE FALSE
  OBVIOUS
<1>2. PICK u \in Bad : \A t \in Bad : t \subseteq u => t = u
  <2>1. Bad \in SUBSET SUBSET S
    OBVIOUS
  <2> HIDE DEF Bad
  <2> QED BY <1>1, <2>1, SmallestSubset
<1>3. u \in SUBSET S /\ SumFunctionOnSet(w, u) \notin Nat
  OBVIOUS
<1>4. IsFiniteSet(u) /\ Numbers(w, u)
  BY <1>3, FS_Subset DEF Numbers
<1>5. u # {}
  BY <1>3, SumEmpty
<1>6. PICK x \in u : TRUE
  BY <1>5
<1>7. SumFunctionOnSet(w, u) = w[x] + SumFunctionOnSet(w, u \ {x})
  BY <1>4, SumStep
<1>8. SumFunctionOnSet(w, u \ {x}) \in Nat
  BY <1>2, <1>3
<1>9. w[x] \in Nat
  BY <1>3
<1> QED BY <1>3, <1>7, <1>8, <1>9

\* A sum of zeros is zero.
LEMMA SumZero ==
    ASSUME NEW S, IsFiniteSet(S), NEW w, \A x \in S : w[x] = 0
    PROVE  SumFunctionOnSet(w, S) = 0
<1> DEFINE Bad == {s \in SUBSET S : SumFunctionOnSet(w, s) # 0}
<1>1. SUFFICES ASSUME Bad # {} PROVE FALSE
  OBVIOUS
<1>2. PICK u \in Bad : \A t \in Bad : t \subseteq u => t = u
  <2>1. Bad \in SUBSET SUBSET S
    OBVIOUS
  <2> HIDE DEF Bad
  <2> QED BY <1>1, <2>1, SmallestSubset
<1>3. u \in SUBSET S /\ SumFunctionOnSet(w, u) # 0
  OBVIOUS
<1>4. IsFiniteSet(u) /\ Numbers(w, u)
  BY <1>3, FS_Subset DEF Numbers
<1>5. PICK x \in u : TRUE
  BY <1>3, SumEmpty
<1>6. SumFunctionOnSet(w, u) = w[x] + SumFunctionOnSet(w, u \ {x})
  BY <1>4, SumStep
<1>7. SumFunctionOnSet(w, u \ {x}) = 0
  BY <1>2, <1>3
<1> QED BY <1>3, <1>6, <1>7

\* The difference of two sums is bounded as that of their terms is.
Within(f, g, k, w, S) == \A x \in S : f[x] - g[x] <= k * w[x]

LEMMA SumBound ==
    ASSUME NEW S, IsFiniteSet(S), NEW f, NEW g, NEW w, NEW k \in Int,
           Numbers(f, S), Numbers(g, S), Numbers(w, S), Within(f, g, k, w, S)
    PROVE  SumFunctionOnSet(f, S) - SumFunctionOnSet(g, S) <= k * SumFunctionOnSet(w, S)
<1> DEFINE Bad == {s \in SUBSET S : ~(SumFunctionOnSet(f, s) - SumFunctionOnSet(g, s)
                                        <= k * SumFunctionOnSet(w, s))}
<1>1. SUFFICES ASSUME Bad # {} PROVE FALSE
  <2>1. S \in SUBSET S
    OBVIOUS
  <2> QED BY <2>1
<1>2. PICK u \in Bad : \A t \in Bad : t \subseteq u => t = u
  <2>1. Bad \in SUBSET SUBSET S
    OBVIOUS
  <2> HIDE DEF Bad
  <2> QED BY <1>1, <2>1, SmallestSubset
<1>3. u \in SUBSET S /\ ~(SumFunctionOnSet(f, u) - SumFunctionOnSet(g, u)
                            <= k * SumFunctionOnSet(w, u))
  OBVIOUS
<1>4. IsFiniteSet(u) /\ Numbers(f, u) /\ Numbers(g, u) /\ Numbers(w, u)
  BY <1>3, FS_Subset DEF Numbers
<1>5. u # {}
  BY <1>3, SumEmpty
<1>6. PICK x \in u : TRUE
  BY <1>5
<1>7. IsFiniteSet(u \ {x}) /\ Numbers(f, u \ {x}) /\ Numbers(g, u \ {x}) /\ Numbers(w, u \ {x})
  BY <1>4, FS_RemoveElement DEF Numbers
<1>8. PICK F \in Int : F = SumFunctionOnSet(f, u \ {x})
  BY <1>7, SumInt
<1>9. PICK G \in Int : G = SumFunctionOnSet(g, u \ {x})
  BY <1>7, SumInt
<1>10. PICK W \in Int : W = SumFunctionOnSet(w, u \ {x})
  BY <1>7, SumInt
<1>11. /\ SumFunctionOnSet(f, u) = f[x] + F
       /\ SumFunctionOnSet(g, u) = g[x] + G
       /\ SumFunctionOnSet(w, u) = w[x] + W
  BY <1>4, <1>8, <1>9, <1>10, SumStep
<1>12. F - G <= k * W
  <2>1. u \ {x} \in SUBSET S /\ u \ {x} \subseteq u /\ u \ {x} # u
    BY <1>3
  <2>2. u \ {x} \notin Bad
    <3> HIDE DEF Bad
    <3> QED BY <1>2, <2>1
  <2> QED BY <1>8, <1>9, <1>10, <2>1, <2>2
<1>13. f[x] \in Int /\ g[x] \in Int /\ w[x] \in Int /\ f[x] - g[x] <= k * w[x]
  BY <1>3, <1>4 DEF Numbers, Within
<1>14. (f[x] + F) - (g[x] + G) <= k * (w[x] + W)
  <2>1. k * (w[x] + W) = k * w[x] + k * W /\ k * w[x] \in Int /\ k * W \in Int
    BY <1>13
  <2> QED BY <1>12, <1>13, <2>1
<1> QED BY <1>3, <1>11, <1>14

\* Changing one term changes the sum by as much.
ApartAt(x, v, w, S) == \A y \in S \ {x} : v[y] = w[y]

LEMMA SumChange ==
    ASSUME NEW S, IsFiniteSet(S), NEW x \in S, NEW v, NEW w, Numbers(v, S), Numbers(w, S),
           ApartAt(x, v, w, S)
    PROVE  SumFunctionOnSet(v, S) = SumFunctionOnSet(w, S) + (v[x] - w[x])
<1>1. IsFiniteSet(S \ {x}) /\ Numbers(v, S \ {x}) /\ Numbers(w, S \ {x})
  BY FS_RemoveElement DEF Numbers
<1>2. PICK m \in Int : m = SumFunctionOnSet(w, S \ {x})
  BY <1>1, SumInt
<1>3. SumFunctionOnSet(v, S \ {x}) = m
  BY <1>1, <1>2, SumAgree DEF ApartAt
<1>4. SumFunctionOnSet(w, S) = w[x] + m /\ SumFunctionOnSet(v, S) = v[x] + m
  BY <1>2, <1>3, SumStep
<1>5. v[x] \in Int /\ w[x] \in Int
  BY DEF Numbers
<1> QED BY <1>4, <1>5
==============================================================================

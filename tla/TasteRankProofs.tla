--------------------------- MODULE TasteRankProofs ---------------------------
(***************************************************************************)
(* The ranker, for any catalog, any number of events and any request: the  *)
(* weights are sums cut at their caps, the picks are different tracks of   *)
(* the pool, the reserved ones are spent on unseen tracks, and a cold      *)
(* start spreads over the genres.                                          *)
(*                                                                         *)
(* Feedback keeps the order it should: one minus the similarity is a       *)
(* metric, so no history lets a track lead another by more than a like of  *)
(* it adds to the lead; a like moves the mean lead towards that most, and  *)
(* a lead there was stays.                                                 *)
(***************************************************************************)
EXTENDS TasteRank, Sums

-----------------------------------------------------------------------------
(* Greatest and least.                                                     *)

\* A nonempty finite set of numbers has a greatest and a least one.
LEMMA Extremes ==
    ASSUME NEW S, IsFiniteSet(S), S # {}
    PROVE  S \subseteq Int =>
              /\ Max(S) \in S /\ \A n \in S : n <= Max(S)
              /\ Min(S) \in S /\ \A n \in S : Min(S) <= n
<1> DEFINE Bounded(U) == /\ \E m \in U : \A n \in U : n <= m
                         /\ \E m \in U : \A n \in U : m <= n
           Bad == {U \in SUBSET S : U # {} /\ ~Bounded(U)}
<1>0. Bad # {} => \E U \in Bad : \A T \in Bad : T \subseteq U => T = U
  <2>1. Bad \in SUBSET SUBSET S
    OBVIOUS
  <2> HIDE DEF Bad
  <2> QED BY <2>1, SmallestSubset
<1> SUFFICES ASSUME S \subseteq Int
             PROVE  /\ Max(S) \in S /\ \A n \in S : n <= Max(S)
                    /\ Min(S) \in S /\ \A n \in S : Min(S) <= n
  OBVIOUS
<1>1. Bad = {}
  <2>1. SUFFICES ASSUME Bad # {} PROVE FALSE
    OBVIOUS
  <2>2. PICK U \in Bad : \A T \in Bad : T \subseteq U => T = U
    <3> HIDE DEF Bad
    <3> QED BY <1>0, <2>1
  <2>3. PICK x \in U : x \in Int
    OBVIOUS
  <2> DEFINE T == U \ {x}
  <2>4. T \subseteq Int
    OBVIOUS
  <2>5. CASE T = {}
    <3>1. U = {x}
      BY <2>5
    <3>2. \A n \in U : n <= x /\ x <= n
      BY <2>3, <3>1
    <3> QED BY <2>3, <3>2
  <2>6. CASE T # {}
    <3>0. T \in SUBSET S /\ T \subseteq U /\ T # U
      BY <2>3
    <3>1. Bounded(T)
      <4> HIDE DEF Bounded, T
      <4> QED BY <2>2, <2>6, <3>0
    <3>2. PICK m \in T : \A n \in T : n <= m
      BY <3>1
    <3>3. PICK l \in T : \A n \in T : l <= n
      BY <3>1
    <3>4. U = T \cup {x}
      BY <2>3
    <3> HIDE DEF T
    <3>5. \E k \in U : \A n \in U : n <= k
      <4>1. CASE x <= m
        BY <2>4, <3>2, <3>4, <4>1
      <4>2. CASE m <= x
        BY <2>3, <2>4, <3>2, <3>4, <4>2
      <4> QED BY <2>3, <2>4, <4>1, <4>2
    <3>6. \E k \in U : \A n \in U : k <= n
      <4>1. CASE l <= x
        BY <2>4, <3>3, <3>4, <4>1
      <4>2. CASE x <= l
        BY <2>3, <2>4, <3>3, <3>4, <4>2
      <4> QED BY <2>3, <2>4, <4>1, <4>2
    <3> QED BY <3>5, <3>6
  <2> QED BY <2>5, <2>6
<1>2. Bounded(S)
  BY <1>1
<1>3. Max(S) \in S /\ \A n \in S : n <= Max(S)
  <2>1. \E m \in S : \A n \in S : m >= n
    BY <1>2
  <2>2. Max(S) \in S /\ \A n \in S : Max(S) >= n
    BY <2>1 DEF Max
  <2> QED BY <2>2
<1>4. Min(S) \in S /\ \A n \in S : Min(S) <= n
  BY <1>2 DEF Min
<1> QED BY <1>3, <1>4

LEMMA MaxOfTwo ==
    ASSUME NEW m \in Int, NEW n \in Int
    PROVE  /\ Max({m, n}) \in Int /\ m <= Max({m, n}) /\ n <= Max({m, n})
           /\ Max({m, n}) \in {m, n}
<1>1. IsFiniteSet({m, n})
  <2>1. IsFiniteSet({m}) /\ {m, n} = {m} \cup {n}
    BY FS_Singleton
  <2> QED BY <2>1, FS_AddElement
<1>2. {m, n} \in SUBSET Int /\ {m, n} # {}
  OBVIOUS
<1> QED BY <1>1, <1>2, Extremes

LEMMA MinOfTwo ==
    ASSUME NEW m \in Int, NEW n \in Int
    PROVE  /\ Min({m, n}) \in Int /\ Min({m, n}) <= m /\ Min({m, n}) <= n
           /\ Min({m, n}) \in {m, n}
<1>1. IsFiniteSet({m, n})
  <2>1. IsFiniteSet({m}) /\ {m, n} = {m} \cup {n}
    BY FS_Singleton
  <2> QED BY <2>1, FS_AddElement
<1>2. {m, n} \in SUBSET Int /\ {m, n} # {}
  OBVIOUS
<1> QED BY <1>1, <1>2, Extremes

-----------------------------------------------------------------------------
(* Weights.                                                                *)

\* The catalog and the request of a state.
LEMMA InputTypes ==
    ASSUME TypeOK
    PROVE  /\ catalog \in Catalog /\ request \in Request
           /\ request.limit \in 1..20 /\ request.excluded \subseteq Tracks
           /\ request.liked \subseteq Tracks /\ request.ids \subseteq EventIds
           /\ \A t \in Tracks : /\ catalog[t].genre \in Genres /\ catalog[t].tempo \in Nat
                                /\ catalog[t].artist \in Artists
<1>1. PICK i \in Inputs : i = [catalog |-> catalog, request |-> request]
  BY DEF TypeOK
<1>2. i \in [catalog : Catalog, request : Request]
  BY RankAssumption
<1>3. i.catalog = catalog /\ i.request = request
  BY <1>1
<1>4. catalog \in Catalog /\ request \in Request
  BY <1>2, <1>3
<1>5. /\ request.limit \in 1..20 /\ request.excluded \subseteq Tracks
      /\ request.liked \subseteq Tracks /\ request.ids \subseteq EventIds
  BY <1>4 DEF Request
<1>6. ASSUME NEW t \in Tracks
      PROVE  /\ catalog[t].genre \in Genres /\ catalog[t].tempo \in Nat
             /\ catalog[t].artist \in Artists
  <2>1. catalog[t] \in [genre : Genres, tempo : Tempos, artist : Artists]
    BY <1>4 DEF Catalog
  <2> QED BY <2>1, RankAssumption
<1> QED BY <1>4, <1>5, <1>6

\* What an event adds.
LEMMA EventWeights ==
    ASSUME NEW type
    PROVE  PositiveWeight(type) \in Nat /\ NegativeWeight(type) \in Nat
BY DEF PositiveWeight, NegativeWeight

\* Cutting at a cap each time is cutting once.
LEMMA CutOnce ==
    ASSUME NEW cap \in Nat, NEW m \in Nat, NEW n \in Nat
    PROVE  /\ AtMost(cap, AtMost(cap, m) + n) = AtMost(cap, m + n)
           /\ AtMost(cap, m) \in 0..cap
BY DEF AtMost

\* A sum of weights of events.
LEMMA WeightSum ==
    ASSUME NEW S, IsFiniteSet(S), NEW w, \A x \in S : w[x] \in Nat
    PROVE  SumFunctionOnSet(w, S) \in Nat
BY SumNat

\* The same weights, and one more.
SameWeights(v, w, S) == \A i \in S : w[i] \in Nat /\ v[i] = w[i]

\* The sum over the events about a track, and over one more.
LEMMA SumWithEvent ==
    ASSUME NEW about, IsFiniteSet(about), NEW id, id \notin about, NEW v, NEW w,
           SameWeights(v, w, about), v[id] \in Nat
    PROVE  /\ SumFunctionOnSet(w, about) \in Nat
           /\ SumFunctionOnSet(v, about) = SumFunctionOnSet(w, about)
           /\ SumFunctionOnSet(v, about \cup {id}) = SumFunctionOnSet(w, about) + v[id]
<1>1. SumFunctionOnSet(w, about) \in Nat
  BY WeightSum DEF SameWeights
<1>2. SumFunctionOnSet(v, about) = SumFunctionOnSet(w, about)
  BY SumAgree DEF Numbers, SameWeights
<1>3. Numbers(v, about \cup {id})
  BY DEF Numbers, SameWeights
<1>4. SumFunctionOnSet(v, about \cup {id}) = v[id] + SumFunctionOnSet(v, about)
  BY <1>3, SumAdd
<1> QED BY <1>1, <1>2, <1>4

-----------------------------------------------------------------------------
(* Scores.                                                                 *)

LEMMA TracksFinite == IsFiniteSet(Tracks) /\ Tracks \subseteq Nat
BY RankAssumption

LEMMA WholeNat == Whole \in Nat /\ Whole >= 1
BY DEF Whole

LEMMA SimilarityNat ==
    ASSUME TypeOK, NEW t \in Tracks, NEW u \in Tracks
    PROVE  Similarity(t, u) \in Nat
<1>1. catalog[t].tempo \in Nat /\ catalog[u].tempo \in Nat
  BY InputTypes
<1> QED BY <1>1 DEF Similarity, AtMost, Gap

\* Sums of weights, and of weighted similarities.
LEMMA SumsNat ==
    ASSUME TypeOK, NEW w \in [Tracks -> Nat]
    PROVE  /\ Weight(w) \in Nat /\ Scale(w) \in Nat /\ Scale(w) >= 1 /\ Scale(w) >= Weight(w)
           /\ \A t \in Tracks : Affinity(t, w) \in Nat
<1>1. Weight(w) \in Nat
  BY TracksFinite, WeightSum DEF Weight
<1>2. Scale(w) \in Nat /\ Scale(w) >= 1 /\ Scale(w) >= Weight(w)
  BY <1>1, MaxOfTwo DEF Scale
<1>3. ASSUME NEW t \in Tracks PROVE Affinity(t, w) \in Nat
  <2> DEFINE v == [u \in Tracks |-> w[u] * Similarity(t, u)]
  <2>1. \A u \in Tracks : v[u] \in Nat
    <3>1. TAKE u \in Tracks
    <3>2. Similarity(t, u) \in Nat /\ w[u] \in Nat
      BY SimilarityNat
    <3>3. w[u] * Similarity(t, u) \in Nat
      BY <3>2
    <3> QED BY <3>3
  <2> HIDE DEF v
  <2>2. SumFunctionOnSet(v, Tracks) \in Nat
    BY <2>1, TracksFinite, WeightSum
  <2> QED BY <2>2 DEF Affinity, v
<1> QED BY <1>1, <1>2, <1>3

LEMMA WeightTypes ==
    ASSUME TypeOK
    PROVE  positive \in [Tracks -> Nat] /\ negative \in [Tracks -> Nat]
<1>1. positive \in [Tracks -> 0..PositiveCap] /\ negative \in [Tracks -> 0..NegativeCap]
  BY DEF TypeOK
<1> QED BY <1>1 DEF PositiveCap, NegativeCap

LEMMA OneNat ==
    ASSUME TypeOK
    PROVE  One \in Nat /\ One >= 1
<1>1. PICK p \in Nat : p = Scale(positive) /\ p >= 1
  BY WeightTypes, SumsNat
<1>2. PICK n \in Nat : n = Scale(negative) /\ n >= 1
  BY WeightTypes, SumsNat
<1>3. PICK f \in Nat : f = Whole /\ f >= 1
  BY WholeNat
<1>4. p * n \in Nat /\ p * n >= 1
  BY <1>1, <1>2
<1>5. PICK m \in Nat : m = p * n /\ m >= 1
  BY <1>4
<1>6. m * f \in Nat /\ m * f >= 1
  BY <1>3, <1>5
<1>7. One = 2 * (m * f)
  BY <1>1, <1>2, <1>3, <1>5 DEF One
<1> QED BY <1>6, <1>7

LEMMA ScoreInt ==
    ASSUME TypeOK, NEW t \in Tracks
    PROVE  Penalty(t) \in Int /\ Score(t) \in Int
<1>1. PICK one \in Nat : one = One
  BY OneNat
<1>2. PICK p \in Nat : p = Scale(positive)
  BY WeightTypes, SumsNat
<1>3. PICK n \in Nat : n = Scale(negative)
  BY WeightTypes, SumsNat
<1>4. Affinity(t, positive) \in Int /\ Affinity(t, negative) \in Int
  BY WeightTypes, SumsNat
<1>5. Penalty(t) \in Int
  BY <1>2, <1>4 DEF Penalty
<1>6. 120 * n * Affinity(t, positive) \in Int
  BY <1>4
<1>7. (5 * one) \div 2 \in Int /\ 50 * one \in Int /\ 35 * one \in Int
  OBVIOUS
<1>8. Score(t) \in Int
  BY <1>1, <1>3, <1>5, <1>6, <1>7 DEF Score
<1> QED BY <1>5, <1>8

LEMMA RoundedInt ==
    ASSUME NEW n \in Int, NEW one \in Nat, one >= 1
    PROVE  Rounded(n, one) \in Int
<1>1. n \div one \in Int /\ n % one \in Int /\ 2 * one \in Nat /\ 2 * one > 0
  OBVIOUS
<1>2. PICK m \in Int : m = 200 * (n % one) + one
  BY <1>1
<1>3. m \div (2 * one) \in Int
  BY <1>1
<1> QED BY <1>1, <1>2, <1>3 DEF Rounded

LEMMA TasteInt ==
    ASSUME TypeOK, NEW t \in Tracks
    PROVE  Taste(t) \in Int
<1>1. One \in Nat /\ One >= 1 /\ Score(t) \in Int
  BY OneNat, ScoreInt
<1>2. Clamp(100 * One, Score(t)) \in Int
  BY <1>1 DEF Clamp, AtMost
<1> QED BY <1>1, <1>2, RoundedInt DEF Taste

LEMMA SelectionInt ==
    ASSUME TypeOK, NEW t \in Tracks
    PROVE  GenreSelected(catalog[t].genre) \in Int /\ Selection(t) \in Int
<1>1. IsFiniteSet(Picked)
  <2>1. Picked \in SUBSET Tracks
    BY DEF TypeOK, Picked
  <2> QED BY <2>1, TracksFinite, FS_Subset
<1> DEFINE S == {u \in Picked : catalog[u].genre = catalog[t].genre}
<1>2. Cardinality(S) \in Nat
  <2>1. S \in SUBSET Picked
    OBVIOUS
  <2>2. IsFiniteSet(S)
    BY <1>1, <2>1, FS_Subset
  <2> QED BY <2>2, FS_CardinalityType
<1>3. GenreSelected(catalog[t].genre) \in Int
  BY <1>2 DEF GenreSelected
<1> QED BY <1>3, TasteInt DEF Selection

\* The best of some tracks is one of them, and none has a higher selection score.
LEMMA BestIn ==
    ASSUME TypeOK, NEW S \in SUBSET Tracks, S # {}
    PROVE  Best(S) \in S /\ \A t \in S : Selection(t) <= Selection(Best(S))
<1> DEFINE V == {Selection(t) : t \in S}
           f == [t \in S |-> Selection(t)]
           top == Max(V)
           Top == {t \in S : Selection(t) = top}
<1>1. V \subseteq Int /\ V # {}
  BY SelectionInt
<1>2. IsFiniteSet(S)
  BY TracksFinite, FS_Subset
<1>3. f \in Surjection(S, V)
  BY DEF Surjection
<1>4. IsFiniteSet(V)
  <2> HIDE DEF f, V
  <2> QED BY <1>2, <1>3, FS_Surjection
<1>5. top \in V /\ \A n \in V : n <= top
  <2> HIDE DEF V
  <2> QED BY <1>1, <1>4, Extremes
<1> HIDE DEF top
<1>6. Top \in SUBSET S /\ Top # {} /\ Top \subseteq Int
  BY <1>5, TracksFinite
<1>7. IsFiniteSet(Top)
  BY <1>2, <1>6, FS_Subset
<1>8. Min(Top) \in Top
  <2> HIDE DEF Top
  <2> QED BY <1>6, <1>7, Extremes
<1>9. Best(S) = Min(Top)
  BY DEF Best, top
<1>10. Best(S) \in S /\ Selection(Best(S)) = top
  BY <1>8, <1>9
<1> QED BY <1>5, <1>10

-----------------------------------------------------------------------------
(* The pool and the limit.                                                 *)

LEMMA PoolFacts ==
    ASSUME TypeOK
    PROVE  /\ Pool \in SUBSET Tracks /\ IsFiniteSet(Pool) /\ Cardinality(Pool) \in Nat
           /\ Limit \in Nat /\ Limit <= Cardinality(Pool)
           /\ Reserve \in 0..Limit
<1>1. Pool \in SUBSET Tracks
  BY DEF Pool
<1>2. IsFiniteSet(Pool) /\ Cardinality(Pool) \in Nat
  BY <1>1, TracksFinite, FS_Subset, FS_CardinalityType
<1>3. request.limit \in Nat
  BY InputTypes
<1>4. Limit \in Nat /\ Limit <= Cardinality(Pool)
  <2>1. request.limit \in Int /\ Cardinality(Pool) \in Int
    BY <1>2, <1>3
  <2>2. Limit <= Cardinality(Pool) /\ Limit \in {request.limit, Cardinality(Pool)}
    BY <2>1, MinOfTwo DEF Limit
  <2> QED BY <1>2, <1>3, <2>2
<1>5. Reserve \in 0..Limit
  <2>1. PICK n \in Nat : n = Limit
    BY <1>4
  <2>2. CASE n > 1
    <3>1. (n + 4) \div 5 \in 0..n
      BY <2>2
    <3>2. Max({1, (n + 4) \div 5}) \in {1, (n + 4) \div 5}
      <4>1. 1 \in Int /\ (n + 4) \div 5 \in Int
        BY <3>1
      <4> QED BY <4>1, MaxOfTwo
    <3>3. Max({1, (n + 4) \div 5}) \in 0..n
      BY <2>2, <3>1, <3>2
    <3> QED BY <2>1, <3>3 DEF Reserve
  <2>3. CASE ~(n > 1)
    BY <2>1, <2>3 DEF Reserve
  <2> QED BY <2>2, <2>3
<1> QED BY <1>1, <1>2, <1>4, <1>5

\* The picks are as many tracks as they are picks, and leave a track of the pool until the
\* limit is reached.
LEMMA PickFacts ==
    ASSUME TypeOK, PicksSound
    PROVE  /\ Picked \in SUBSET Pool /\ IsFiniteSet(Picked)
           /\ Len(candidates) \in Nat /\ Cardinality(Picked) = Len(candidates)
           /\ Len(candidates) < Limit => Left # {}
<1>1. /\ candidates \in [1..Len(candidates) -> Pool] /\ Len(candidates) \in Nat
      /\ DOMAIN candidates = 1..Len(candidates)
  BY DEF PicksSound
<1>2. Picked \in SUBSET Pool
  BY <1>1 DEF Picked, ToSet
<1>3. candidates \in Surjection(1..Len(candidates), Picked)
  <2>1. candidates \in [1..Len(candidates) -> Picked]
    BY <1>1 DEF Picked, ToSet
  <2>2. \A t \in Picked : \E i \in 1..Len(candidates) : candidates[i] = t
    BY <1>1 DEF Picked, ToSet
  <2> QED BY <2>1, <2>2 DEF Surjection
<1>4. candidates \in Injection(1..Len(candidates), Picked)
  BY <1>1, <1>3 DEF Surjection, Injection, PicksSound, IsInjective
<1>5. IsFiniteSet(1..Len(candidates)) /\ Cardinality(1..Len(candidates)) = Len(candidates)
  <2>1. PICK n \in Nat : n = Len(candidates)
    BY <1>1
  <2>2. IsFiniteSet(1..n) /\ Cardinality(1..n) = IF 1 > n THEN 0 ELSE n - 1 + 1
    BY FS_Interval
  <2> QED BY <2>1, <2>2
<1>6. IsFiniteSet(Picked) /\ Cardinality(Picked) = Len(candidates)
  BY <1>3, <1>4, <1>5, FS_Surjection
<1>7. ASSUME Len(candidates) < Limit, Left = {} PROVE FALSE
  <2>1. Picked = Pool
    BY <1>2, <1>7 DEF Left
  <2>2. Limit \in Nat /\ Limit <= Cardinality(Pool)
    BY PoolFacts
  <2> QED BY <1>1, <1>6, <1>7, <2>1, <2>2
<1> QED BY <1>1, <1>2, <1>6, <1>7

\* Before the first pick there is nothing to show.
LEMMA NothingPicked ==
    TypeOK /\ candidates = <<>> => PicksSound /\ ReserveKept /\ GenresEven
<1> SUFFICES ASSUME TypeOK, candidates = <<>>
             PROVE  PicksSound /\ ReserveKept /\ GenresEven
  OBVIOUS
<1>1. Picked = {}
  BY DEF Picked, ToSet
<1>2. Limit \in Nat /\ Reserve \in 0..Limit
  BY PoolFacts
<1>3. Len(candidates) = 0 /\ candidates \in Seq(Pool) /\ IsInjective(candidates)
  BY DEF IsInjective
<1>4. PicksSound
  BY <1>2, <1>3 DEF PicksSound
<1>5. ReserveKept
  <2>1. Picked \ seen = {}
    BY <1>1
  <2>2. Cardinality(Picked \ seen) = 0
    BY <2>1, FS_EmptySet
  <2> QED BY <1>2, <1>3, <2>2 DEF ReserveKept
<1>6. GenresEven
  <2>1. \A g \in Genres : GenreSelected(g) = 0
    <3>1. TAKE g \in Genres
    <3>2. {t \in Picked : catalog[t].genre = g} = {}
      BY <1>1
    <3> QED BY <3>2, FS_EmptySet DEF GenreSelected
  <2> QED BY <2>1 DEF GenresEven
<1> QED BY <1>4, <1>5, <1>6

LEMMA NothingPickedNext ==
    TypeOK' /\ candidates' = <<>> => PicksSound' /\ ReserveKept' /\ GenresEven'
<1>1. (TypeOK /\ candidates = <<>> => PicksSound /\ ReserveKept /\ GenresEven)'
  BY NothingPicked, PTL
<1> QED BY <1>1

-----------------------------------------------------------------------------
(* The initial states.                                                     *)

LEMMA InitSound == Init => IInv
<1> SUFFICES ASSUME Init PROVE IInv
  OBVIOUS
<1>1. [catalog |-> catalog, request |-> request] \in Inputs
  <2>1. PICK i \in Inputs : catalog = i.catalog /\ request = i.request
    BY DEF Init
  <2>2. i \in [catalog : Catalog, request : Request]
    BY RankAssumption
  <2>3. i = [catalog |-> i.catalog, request |-> i.request]
    BY <2>2
  <2> QED BY <2>1, <2>3
<1>2. DOMAIN eventIDs = {} /\ ToSet(candidates) = {}
  BY DEF Init, ToSet
<1>3. request.liked \in SUBSET Tracks
  <2>1. PICK i \in Inputs : i = [catalog |-> catalog, request |-> request]
    BY <1>1
  <2>2. i \in [catalog : Catalog, request : Request]
    BY RankAssumption
  <2>3. request \in Request
    BY <2>1, <2>2
  <2> QED BY <2>3 DEF Request
<1>4. TypeOK
  BY <1>1, <1>2, <1>3 DEF Init, TypeOK, LikedWeight, PositiveCap, NegativeCap
<1>5. IsFiniteSet(DOMAIN eventIDs)
  BY <1>2, FS_EmptySet
<1>6. WeightsAreSums
  <2> SUFFICES ASSUME NEW t \in Tracks
               PROVE  LET about == {id \in DOMAIN eventIDs : eventIDs[id].track = t}
                          likes == [id \in about |-> PositiveWeight(eventIDs[id].type)]
                          skips == [id \in about |-> NegativeWeight(eventIDs[id].type)]
                          stated == IF t \in request.liked THEN LikedWeight ELSE 0
                      IN /\ positive[t] = AtMost(PositiveCap, stated + SumFunctionOnSet(likes, about))
                         /\ negative[t] = AtMost(NegativeCap, SumFunctionOnSet(skips, about))
    BY DEF WeightsAreSums
  <2> DEFINE about == {id \in DOMAIN eventIDs : eventIDs[id].track = t}
             likes == [id \in about |-> PositiveWeight(eventIDs[id].type)]
             skips == [id \in about |-> NegativeWeight(eventIDs[id].type)]
  <2>1. about = {}
    BY <1>2
  <2> HIDE DEF about, likes, skips
  <2>2. SumFunctionOnSet(likes, about) = 0 /\ SumFunctionOnSet(skips, about) = 0
    BY <2>1, SumEmpty
  <2>3. positive[t] = (IF t \in request.liked THEN LikedWeight ELSE 0) /\ negative[t] = 0
    BY DEF Init
  <2>4. /\ positive[t] = AtMost(PositiveCap, (IF t \in request.liked THEN LikedWeight ELSE 0)
                                               + SumFunctionOnSet(likes, about))
        /\ negative[t] = AtMost(NegativeCap, SumFunctionOnSet(skips, about))
    BY <2>2, <2>3 DEF AtMost, LikedWeight, PositiveCap, NegativeCap
  <2> QED BY <2>4 DEF about, likes, skips
<1>7. PicksSound /\ ReserveKept /\ GenresEven
  BY <1>4, NothingPicked DEF Init
<1> QED BY <1>4, <1>5, <1>6, <1>7 DEF IInv

-----------------------------------------------------------------------------
(* One event.                                                              *)

LEMMA TakeEventSound ==
    ASSUME IInv, NEW id \in request.ids, NEW e \in Event, TakeEvent(id, e)
    PROVE  IInv'
<1>0. TypeOK /\ IsFiniteSet(DOMAIN eventIDs) /\ WeightsAreSums /\ PicksSound
  BY DEF IInv
<1>1. id \notin DOMAIN eventIDs /\ stage = "events"
  BY DEF TakeEvent
<1>2. /\ DOMAIN eventIDs' = DOMAIN eventIDs \cup {id}
      /\ eventIDs'[id] = e
      /\ \A i \in DOMAIN eventIDs : eventIDs'[i] = eventIDs[i]
  BY <1>1 DEF TakeEvent
<1>3. /\ catalog' = catalog /\ request' = request /\ candidates' = candidates /\ stage' = stage
      /\ positive' = [positive EXCEPT ![e.track] = AtMost(PositiveCap, @ + PositiveWeight(e.type))]
      /\ negative' = [negative EXCEPT ![e.track] = AtMost(NegativeCap, @ + NegativeWeight(e.type))]
      /\ seen' = seen \cup {e.track}
  BY DEF TakeEvent, Count
<1>4. e.track \in Tracks
  BY DEF Event
<1>5. PositiveWeight(e.type) \in Nat /\ NegativeWeight(e.type) \in Nat
  BY EventWeights
<1>6. positive \in [Tracks -> Nat] /\ negative \in [Tracks -> Nat]
  BY <1>0, WeightTypes
<1>7. /\ AtMost(PositiveCap, positive[e.track] + PositiveWeight(e.type)) \in 0..PositiveCap
      /\ AtMost(NegativeCap, negative[e.track] + NegativeWeight(e.type)) \in 0..NegativeCap
  <2>1. positive[e.track] + PositiveWeight(e.type) \in Nat /\ PositiveCap \in Nat
    BY <1>4, <1>5, <1>6 DEF PositiveCap
  <2>2. negative[e.track] + NegativeWeight(e.type) \in Nat /\ NegativeCap \in Nat
    BY <1>4, <1>5, <1>6 DEF NegativeCap
  <2> QED BY <2>1, <2>2 DEF AtMost
<1>8. TypeOK'
  <2>1. positive' \in [Tracks -> 0..PositiveCap] /\ negative' \in [Tracks -> 0..NegativeCap]
    BY <1>0, <1>3, <1>7 DEF TypeOK
  <2>2. DOMAIN eventIDs' \subseteq request.ids /\ \A i \in DOMAIN eventIDs' : eventIDs'[i] \in Event
    BY <1>0, <1>2 DEF TypeOK
  <2>3. seen' \subseteq Tracks
    BY <1>0, <1>3, <1>4 DEF TypeOK
  <2> QED BY <1>0, <1>3, <2>1, <2>2, <2>3 DEF TypeOK
<1>9. IsFiniteSet(DOMAIN eventIDs')
  BY <1>0, <1>2, FS_AddElement
<1>10. WeightsAreSums'
  <2> SUFFICES ASSUME NEW t \in Tracks
               PROVE  LET about == {i \in DOMAIN eventIDs' : eventIDs'[i].track = t}
                          likes == [i \in about |-> PositiveWeight(eventIDs'[i].type)]
                          skips == [i \in about |-> NegativeWeight(eventIDs'[i].type)]
                          stated == IF t \in request'.liked THEN LikedWeight ELSE 0
                      IN /\ positive'[t] = AtMost(PositiveCap, stated + SumFunctionOnSet(likes, about))
                         /\ negative'[t] = AtMost(NegativeCap, SumFunctionOnSet(skips, about))
    BY DEF WeightsAreSums
  <2> DEFINE about == {i \in DOMAIN eventIDs : eventIDs[i].track = t}
             likes == [i \in about |-> PositiveWeight(eventIDs[i].type)]
             skips == [i \in about |-> NegativeWeight(eventIDs[i].type)]
             aboutLater == {i \in DOMAIN eventIDs' : eventIDs'[i].track = t}
             likesLater == [i \in aboutLater |-> PositiveWeight(eventIDs'[i].type)]
             skipsLater == [i \in aboutLater |-> NegativeWeight(eventIDs'[i].type)]
             stated == IF t \in request.liked THEN LikedWeight ELSE 0
  <2>1. /\ positive[t] = AtMost(PositiveCap, stated + SumFunctionOnSet(likes, about))
        /\ negative[t] = AtMost(NegativeCap, SumFunctionOnSet(skips, about))
    BY <1>0 DEF WeightsAreSums
  <2>2. \A i \in about : i \in aboutLater /\ eventIDs'[i] = eventIDs[i]
    BY <1>2
  <2>3. \A i \in about : /\ likes[i] \in Nat /\ likesLater[i] = likes[i]
                         /\ skips[i] \in Nat /\ skipsLater[i] = skips[i]
    BY <2>2, EventWeights
  <2>4. aboutLater = {i \in DOMAIN eventIDs \cup {id} : eventIDs'[i].track = t}
    BY <1>2
  <2>5. e.track = t => /\ likesLater[id] = PositiveWeight(e.type)
                       /\ skipsLater[id] = NegativeWeight(e.type)
    BY <1>2
  <2>7. PICK more : more = [i \in DOMAIN eventIDs \cup {id} |->
                              IF i = id THEN PositiveWeight(e.type) ELSE likesLater[i]]
    OBVIOUS
  <2>8. PICK less : less = [i \in DOMAIN eventIDs \cup {id} |->
                              IF i = id THEN NegativeWeight(e.type) ELSE skipsLater[i]]
    OBVIOUS
  <2>9. /\ \A i \in about : more[i] = likes[i] /\ less[i] = skips[i]
        /\ more[id] = PositiveWeight(e.type) /\ less[id] = NegativeWeight(e.type)
    BY <1>1, <2>3, <2>7, <2>8
  <2>10. /\ \A i \in aboutLater : more[i] = likesLater[i] /\ less[i] = skipsLater[i]
         /\ \A i \in aboutLater : more[i] \in Nat /\ less[i] \in Nat
    BY <1>2, <2>2, <2>3, <2>4, <2>5, <2>7, <2>8, EventWeights
  <2>6. aboutLater = IF e.track = t THEN about \cup {id} ELSE about
    BY <1>1, <1>2
  <2>11. IsFiniteSet(about) /\ id \notin about
    <3>1. about \in SUBSET DOMAIN eventIDs
      OBVIOUS
    <3> QED BY <1>0, <1>1, <3>1, FS_Subset
  <2>12. IsFiniteSet(aboutLater)
    <3>1. aboutLater \in SUBSET DOMAIN eventIDs'
      OBVIOUS
    <3> QED BY <1>9, <3>1, FS_Subset
  <2>13. stated \in Nat
    BY DEF LikedWeight
  <2> HIDE DEF about, aboutLater, likes, skips, likesLater, skipsLater
  <2>14. /\ SumFunctionOnSet(likes, about) \in Nat
         /\ SumFunctionOnSet(more, aboutLater)
              = SumFunctionOnSet(likes, about) + (IF e.track = t THEN PositiveWeight(e.type) ELSE 0)
    <3>1. SameWeights(more, likes, about) /\ more[id] \in Nat
      BY <1>5, <2>3, <2>9 DEF SameWeights
    <3>2. /\ SumFunctionOnSet(likes, about) \in Nat
          /\ SumFunctionOnSet(more, about) = SumFunctionOnSet(likes, about)
          /\ SumFunctionOnSet(more, about \cup {id}) = SumFunctionOnSet(likes, about) + more[id]
      BY <2>11, <3>1, SumWithEvent
    <3> QED BY <2>6, <2>9, <3>2
  <2>15. /\ SumFunctionOnSet(skips, about) \in Nat
         /\ SumFunctionOnSet(less, aboutLater)
              = SumFunctionOnSet(skips, about) + (IF e.track = t THEN NegativeWeight(e.type) ELSE 0)
    <3>1. SameWeights(less, skips, about) /\ less[id] \in Nat
      BY <1>5, <2>3, <2>9 DEF SameWeights
    <3>2. /\ SumFunctionOnSet(skips, about) \in Nat
          /\ SumFunctionOnSet(less, about) = SumFunctionOnSet(skips, about)
          /\ SumFunctionOnSet(less, about \cup {id}) = SumFunctionOnSet(skips, about) + less[id]
      BY <2>11, <3>1, SumWithEvent
    <3> QED BY <2>6, <2>9, <3>2
  <2>16. /\ SumFunctionOnSet(likesLater, aboutLater) = SumFunctionOnSet(more, aboutLater)
         /\ SumFunctionOnSet(skipsLater, aboutLater) = SumFunctionOnSet(less, aboutLater)
    <3>1. Numbers(more, aboutLater) /\ Numbers(less, aboutLater)
      BY <2>10 DEF Numbers
    <3> QED BY <2>10, <2>12, <3>1, SumAgree DEF Numbers
  <2> HIDE DEF stated
  <2>17. PICK p \in Nat : p = stated + SumFunctionOnSet(likes, about)
    BY <2>13, <2>14
  <2>18. PICK n \in Nat : n = SumFunctionOnSet(skips, about)
    BY <2>15
  <2>19. /\ positive'[t] = AtMost(PositiveCap, stated + SumFunctionOnSet(likesLater, aboutLater))
         /\ negative'[t] = AtMost(NegativeCap, SumFunctionOnSet(skipsLater, aboutLater))
    <3>1. CASE e.track = t
      <4>1. /\ positive'[t] = AtMost(PositiveCap, AtMost(PositiveCap, p) + PositiveWeight(e.type))
            /\ negative'[t] = AtMost(NegativeCap, AtMost(NegativeCap, n) + NegativeWeight(e.type))
        BY <1>3, <1>6, <2>1, <2>17, <2>18, <3>1
      <4>2. PositiveCap \in Nat /\ NegativeCap \in Nat
        BY DEF PositiveCap, NegativeCap
      <4>3. /\ positive'[t] = AtMost(PositiveCap, p + PositiveWeight(e.type))
            /\ negative'[t] = AtMost(NegativeCap, n + NegativeWeight(e.type))
        BY <1>5, <4>1, <4>2, CutOnce
      <4>4. /\ p + PositiveWeight(e.type) = stated + SumFunctionOnSet(likesLater, aboutLater)
            /\ n + NegativeWeight(e.type) = SumFunctionOnSet(skipsLater, aboutLater)
        BY <1>5, <2>13, <2>14, <2>15, <2>16, <2>17, <2>18, <3>1
      <4> QED BY <4>3, <4>4
    <3>2. CASE e.track # t
      <4>1. positive'[t] = positive[t] /\ negative'[t] = negative[t]
        BY <1>3, <1>6, <3>2
      <4>2. /\ SumFunctionOnSet(likesLater, aboutLater) = SumFunctionOnSet(likes, about)
            /\ SumFunctionOnSet(skipsLater, aboutLater) = SumFunctionOnSet(skips, about)
        BY <2>14, <2>15, <2>16, <3>2
      <4> QED BY <2>1, <4>1, <4>2
    <3> QED BY <3>1, <3>2
  <2> QED BY <1>3, <2>19 DEF aboutLater, likesLater, skipsLater, stated
<1>11. PicksSound' /\ ReserveKept' /\ GenresEven'
  <2>1. candidates' = <<>>
    BY <1>0, <1>1, <1>3 DEF PicksSound
  <2> QED BY <1>8, <2>1, NothingPickedNext
<1> QED BY <1>8, <1>9, <1>10, <1>11 DEF IInv

\* The rounds that add nothing.
LEMMA NoEventSound ==
    ASSUME IInv, stage = "events", stage' \in {"events", "picks", "refused"},
           UNCHANGED <<catalog, request, eventIDs, positive, negative, seen, candidates>>
    PROVE  IInv'
<1>1. TypeOK'
  BY DEF IInv, TypeOK
<1>2. IsFiniteSet(DOMAIN eventIDs')
  BY DEF IInv
<1>3. WeightsAreSums'
  BY DEF IInv, WeightsAreSums
<1>4. candidates' = <<>>
  BY DEF IInv, PicksSound
<1>5. PicksSound' /\ ReserveKept' /\ GenresEven'
  BY <1>1, <1>4, NothingPickedNext
<1> QED BY <1>1, <1>2, <1>3, <1>5 DEF IInv

-----------------------------------------------------------------------------
(* One pick.                                                               *)

\* A pick is a track that is left, while exploring an unseen one if there is any.
LEMMA NextPicksLeft ==
    ASSUME IInv, Len(candidates) < Limit
    PROVE  /\ NextPicks \subseteq Left
           /\ Exploring /\ Unseen # {} => NextPicks \subseteq Unseen
           /\ ~Exploring => NextPicks = {Best(Left)}
<1>1. TypeOK /\ PicksSound
  BY DEF IInv
<1>2. Left \in SUBSET Tracks /\ Left # {}
  BY <1>1, PickFacts DEF Left, Pool
<1>3. Best(Left) \in Left
  BY <1>1, <1>2, BestIn
<1>4. Explored \subseteq Unseen /\ Unseen \subseteq Left
  BY DEF Explored, Unseen
<1> QED BY <1>3, <1>4 DEF NextPicks

\* What a pick leaves as it is.
LEMMA PickKeeps ==
    ASSUME UNCHANGED <<catalog, request, eventIDs, positive, negative, seen>>
    PROVE  Pool' = Pool /\ Cold' = Cold /\ Limit' = Limit /\ Reserve' = Reserve
<1>1. Pool' = Pool
  BY DEF Pool
<1>2. Cold' = Cold
  BY DEF Cold, NoWeights, Preferred
<1>3. Limit' = Limit
  BY <1>1 DEF Limit
<1>4. Reserve' = Reserve
  BY <1>2, <1>3 DEF Reserve
<1> QED BY <1>1, <1>2, <1>3, <1>4

\* Picks of a genre after one more.
LEMMA GenreCount ==
    ASSUME TypeOK, PicksSound, NEW t \in Left, catalog' = catalog, Picked' = Picked \cup {t},
           NEW g
    PROVE  /\ GenreSelected(g) \in Nat
           /\ GenreSelected(g)' = GenreSelected(g) + (IF catalog[t].genre = g THEN 1 ELSE 0)
<1> DEFINE S == {u \in Picked : catalog[u].genre = g}
<1>1. IsFiniteSet(S) /\ t \notin S
  <2>1. S \in SUBSET Picked /\ IsFiniteSet(Picked)
    BY PickFacts
  <2> QED BY <2>1, FS_Subset DEF Left
<1>2. Cardinality(S) \in Nat
  BY <1>1, FS_CardinalityType
<1>3. GenreSelected(g) = Cardinality(S)
  BY DEF GenreSelected
<1>4. CASE catalog[t].genre = g
  <2>1. {u \in Picked' : catalog'[u].genre = g} = S \cup {t}
    BY <1>4
  <2>2. GenreSelected(g)' = Cardinality(S \cup {t})
    BY <2>1 DEF GenreSelected
  <2> HIDE DEF S
  <2>3. Cardinality(S \cup {t}) = Cardinality(S) + 1
    BY <1>1, FS_AddElement
  <2> QED BY <1>2, <1>3, <1>4, <2>2, <2>3
<1>5. CASE catalog[t].genre # g
  <2>1. {u \in Picked' : catalog'[u].genre = g} = S
    BY <1>5
  <2>2. GenreSelected(g)' = Cardinality(S)
    BY <2>1 DEF GenreSelected
  <2> QED BY <1>2, <1>3, <1>5, <2>2
<1> QED BY <1>4, <1>5

LEMMA PickSound ==
    ASSUME IInv, Pick
    PROVE  IInv'
<1>0. TypeOK /\ IsFiniteSet(DOMAIN eventIDs) /\ WeightsAreSums /\ PicksSound /\ ReserveKept
  BY DEF IInv
<1>1. PICK t \in NextPicks : candidates' = Append(candidates, t)
  BY DEF Pick
<1>2. /\ UNCHANGED <<catalog, request, eventIDs, positive, negative, seen, stage>>
      /\ stage = "picks" /\ Len(candidates) < Limit
  BY DEF Pick
<1>3. Pool' = Pool /\ Cold' = Cold /\ Limit' = Limit /\ Reserve' = Reserve
  BY <1>2, PickKeeps
<1>4. t \in Left /\ t \in Pool /\ t \notin Picked /\ t \in Tracks
  BY <1>1, <1>2, NextPicksLeft DEF Left, Pool
<1>5. /\ candidates \in Seq(Pool) /\ Len(candidates) \in Nat /\ DOMAIN candidates = 1..Len(candidates)
      /\ IsInjective(candidates)
  BY <1>0 DEF PicksSound
<1>6. /\ candidates' \in Seq(Pool) /\ Len(candidates') = Len(candidates) + 1
      /\ DOMAIN candidates' = 1..(Len(candidates) + 1)
      /\ \A i \in 1..Len(candidates) : candidates'[i] = candidates[i]
      /\ candidates'[Len(candidates) + 1] = t
  BY <1>1, <1>4, <1>5
<1>7. Picked' = Picked \cup {t}
  <2>1. Picked' = {candidates'[i] : i \in 1..(Len(candidates) + 1)}
    BY <1>6 DEF Picked, ToSet
  <2>2. Picked = {candidates[i] : i \in 1..Len(candidates)}
    BY <1>5 DEF Picked, ToSet
  <2>3. ASSUME NEW i \in 1..(Len(candidates) + 1)
        PROVE  candidates'[i] \in Picked \cup {t}
    <3>1. i \in 1..Len(candidates) \/ i = Len(candidates) + 1
      BY <1>5
    <3> QED BY <1>6, <2>2, <3>1
  <2>4. ASSUME NEW u \in Picked \cup {t}
        PROVE  \E i \in 1..(Len(candidates) + 1) : candidates'[i] = u
    <3>1. CASE u = t
      <4>1. Len(candidates) + 1 \in 1..(Len(candidates) + 1)
        BY <1>5
      <4> QED BY <1>6, <3>1, <4>1
    <3>2. CASE u \in Picked
      <4>1. PICK i \in 1..Len(candidates) : candidates[i] = u
        BY <2>2, <3>2
      <4>2. i \in 1..(Len(candidates) + 1)
        BY <1>5
      <4> QED BY <1>6, <4>1, <4>2
    <3> QED BY <3>1, <3>2
  <2> QED BY <2>1, <2>3, <2>4
<1>8. TypeOK'
  <2>1. ToSet(candidates') \subseteq Tracks
    BY <1>0, <1>4, <1>7 DEF TypeOK, Picked
  <2> QED BY <1>0, <1>2, <2>1 DEF TypeOK
<1>9. IsFiniteSet(DOMAIN eventIDs') /\ WeightsAreSums'
  BY <1>0, <1>2 DEF WeightsAreSums
<1>10. PicksSound'
  <2>1. IsInjective(candidates')
    <3>1. ASSUME NEW i \in 1..(Len(candidates) + 1), NEW j \in 1..(Len(candidates) + 1),
                 candidates'[i] = candidates'[j], i # j
          PROVE  FALSE
      <4>1. \A k \in 1..Len(candidates) : candidates'[k] # t
        BY <1>4, <1>5, <1>6 DEF Picked, ToSet
      <4>2. i \in 1..Len(candidates) /\ j \in 1..Len(candidates)
        BY <1>5, <1>6, <3>1, <4>1
      <4> QED BY <1>5, <1>6, <3>1, <4>2 DEF IsInjective
    <3> QED BY <1>6, <3>1 DEF IsInjective
  <2>2. Len(candidates') <= Limit
    <3>1. Limit \in Nat
      BY <1>0, PoolFacts
    <3> QED BY <1>2, <1>5, <1>6, <3>1
  <2> QED BY <1>2, <1>3, <1>6, <2>1, <2>2 DEF PicksSound
<1>11. Limit \in Nat /\ Reserve \in 0..Limit
  BY <1>0, PoolFacts
<1>12. ReserveKept'
  <2> SUFFICES ASSUME Unseen' # {}
               PROVE  Cardinality(Picked' \ seen') >= Len(candidates') - (Limit - Reserve)
    BY <1>3 DEF ReserveKept
  <2>1. Unseen # {}
    BY <1>2, <1>3, <1>7 DEF Unseen, Left
  <2>2. IsFiniteSet(Picked \ seen) /\ Cardinality(Picked \ seen) \in Nat
    BY <1>0, PickFacts, FS_Difference, FS_CardinalityType
  <2>3. Cardinality(Picked \ seen) >= Len(candidates) - (Limit - Reserve)
    BY <1>0, <2>1 DEF ReserveKept
  <2>4. CASE Exploring
    <3>1. t \notin seen
      BY <1>1, <1>2, <2>1, <2>4, NextPicksLeft DEF Unseen
    <3>2. Picked' \ seen' = (Picked \ seen) \cup {t} /\ t \notin Picked \ seen
      BY <1>2, <1>4, <1>7, <3>1
    <3>3. Cardinality(Picked' \ seen') = Cardinality(Picked \ seen) + 1
      BY <2>2, <3>2, FS_AddElement
    <3> QED BY <1>5, <1>6, <1>11, <2>2, <2>3, <3>3
  <2>5. CASE ~Exploring
    <3>1. Len(candidates) < Limit - Reserve
      BY <1>5, <1>11, <2>5 DEF Exploring
    <3>2. Cardinality(Picked' \ seen') \in Nat
      <4>1. IsFiniteSet(Picked')
        BY <1>0, <1>7, PickFacts, FS_AddElement
      <4>2. IsFiniteSet(Picked' \ seen')
        BY <4>1, FS_Difference
      <4> QED BY <4>2, FS_CardinalityType
    <3> QED BY <1>5, <1>6, <1>11, <3>1, <3>2
  <2> QED BY <2>4, <2>5
<1>13. GenresEven'
  <2> SUFFICES ASSUME Cold, request.strategy # "popularity",
                      NEW g \in Genres, NEW h \in Genres,
                      NEW u \in Left', catalog'[u].genre = h
               PROVE  GenreSelected(g)' <= GenreSelected(h)' + 1
    BY <1>2, <1>3 DEF GenresEven
  <2>1. u \in Left /\ u \in Tracks /\ catalog[u].genre = h
    BY <1>2, <1>3, <1>7 DEF Left, Pool
  <2>2. GenreSelected(g) <= GenreSelected(h) + 1
    BY <2>1 DEF IInv, GenresEven
  <2>3. /\ GenreSelected(g) \in Nat
        /\ GenreSelected(g)' = GenreSelected(g) + (IF catalog[t].genre = g THEN 1 ELSE 0)
    BY <1>0, <1>2, <1>4, <1>7, GenreCount
  <2>4. /\ GenreSelected(h) \in Nat
        /\ GenreSelected(h)' = GenreSelected(h) + (IF catalog[t].genre = h THEN 1 ELSE 0)
    BY <1>0, <1>2, <1>4, <1>7, GenreCount
  <2>5. CASE catalog[t].genre = g
    <3>1. Reserve = 0
      BY DEF Reserve
    <3>2. ~Exploring
      BY <1>2, <1>5, <1>11, <3>1 DEF Exploring
    <3>3. t = Best(Left)
      BY <1>1, <1>2, <3>2, NextPicksLeft
    <3>4. Selection(u) <= Selection(t)
      <4>1. Left \in SUBSET Tracks /\ Left # {}
        BY <2>1 DEF Left, Pool
      <4> QED BY <1>0, <2>1, <3>3, <4>1, BestIn
    <3>5. PICK c \in Int : Taste(u) = c /\ Taste(t) = c
      <4>1. Taste(u) = Taste(t)
        BY DEF Taste, Score
      <4> QED BY <1>0, <1>4, <4>1, TasteInt
    <3>6. /\ Selection(u) = c - 1600 * GenreSelected(h)
          /\ Selection(t) = c - 1600 * GenreSelected(g)
      BY <2>1, <2>5, <3>5 DEF Selection
    <3>7. GenreSelected(g) <= GenreSelected(h)
      BY <2>3, <2>4, <3>4, <3>6
    <3> QED BY <2>3, <2>4, <3>7
  <2>6. CASE catalog[t].genre # g
    BY <2>2, <2>3, <2>4, <2>6
  <2> QED BY <2>5, <2>6
<1> QED BY <1>8, <1>9, <1>10, <1>12, <1>13 DEF IInv

-----------------------------------------------------------------------------
(* The ranker.                                                             *)

LEMMA StepSound == IInv /\ [Next]_vars => IInv'
<1> SUFFICES ASSUME IInv, [Next]_vars PROVE IInv'
  OBVIOUS
<1>1. ASSUME NEW id \in request.ids, NEW e \in Event, TakeEvent(id, e) PROVE IInv'
  BY <1>1, TakeEventSound
<1>2. ASSUME NEW id \in request.ids, NEW e \in Event, TakeDuplicate(id, e) PROVE IInv'
  BY <1>2, NoEventSound DEF TakeDuplicate
<1>3. CASE StartPicks
  BY <1>3, NoEventSound DEF StartPicks
<1>4. CASE Pick
  BY <1>4, PickSound
<1>5. CASE UNCHANGED vars
  <2>1. Pool' = Pool /\ Cold' = Cold /\ Limit' = Limit /\ Reserve' = Reserve
    BY <1>5, PickKeeps DEF vars
  <2>2. Picked' = Picked /\ Left' = Left /\ Unseen' = Unseen
    BY <1>5, <2>1 DEF vars, Picked, Left, Unseen
  <2>3. TypeOK' /\ WeightsAreSums' /\ PicksSound' /\ ReserveKept'
    BY <1>5, <2>1, <2>2 DEF IInv, vars, TypeOK, WeightsAreSums, PicksSound, ReserveKept
  <2>4. GenresEven'
    BY <1>5, <2>1, <2>2 DEF IInv, vars, GenresEven, GenreSelected
  <2> QED BY <1>5, <2>3, <2>4 DEF IInv, vars
<1> QED BY <1>1, <1>2, <1>3, <1>4, <1>5 DEF Next

\* The ranker keeps its inductive invariant, for every catalog, history and request.
THEOREM Invariance == Spec => []IInv
<1> QED BY InitSound, StepSound, PTL DEF Spec

\* Every variable keeps its type.
THEOREM TypeCorrect == Spec => []TypeOK
<1>1. IInv => TypeOK
  BY DEF IInv
<1> QED BY <1>1, Invariance, PTL

\* Each weight is the sum of what the different events add to it, cut once at its cap: neither
\* the order of the history nor an event sent twice changes it.
THEOREM WeightsCorrect == Spec => []WeightsAreSums
<1>1. IInv => WeightsAreSums
  BY DEF IInv
<1> QED BY <1>1, Invariance, PTL

\* An answer is as long as the pool allows and has no track twice; one that explores holds as
\* many unseen tracks as it reserves, or all there are.
THEOREM ExplorationCorrect == Spec => []ExplorationKept
<1>1. IInv => ExplorationKept
  <2> SUFFICES ASSUME IInv, Answered
               PROVE  /\ IsInjective(candidates) /\ Picked \subseteq Pool
                      /\ Cardinality(Picked \ seen) >= Min({Reserve, Cardinality(Pool \ seen)})
    BY DEF ExplorationKept
  <2>0. TypeOK /\ PicksSound /\ ReserveKept
    BY DEF IInv
  <2>1. IsInjective(candidates) /\ Picked \subseteq Pool
    BY <2>0, PickFacts DEF PicksSound
  <2>2. IsFiniteSet(Picked \ seen) /\ Cardinality(Picked \ seen) \in Nat
    BY <2>0, PickFacts, FS_Difference, FS_CardinalityType
  <2>3. IsFiniteSet(Pool \ seen) /\ Cardinality(Pool \ seen) \in Nat
    BY <2>0, PoolFacts, FS_Difference, FS_CardinalityType
  <2>4. Limit \in Nat /\ Reserve \in Nat
    BY <2>0, PoolFacts
  <2>5. LET m == Min({Reserve, Cardinality(Pool \ seen)})
        IN  m \in Int /\ m <= Reserve /\ m <= Cardinality(Pool \ seen)
    <3>1. Reserve \in Int /\ Cardinality(Pool \ seen) \in Int
      BY <2>3, <2>4
    <3> QED BY <3>1, MinOfTwo
  <2>6. CASE Unseen = {}
    <3>1. Pool \ seen \in SUBSET (Picked \ seen)
      BY <2>6 DEF Unseen, Left
    <3>2. Cardinality(Pool \ seen) <= Cardinality(Picked \ seen)
      BY <2>2, <3>1, FS_Subset
    <3> QED BY <2>1, <2>2, <2>3, <2>5, <3>2
  <2>7. CASE Unseen # {}
    <3>1. Cardinality(Picked \ seen) >= Len(candidates) - (Limit - Reserve)
      BY <2>0, <2>7 DEF ReserveKept
    <3>2. Cardinality(Picked \ seen) >= Reserve
      BY <2>2, <2>4, <3>1 DEF Answered
    <3> QED BY <2>1, <2>2, <2>4, <2>5, <3>2
  <2> QED BY <2>6, <2>7
<1> QED BY <1>1, Invariance, PTL

\* Without any history an answer covers the genres evenly, as far as their tracks go.
THEOREM ColdStartCorrect == Spec => []ColdStartCoversGenres
<1>1. IInv => ColdStartCoversGenres
  <2> SUFFICES ASSUME IInv, Cold, request.strategy # "popularity",
                      NEW g \in Genres, NEW h \in Genres
               PROVE  \/ Cardinality({t \in Picked : catalog[t].genre = g})
                           <= Cardinality({t \in Picked : catalog[t].genre = h}) + 1
                      \/ Cardinality({t \in Left : catalog[t].genre = h}) = 0
    BY DEF ColdStartCoversGenres
  <2>1. CASE GenreSelected(g) <= GenreSelected(h) + 1
    BY <2>1 DEF GenreSelected
  <2>2. CASE \A t \in Left : catalog[t].genre # h
    <3>1. {t \in Left : catalog[t].genre = h} = {}
      BY <2>2
    <3> QED BY <3>1, FS_EmptySet
  <2> QED BY <2>1, <2>2 DEF IInv, GenresEven
<1> QED BY <1>1, Invariance, PTL

-----------------------------------------------------------------------------
(* Feedback is monotone.                                                   *)

\* Rounding keeps the order of scores.
LEMMA RoundedOrder ==
    ASSUME NEW m \in Nat, NEW n \in Nat, m <= n, NEW one \in Nat, one >= 1
    PROVE  Rounded(m, one) <= Rounded(n, one)
<1> DEFINE rest(k) == (200 * (k % one) + one) \div (2 * one)
<1>1. ASSUME NEW k \in Nat
      PROVE  /\ k \div one \in Nat /\ k % one \in 0..(one - 1)
             /\ k = one * (k \div one) + (k % one)
  OBVIOUS
<1>2. m \div one <= n \div one
  <2>1. PICK p \in Nat : p = m \div one
    BY <1>1
  <2>2. PICK q \in Nat : q = n \div one
    BY <1>1
  <2>3. SUFFICES ASSUME p >= q + 1 PROVE FALSE
    BY <2>1, <2>2
  <2>4. one * p >= one * (q + 1)
    BY <2>3
  <2>5. one * (q + 1) = one * q + one /\ one * p \in Nat /\ one * q \in Nat
    OBVIOUS
  <2> QED BY <1>1, <2>1, <2>2, <2>4, <2>5
<1>3. ASSUME NEW k \in Nat PROVE rest(k) \in 0..100
  <2>1. k % one \in 0..(one - 1)
    BY <1>1
  <2>2. PICK a \in Nat : a = 200 * (k % one) + one /\ a < 202 * one
    BY <2>1
  <2>3. PICK b \in Nat : b = 2 * one /\ b >= 1
    OBVIOUS
  <2>4. a \div b \in Nat /\ b * (a \div b) <= a
    BY <2>3
  <2>5. PICK q \in Nat : q = a \div b
    BY <2>4
  <2>6. ASSUME q >= 101 PROVE FALSE
    <3>1. b * q >= b * 101
      BY <2>3, <2>6
    <3> QED BY <2>2, <2>3, <2>4, <2>5, <3>1
  <2> QED BY <2>2, <2>3, <2>5, <2>6
<1>4. CASE m \div one = n \div one
  <2>1. m % one <= n % one
    BY <1>1, <1>4
  <2>2. rest(m) <= rest(n)
    <3>1. PICK a \in Nat : a = 200 * (m % one) + one
      BY <1>1
    <3>2. PICK c \in Nat : c = 200 * (n % one) + one
      BY <1>1
    <3>3. a <= c
      BY <1>1, <2>1, <3>1, <3>2
    <3>4. PICK b \in Nat : b = 2 * one /\ b >= 1
      OBVIOUS
    <3>5. PICK p \in Nat : p = a \div b /\ b * p <= a /\ a < b * p + b
      BY <3>4
    <3>6. PICK q \in Nat : q = c \div b /\ b * q <= c /\ c < b * q + b
      BY <3>4
    <3>7. ASSUME p >= q + 1 PROVE FALSE
      <4>1. b * p >= b * (q + 1)
        BY <3>4, <3>7
      <4>2. b * (q + 1) = b * q + b /\ b * p \in Nat /\ b * q \in Nat
        BY <3>4
      <4> QED BY <3>3, <3>5, <3>6, <4>1, <4>2
    <3> QED BY <3>1, <3>2, <3>4, <3>5, <3>6, <3>7
  <2>3. rest(m) \in Int /\ rest(n) \in Int
    BY <1>3
  <2> HIDE DEF rest
  <2>4. Rounded(m, one) = 100 * (m \div one) + rest(m) /\ Rounded(n, one) = 100 * (n \div one) + rest(n)
    BY DEF Rounded, rest
  <2> QED BY <1>1, <1>4, <2>2, <2>3, <2>4
<1>5. CASE m \div one # n \div one
  <2>1. rest(m) \in 0..100 /\ rest(n) \in 0..100
    BY <1>3
  <2> HIDE DEF rest
  <2>2. Rounded(m, one) = 100 * (m \div one) + rest(m) /\ Rounded(n, one) = 100 * (n \div one) + rest(n)
    BY DEF Rounded, rest
  <2>3. PICK p \in Nat : p = m \div one
    BY <1>1
  <2>4. PICK q \in Nat : q = n \div one
    BY <1>1
  <2>5. p + 1 <= q
    BY <1>2, <1>5, <2>3, <2>4
  <2>6. 100 * p + rest(m) <= 100 * q + rest(n)
    BY <2>1, <2>5
  <2> QED BY <2>2, <2>3, <2>4, <2>6
<1> QED BY <1>4, <1>5

LEMMA TasteOrder ==
    TypeOK => \A t, u \in Tracks : /\ Taste(t) \in Int /\ Score(t) \in Int
                                   /\ Score(t) <= Score(u) => Taste(t) <= Taste(u)
<1> SUFFICES ASSUME TypeOK, NEW t \in Tracks, NEW u \in Tracks
             PROVE  /\ Taste(t) \in Int /\ Score(t) \in Int
                    /\ Score(t) <= Score(u) => Taste(t) <= Taste(u)
  OBVIOUS
<1>1. One \in Nat /\ One >= 1
  BY OneNat
<1>2. Score(t) \in Int /\ Score(u) \in Int /\ Taste(t) \in Int
  BY ScoreInt, TasteInt
<1>3. ASSUME Score(t) <= Score(u) PROVE Taste(t) <= Taste(u)
  <2>1. PICK m \in Nat : m = Clamp(100 * One, Score(t))
    BY <1>1, <1>2 DEF Clamp, AtMost
  <2>2. PICK n \in Nat : n = Clamp(100 * One, Score(u))
    BY <1>1, <1>2 DEF Clamp, AtMost
  <2>3. m <= n
    BY <1>1, <1>2, <1>3, <2>1, <2>2 DEF Clamp, AtMost
  <2>4. Rounded(m, One) <= Rounded(n, One)
    BY <1>1, <2>3, RoundedOrder
  <2> QED BY <2>1, <2>2, <2>4 DEF Taste
<1> QED BY <1>2, <1>3

\* What is left of a whole when the similarity is taken off is a metric.
LEMMA Metric ==
    ASSUME TypeOK, NEW a \in Tracks, NEW u \in Tracks
    PROVE  /\ Similarity(a, a) - Similarity(u, a) \in Nat
           /\ \A v \in Tracks : Similarity(a, v) - Similarity(u, v)
                                  <= Similarity(a, a) - Similarity(u, a)
<1>1. catalog[a].tempo \in Nat /\ catalog[u].tempo \in Nat
  BY InputTypes
<1>2. Similarity(a, a) - Similarity(u, a) \in Nat
  BY <1>1 DEF Similarity, AtMost, Gap
<1>3. ASSUME NEW v \in Tracks
      PROVE  Similarity(a, v) - Similarity(u, v) <= Similarity(a, a) - Similarity(u, a)
  <2>1. catalog[v].tempo \in Nat
    BY InputTypes
  <2>2. PICK genre \in [Tracks -> [Tracks -> {0, 240}]] :
          genre = [t \in Tracks |-> [s \in Tracks |->
                     IF catalog[t].genre = catalog[s].genre THEN 240 ELSE 0]]
    OBVIOUS
  <2>3. PICK tempo \in [Tracks -> [Tracks -> Int]] :
          tempo = [t \in Tracks |-> [s \in Tracks |->
                     100 - AtMost(100, Gap(catalog[t].tempo, catalog[s].tempo))]]
    <3>1. \A t, s \in Tracks : 100 - AtMost(100, Gap(catalog[t].tempo, catalog[s].tempo)) \in Int
      <4>1. TAKE t, s \in Tracks
      <4>2. catalog[t].tempo \in Nat /\ catalog[s].tempo \in Nat
        BY InputTypes
      <4> QED BY <4>2 DEF AtMost, Gap
    <3> QED BY <3>1
  <2>4. PICK artist \in [Tracks -> [Tracks -> {0, 60}]] :
          artist = [t \in Tracks |-> [s \in Tracks |->
                     IF ArtistUseful /\ catalog[t].artist = catalog[s].artist THEN 60 ELSE 0]]
    OBVIOUS
  <2>5. \A t, s \in Tracks : Similarity(t, s) = genre[t][s] + tempo[t][s] + artist[t][s]
    BY <2>2, <2>3, <2>4, InputTypes DEF Similarity, AtMost, Gap
  <2>6. genre[a][v] - genre[u][v] <= genre[a][a] - genre[u][a]
    BY <2>2
  <2>7. tempo[a][v] - tempo[u][v] <= tempo[a][a] - tempo[u][a]
    BY <1>1, <2>1, <2>3 DEF AtMost, Gap
  <2>8. artist[a][v] - artist[u][v] <= artist[a][a] - artist[u][a]
    BY <2>4
  <2>9. \A t, s \in Tracks : genre[t][s] \in Int /\ tempo[t][s] \in Int /\ artist[t][s] \in Int
    OBVIOUS
  <2> QED BY <2>5, <2>6, <2>7, <2>8, <2>9
<1> QED BY <1>2, <1>3

\* A track leads another in affinity by no more than it would if all weight were its own.
LEMMA AffinityLead ==
    ASSUME TypeOK, NEW w \in [Tracks -> Nat], NEW a \in Tracks, NEW u \in Tracks
    PROVE  Affinity(a, w) - Affinity(u, w) <= (Similarity(a, a) - Similarity(u, a)) * Weight(w)
<1> DEFINE f == [v \in Tracks |-> w[v] * Similarity(a, v)]
           g == [v \in Tracks |-> w[v] * Similarity(u, v)]
<1>1. PICK k \in Nat : /\ k = Similarity(a, a) - Similarity(u, a)
                       /\ \A v \in Tracks : Similarity(a, v) - Similarity(u, v) <= k
  BY Metric
<1>2. \A v \in Tracks : /\ f[v] \in Int /\ g[v] \in Int /\ w[v] \in Int
                        /\ f[v] - g[v] <= k * w[v]
  <2>1. TAKE v \in Tracks
  <2>2. PICK m \in Nat : m = w[v]
    OBVIOUS
  <2>3. PICK b \in Nat : b = Similarity(a, v)
    BY SimilarityNat
  <2>4. PICK c \in Nat : c = Similarity(u, v)
    BY SimilarityNat
  <2>5. b - c <= k
    BY <1>1, <2>3, <2>4
  <2>6. m * (b - c) <= m * k
    BY <2>5
  <2>7. m * b - m * c <= k * m /\ m * b \in Int /\ m * c \in Int
    BY <2>6
  <2>8. f[v] = m * b /\ g[v] = m * c
    BY <2>2, <2>3, <2>4
  <2> QED BY <2>2, <2>7, <2>8
<1> HIDE DEF f, g
<1>3. Numbers(f, Tracks) /\ Numbers(g, Tracks) /\ Numbers(w, Tracks) /\ Within(f, g, k, w, Tracks)
  BY <1>2 DEF Numbers, Within
<1>4. SumFunctionOnSet(f, Tracks) - SumFunctionOnSet(g, Tracks) <= k * SumFunctionOnSet(w, Tracks)
  BY <1>3, TracksFinite, SumBound
<1> QED BY <1>1, <1>4 DEF Affinity, Weight, f, g

\* What more weight of a track adds.
LEMMA AffinityAdd ==
    ASSUME TypeOK, NEW v \in [Tracks -> Nat], NEW w \in [Tracks -> Nat], NEW a \in Tracks,
           \A t \in Tracks \ {a} : v[t] = w[t]
    PROVE  /\ Weight(v) = Weight(w) + (v[a] - w[a])
           /\ \A t \in Tracks : Affinity(t, v) = Affinity(t, w) + (v[a] - w[a]) * Similarity(t, a)
<1>1. Weight(v) = Weight(w) + (v[a] - w[a])
  <2>1. Numbers(v, Tracks) /\ Numbers(w, Tracks) /\ ApartAt(a, v, w, Tracks)
    BY DEF Numbers, ApartAt
  <2> QED BY <2>1, TracksFinite, SumChange DEF Weight
<1>2. ASSUME NEW t \in Tracks
      PROVE  Affinity(t, v) = Affinity(t, w) + (v[a] - w[a]) * Similarity(t, a)
  <2> DEFINE f == [u \in Tracks |-> v[u] * Similarity(t, u)]
             g == [u \in Tracks |-> w[u] * Similarity(t, u)]
  <2>1. \A u \in Tracks : f[u] \in Int /\ g[u] \in Int
    <3>1. TAKE u \in Tracks
    <3>2. Similarity(t, u) \in Nat /\ v[u] \in Nat /\ w[u] \in Nat
      BY SimilarityNat
    <3>3. v[u] * Similarity(t, u) \in Int /\ w[u] * Similarity(t, u) \in Int
      BY <3>2
    <3> QED BY <3>3
  <2>2. \A u \in Tracks \ {a} : f[u] = g[u]
    OBVIOUS
  <2>3. f[a] - g[a] = (v[a] - w[a]) * Similarity(t, a)
    <3>1. Similarity(t, a) \in Nat /\ v[a] \in Nat /\ w[a] \in Nat
      BY SimilarityNat
    <3> QED BY <3>1
  <2> HIDE DEF f, g
  <2>4. Numbers(f, Tracks) /\ Numbers(g, Tracks) /\ ApartAt(a, f, g, Tracks)
    BY <2>1, <2>2 DEF Numbers, ApartAt
  <2>5. SumFunctionOnSet(f, Tracks) = SumFunctionOnSet(g, Tracks) + (f[a] - g[a])
    BY <2>4, TracksFinite, SumChange
  <2>6. Affinity(t, v) = Affinity(t, w) + (f[a] - g[a])
    BY <2>5 DEF Affinity, f, g
  <2> QED BY <2>3, <2>6
<1> QED BY <1>1, <1>2

\* The scale of some weights is their sum, or one.
LEMMA ScaleIs ==
    ASSUME NEW w, Weight(w) \in Nat
    PROVE  Scale(w) = IF Weight(w) >= 1 THEN Weight(w) ELSE 1
<1>1. Scale(w) \in {1, Weight(w)} /\ Scale(w) >= 1 /\ Scale(w) >= Weight(w)
  BY MaxOfTwo DEF Scale
<1> QED BY <1>1

\* The lead x + p * y, of which x grows with the sum s of the weights, stays positive when the
\* sum grows by d and x by d times its greatest share k: a mean that moves towards what
\* already leads.
LEMMA LeadKept ==
    ASSUME NEW s \in Nat, NEW d \in Nat, d >= 1, NEW k \in Nat, NEW x \in Int, NEW y \in Int,
           x <= k * s, NEW p \in Nat, p = (IF s >= 1 THEN s ELSE 1), x + p * y > 0
    PROVE  x + k * d + (s + d) * y >= 0
<1>1. k * d \in Nat
  OBVIOUS
<1>2. (s + d) * y = s * y + d * y /\ s * y \in Int /\ d * y \in Int
  OBVIOUS
<1>3. CASE y >= 0
  <2>1. d * y >= y
    BY <1>3
  <2>2. CASE s >= 1
    BY <1>1, <1>2, <1>3, <2>1, <2>2
  <2>3. CASE s = 0
    BY <1>1, <1>2, <1>3, <2>1, <2>3
  <2> QED BY <2>2, <2>3
<1>4. CASE y < 0
  <2>1. CASE s = 0
    BY <1>4, <2>1
  <2>2. CASE s >= 1
    <3>1. x + s * y > 0
      BY <2>2
    <3>2. s * (k + y) > 0
      <4>1. s * (k + y) = k * s + s * y
        OBVIOUS
      <4>2. k * s \in Int
        OBVIOUS
      <4> QED BY <1>2, <3>1, <4>1, <4>2
    <3>3. k + y >= 1
      <4>1. SUFFICES ASSUME k + y <= 0 PROVE FALSE
        OBVIOUS
      <4>2. s * (k + y) <= 0
        BY <4>1
      <4> QED BY <3>2, <4>2
    <3>4. d * (k + y) >= 0
      BY <3>3
    <3>5. d * (k + y) = k * d + d * y
      OBVIOUS
    <3> QED BY <1>1, <1>2, <3>1, <3>4, <3>5
  <2> QED BY <2>1, <2>2
<1> QED BY <1>3, <1>4

\* The lead in score: p scales the likes, n the skips; a, b and g are the leads in affinity to
\* the liked and to the skipped tracks and in genre.
LeadOf(n, p, f, a, b, g) == 120 * n * a + 35 * (2 * p * n * f) * g - 40 * p * b

\* A lead is kept by a like, which moves all affinities by at most d times the greatest share k.
LEMMA LikeKept ==
    ASSUME NEW s \in Nat, NEW d \in Nat, d >= 1, NEW k \in Nat, NEW n \in Nat, NEW f \in Nat,
           NEW a \in Int, NEW b \in Int, NEW g \in Int, a <= k * s,
           NEW p \in Nat, p = (IF s >= 1 THEN s ELSE 1),
           LeadOf(n, p, f, a, b, g) > 0
    PROVE  LeadOf(n, s + d, f, a + d * k, b, g) >= 0
<1>1. PICK x \in Int : x = 120 * n * a
  OBVIOUS
<1>0. PICK c \in Int : c = n * f * g
  OBVIOUS
<1>2. PICK y \in Int : y = 70 * c - 40 * b
  <2>1. 70 * c - 40 * b \in Int
    OBVIOUS
  <2> QED BY <2>1, Zenon
<1>3. PICK m \in Nat : m = 120 * n * k
  OBVIOUS
<1>4. x <= m * s
  <2>1. n * a <= n * (k * s)
    OBVIOUS
  <2>2. m * s = 120 * (n * (k * s)) /\ x = 120 * (n * a)
    BY <1>1, <1>3
  <2> QED BY <2>1, <2>2
<1>5. x + p * y > 0
  <2>1. p * y = 35 * (2 * p * n * f) * g - 40 * p * b
    BY <1>2, <1>0
  <2>2. 120 * n * a + 35 * (2 * p * n * f) * g - 40 * p * b > 0
    BY DEF LeadOf
  <2> QED BY <1>1, <2>1, <2>2
<1>6. x + m * d + (s + d) * y >= 0
  BY <1>4, <1>5, LeadKept
<1>7. (s + d) * y = 35 * (2 * (s + d) * n * f) * g - 40 * (s + d) * b
  BY <1>2, <1>0
<1>8. x + m * d = 120 * n * (a + d * k)
  BY <1>1, <1>3
<1> QED BY <1>6, <1>7, <1>8 DEF LeadOf

\* The same for a skip.
LEMMA SkipKept ==
    ASSUME NEW s \in Nat, NEW d \in Nat, d >= 1, NEW k \in Nat, NEW p \in Nat, NEW f \in Nat,
           NEW a \in Int, NEW b \in Int, NEW g \in Int, b <= k * s,
           NEW n \in Nat, n = (IF s >= 1 THEN s ELSE 1),
           LeadOf(n, p, f, a, b, g) < 0
    PROVE  LeadOf(s + d, p, f, a, b + d * k, g) <= 0
<1>1. PICK x \in Int : x = 40 * p * b
  OBVIOUS
<1>2. PICK y \in Int : y = -(120 * a + 70 * (p * f * g))
  OBVIOUS
<1>3. PICK m \in Nat : m = 40 * p * k
  OBVIOUS
<1>4. x <= m * s
  <2>1. p * b <= p * (k * s)
    OBVIOUS
  <2>2. m * s = 40 * (p * (k * s)) /\ x = 40 * (p * b)
    BY <1>1, <1>3
  <2> QED BY <2>1, <2>2
<1>5. x + n * y > 0
  <2>1. n * y = -(120 * n * a + 35 * (2 * p * n * f) * g)
    BY <1>2
  <2>2. 120 * n * a + 35 * (2 * p * n * f) * g - 40 * p * b < 0
    BY DEF LeadOf
  <2> QED BY <1>1, <2>1, <2>2
<1>6. x + m * d + (s + d) * y >= 0
  BY <1>4, <1>5, LeadKept
<1>7. (s + d) * y = -(120 * (s + d) * a + 35 * (2 * p * (s + d) * f) * g)
  BY <1>2
<1>8. x + m * d = 40 * p * (b + d * k)
  BY <1>1, <1>3
<1> QED BY <1>6, <1>7, <1>8 DEF LeadOf

\* One for a track of a preferred genre.
Bonus(t) == IF catalog[t].genre \in Preferred THEN 1 ELSE 0

\* How far one track leads another.
Lead(t, u) ==
    120 * Scale(negative) * (Affinity(t, positive) - Affinity(u, positive))
    + 35 * One * (Bonus(t) - Bonus(u))
    - 40 * Scale(positive) * (Affinity(t, negative) - Affinity(u, negative))

LEMMA LeadIs ==
    TypeOK => \A t, u \in Tracks : Score(t) - Score(u) = IF Cold THEN 0 ELSE Lead(t, u)
<1> SUFFICES ASSUME TypeOK, NEW t \in Tracks, NEW u \in Tracks
             PROVE  Score(t) - Score(u) = IF Cold THEN 0 ELSE Lead(t, u)
  OBVIOUS
<1>1. PICK one \in Nat : one = One
  BY OneNat
<1>2. PICK p \in Nat : p = Scale(positive)
  BY WeightTypes, SumsNat
<1>3. PICK n \in Nat : n = Scale(negative)
  BY WeightTypes, SumsNat
<1>4. PICK at \in Nat : at = Affinity(t, positive)
  BY WeightTypes, SumsNat
<1>5. PICK au \in Nat : au = Affinity(u, positive)
  BY WeightTypes, SumsNat
<1>6. PICK bt \in Nat : bt = Affinity(t, negative)
  BY WeightTypes, SumsNat
<1>7. PICK bu \in Nat : bu = Affinity(u, negative)
  BY WeightTypes, SumsNat
<1>8. PICK h \in Int : h = (5 * one) \div 2
  OBVIOUS
<1>9. CASE Cold
  BY <1>1, <1>9 DEF Score
<1>10. CASE ~Cold /\ NoWeights /\ Preferred = {}
  <2>1. Score(t) = 50 * one - 40 * p * bt /\ Score(u) = 50 * one - 40 * p * bu
    BY <1>1, <1>2, <1>6, <1>7, <1>10 DEF Score, Penalty
  <2>2. \A v \in Tracks : Affinity(v, positive) = 0
    <3>1. TAKE v \in Tracks
    <3> DEFINE f == [x \in Tracks |-> positive[x] * Similarity(v, x)]
    <3>2. \A x \in Tracks : f[x] = 0
      <4>1. TAKE x \in Tracks
      <4>2. Similarity(v, x) \in Nat /\ positive[x] = 0
        BY <1>10, SimilarityNat DEF NoWeights
      <4> QED BY <4>2
    <3> HIDE DEF f
    <3>3. SumFunctionOnSet(f, Tracks) = 0
      BY <3>2, TracksFinite, SumZero
    <3> QED BY <3>3 DEF Affinity, f
  <2>3. at = 0 /\ au = 0 /\ Bonus(t) = 0 /\ Bonus(u) = 0
    BY <1>4, <1>5, <1>10, <2>2 DEF Bonus
  <2>4. Lead(t, u) = 120 * n * (0 - 0) + 35 * one * (0 - 0) - 40 * p * (bt - bu)
    BY <1>1, <1>2, <1>3, <1>4, <1>5, <1>6, <1>7, <2>3 DEF Lead
  <2>5. 120 * n * (0 - 0) = 0 /\ 35 * one * (0 - 0) = 0
    OBVIOUS
  <2>6. Lead(t, u) = -(40 * p * (bt - bu))
    BY <2>4, <2>5
  <2>7. (50 * one - 40 * p * bt) - (50 * one - 40 * p * bu) = -(40 * p * (bt - bu))
    OBVIOUS
  <2> QED BY <1>10, <2>1, <2>6, <2>7
<1>11. CASE ~Cold /\ ~(NoWeights /\ Preferred = {})
  <2>1. PICK gt \in {0, 1} : gt = Bonus(t)
    BY DEF Bonus
  <2>2. PICK gu \in {0, 1} : gu = Bonus(u)
    BY DEF Bonus
  <2>3. Score(t) = 120 * n * at + 35 * one * gt + h - 40 * p * bt
    BY <1>1, <1>2, <1>3, <1>4, <1>6, <1>8, <1>11, <2>1 DEF Score, Penalty, Bonus
  <2>4. Score(u) = 120 * n * au + 35 * one * gu + h - 40 * p * bu
    BY <1>1, <1>2, <1>3, <1>5, <1>7, <1>8, <1>11, <2>2 DEF Score, Penalty, Bonus
  <2>5. Lead(t, u) = 120 * n * (at - au) + 35 * one * (gt - gu) - 40 * p * (bt - bu)
    BY <1>1, <1>2, <1>3, <1>4, <1>5, <1>6, <1>7, <2>1, <2>2 DEF Lead
  <2>6. (120 * n * at + 35 * one * gt + h - 40 * p * bt) - (120 * n * au + 35 * one * gu + h - 40 * p * bu)
          = 120 * n * (at - au) + 35 * one * (gt - gu) - 40 * p * (bt - bu)
    BY <2>1, <2>2
  <2> QED BY <1>11, <2>3, <2>4, <2>5, <2>6
<1> QED BY <1>9, <1>10, <1>11

\* The same in the next state.
LEMMA LeadIsNext ==
    TypeOK' => \A t, u \in Tracks : Score(t)' - Score(u)' = IF Cold' THEN 0 ELSE Lead(t, u)'
<1>1. (TypeOK => \A t, u \in Tracks : Score(t) - Score(u) = IF Cold THEN 0 ELSE Lead(t, u))'
  BY LeadIs, PTL
<1> QED BY <1>1

LEMMA TasteOrderNext ==
    TypeOK' => \A t, u \in Tracks : /\ Taste(t)' \in Int /\ Score(t)' \in Int
                                    /\ Score(t)' <= Score(u)' => Taste(t)' <= Taste(u)'
<1>1. (TypeOK => \A t, u \in Tracks : /\ Taste(t) \in Int /\ Score(t) \in Int
                                      /\ Score(t) <= Score(u) => Taste(t) <= Taste(u))'
  BY TasteOrder, PTL
<1> QED BY <1>1

\* An event changes no similarity, and the scores of the next state are those of its weights.
LEMMA SameScales ==
    ASSUME UNCHANGED <<catalog, request>>
    PROVE  /\ Whole' = Whole
           /\ Scale(positive)' = Scale(positive') /\ Scale(negative)' = Scale(negative')
           /\ \A t \in Tracks : /\ Affinity(t, positive)' = Affinity(t, positive')
                                /\ Affinity(t, negative)' = Affinity(t, negative')
                                /\ Bonus(t)' = Bonus(t)
<1>1. ArtistUseful' = ArtistUseful
  BY DEF ArtistUseful
<1>2. Whole' = Whole
  BY <1>1 DEF Whole
<1>3. Scale(positive)' = Scale(positive') /\ Scale(negative)' = Scale(negative')
  BY DEF Scale, Weight
<1>4. ASSUME NEW t \in Tracks
      PROVE  /\ Affinity(t, positive)' = Affinity(t, positive')
             /\ Affinity(t, negative)' = Affinity(t, negative')
             /\ Bonus(t)' = Bonus(t)
  BY <1>1 DEF Affinity, Similarity, Bonus, Preferred
<1> QED BY <1>2, <1>3, <1>4

LEMMA EventKeepsOrder ==
    ASSUME IInv, NEW id \in request.ids, NEW e \in Event, TakeEvent(id, e)
    PROVE  KeepsOrder
<1>0. TypeOK /\ TypeOK'
  BY TakeEventSound DEF IInv
<1>1. /\ UNCHANGED <<catalog, request>>
      /\ positive' = [positive EXCEPT ![e.track] = AtMost(PositiveCap, @ + PositiveWeight(e.type))]
      /\ negative' = [negative EXCEPT ![e.track] = AtMost(NegativeCap, @ + NegativeWeight(e.type))]
  BY DEF TakeEvent, Count
<1>2. /\ positive \in [Tracks -> 0..PositiveCap] /\ negative \in [Tracks -> 0..NegativeCap]
      /\ positive' \in [Tracks -> 0..PositiveCap] /\ negative' \in [Tracks -> 0..NegativeCap]
  BY <1>0 DEF TypeOK
<1>3. /\ positive \in [Tracks -> Nat] /\ negative \in [Tracks -> Nat]
      /\ positive' \in [Tracks -> Nat] /\ negative' \in [Tracks -> Nat]
  BY <1>2 DEF PositiveCap, NegativeCap
<1>4. e.track \in Tracks /\ e.type \in EventTypes
  BY DEF Event
<1>5. /\ Weight(positive) \in Nat /\ Scale(positive) \in Nat
      /\ Weight(negative) \in Nat /\ Scale(negative) \in Nat
      /\ \A t \in Tracks : Affinity(t, positive) \in Nat /\ Affinity(t, negative) \in Nat
  BY <1>0, <1>3, SumsNat
<1>6. ASSUME NEW t \in Tracks PROVE Bonus(t) \in Int
  BY DEF Bonus
<1>7. /\ Whole' = Whole
      /\ Scale(positive)' = Scale(positive') /\ Scale(negative)' = Scale(negative')
      /\ \A t \in Tracks : /\ Affinity(t, positive)' = Affinity(t, positive')
                           /\ Affinity(t, negative)' = Affinity(t, negative')
                           /\ Bonus(t)' = Bonus(t)
  BY <1>1, SameScales
<1>8. ASSUME NEW t \in Tracks, NEW u \in Tracks, positive'[t] > positive[t], Taste(t) > Taste(u)
      PROVE  Taste(t)' >= Taste(u)'
  <2>1. t = e.track
    BY <1>1, <1>3, <1>8
  <2>2. negative' = negative
    <3>1. PositiveWeight(e.type) # 0
      BY <1>1, <1>2, <1>8, <2>1 DEF AtMost
    <3>2. NegativeWeight(e.type) = 0
      BY <3>1 DEF PositiveWeight, NegativeWeight
    <3>3. AtMost(NegativeCap, negative[e.track] + 0) = negative[e.track]
      BY <1>2, <1>4 DEF AtMost, NegativeCap
    <3> QED BY <1>1, <1>3, <3>2, <3>3
  <2>3. PICK d \in Nat : d = positive'[t] - positive[t] /\ d >= 1
    BY <1>3, <1>8
  <2>4. PICK s \in Nat : s = Weight(positive)
    BY <1>5
  <2>5. PICK p \in Nat : p = Scale(positive) /\ p = (IF s >= 1 THEN s ELSE 1)
    BY <1>5, <2>4, ScaleIs
  <2>6. PICK n \in Nat : n = Scale(negative)
    BY <1>5
  <2>7. PICK f \in Nat : f = Whole
    BY WholeNat
  <2>8. PICK k \in Nat : k = Similarity(t, t) - Similarity(u, t)
    BY <1>0, Metric
  <2>9. PICK a \in Int : a = Affinity(t, positive) - Affinity(u, positive)
    BY <1>5
  <2>10. PICK b \in Int : b = Affinity(t, negative) - Affinity(u, negative)
    BY <1>5
  <2>11. PICK g \in Int : g = Bonus(t) - Bonus(u)
    BY <1>6
  <2>12. a <= k * s
    BY <1>0, <1>3, <2>4, <2>8, <2>9, AffinityLead
  <2>13. Score(t) > Score(u) /\ Score(t) \in Int /\ Score(u) \in Int
    BY <1>0, <1>8, TasteOrder
  <2>14. Lead(t, u) = LeadOf(n, p, f, a, b, g)
    BY <2>5, <2>6, <2>7, <2>9, <2>10, <2>11 DEF Lead, LeadOf, One
  <2>15. LeadOf(n, p, f, a, b, g) > 0
    <3>1. Score(t) - Score(u) = IF Cold THEN 0 ELSE Lead(t, u)
      BY <1>0, LeadIs
    <3> QED BY <2>13, <2>14, <3>1
  <2>16. LeadOf(n, s + d, f, a + d * k, b, g) >= 0
    BY <2>3, <2>5, <2>12, <2>15, LikeKept
  <2>17. /\ Weight(positive') = s + d
         /\ \A v \in Tracks : Affinity(v, positive') = Affinity(v, positive) + d * Similarity(v, t)
    <3>1. \A v \in Tracks \ {t} : positive'[v] = positive[v]
      BY <1>1, <1>3, <2>1
    <3> QED BY <1>0, <1>3, <2>3, <2>4, <3>1, AffinityAdd
  <2>18. Scale(positive') = s + d
    BY <2>3, <2>17, ScaleIs
  <2>19. Affinity(t, positive') - Affinity(u, positive') = a + d * k
    <3>1. Similarity(t, t) \in Nat /\ Similarity(u, t) \in Nat
      BY <1>0, SimilarityNat
    <3>2. d * k = d * Similarity(t, t) - d * Similarity(u, t)
      BY <2>8, <3>1
    <3>3. d * Similarity(t, t) \in Int /\ d * Similarity(u, t) \in Int
      BY <3>1
    <3>4. Affinity(t, positive) \in Int /\ Affinity(u, positive) \in Int
      BY <1>5
    <3> QED BY <2>9, <2>17, <3>2, <3>3, <3>4
  <2>20. Lead(t, u)' = LeadOf(n, s + d, f, a + d * k, b, g)
    BY <1>7, <2>2, <2>6, <2>7, <2>10, <2>11, <2>18, <2>19 DEF Lead, LeadOf, One
  <2>21. ~Cold'
    BY <1>3, <1>8 DEF Cold, NoWeights
  <2>22. Score(t)' - Score(u)' = Lead(t, u)'
    BY <1>0, <2>21, LeadIsNext
  <2>23. Score(t)' \in Int /\ Score(u)' \in Int
    BY <1>0, TasteOrderNext
  <2>24. Score(u)' <= Score(t)'
    BY <2>16, <2>20, <2>22, <2>23
  <2>25. Taste(u)' <= Taste(t)' /\ Taste(u)' \in Int /\ Taste(t)' \in Int
    BY <1>0, <2>24, TasteOrderNext
  <2> QED BY <2>25
<1>9. ASSUME NEW t \in Tracks, NEW u \in Tracks, negative'[t] > negative[t], Taste(t) < Taste(u)
      PROVE  Taste(t)' <= Taste(u)'
  <2>1. t = e.track
    BY <1>1, <1>3, <1>9
  <2>2. positive' = positive
    <3>1. NegativeWeight(e.type) # 0
      BY <1>1, <1>2, <1>9, <2>1 DEF AtMost
    <3>2. PositiveWeight(e.type) = 0
      BY <3>1 DEF PositiveWeight, NegativeWeight
    <3>3. AtMost(PositiveCap, positive[e.track] + 0) = positive[e.track]
      BY <1>2, <1>4 DEF AtMost, PositiveCap
    <3> QED BY <1>1, <1>3, <3>2, <3>3
  <2>3. PICK d \in Nat : d = negative'[t] - negative[t] /\ d >= 1
    BY <1>3, <1>9
  <2>4. PICK s \in Nat : s = Weight(negative)
    BY <1>5
  <2>5. PICK n \in Nat : n = Scale(negative) /\ n = (IF s >= 1 THEN s ELSE 1)
    BY <1>5, <2>4, ScaleIs
  <2>6. PICK p \in Nat : p = Scale(positive)
    BY <1>5
  <2>7. PICK f \in Nat : f = Whole
    BY WholeNat
  <2>8. PICK k \in Nat : k = Similarity(t, t) - Similarity(u, t)
    BY <1>0, Metric
  <2>9. PICK a \in Int : a = Affinity(t, positive) - Affinity(u, positive)
    BY <1>5
  <2>10. PICK b \in Int : b = Affinity(t, negative) - Affinity(u, negative)
    BY <1>5
  <2>11. PICK g \in Int : g = Bonus(t) - Bonus(u)
    BY <1>6
  <2>12. b <= k * s
    BY <1>0, <1>3, <2>4, <2>8, <2>10, AffinityLead
  <2>13. Score(t) < Score(u) /\ Score(t) \in Int /\ Score(u) \in Int
    BY <1>0, <1>9, TasteOrder
  <2>14. Lead(t, u) = LeadOf(n, p, f, a, b, g)
    BY <2>5, <2>6, <2>7, <2>9, <2>10, <2>11 DEF Lead, LeadOf, One
  <2>15. LeadOf(n, p, f, a, b, g) < 0
    <3>1. Score(t) - Score(u) = IF Cold THEN 0 ELSE Lead(t, u)
      BY <1>0, LeadIs
    <3> QED BY <2>13, <2>14, <3>1
  <2>16. LeadOf(s + d, p, f, a, b + d * k, g) <= 0
    BY <2>3, <2>5, <2>12, <2>15, SkipKept
  <2>17. /\ Weight(negative') = s + d
         /\ \A v \in Tracks : Affinity(v, negative') = Affinity(v, negative) + d * Similarity(v, t)
    <3>1. \A v \in Tracks \ {t} : negative'[v] = negative[v]
      BY <1>1, <1>3, <2>1
    <3> QED BY <1>0, <1>3, <2>3, <2>4, <3>1, AffinityAdd
  <2>18. Scale(negative') = s + d
    BY <2>3, <2>17, ScaleIs
  <2>19. Affinity(t, negative') - Affinity(u, negative') = b + d * k
    <3>1. Similarity(t, t) \in Nat /\ Similarity(u, t) \in Nat
      BY <1>0, SimilarityNat
    <3>2. d * k = d * Similarity(t, t) - d * Similarity(u, t)
      BY <2>8, <3>1
    <3>3. d * Similarity(t, t) \in Int /\ d * Similarity(u, t) \in Int
      BY <3>1
    <3>4. Affinity(t, negative) \in Int /\ Affinity(u, negative) \in Int
      BY <1>5
    <3> QED BY <2>10, <2>17, <3>2, <3>3, <3>4
  <2>20. Lead(t, u)' = LeadOf(s + d, p, f, a, b + d * k, g)
    BY <1>7, <2>2, <2>6, <2>7, <2>9, <2>11, <2>18, <2>19 DEF Lead, LeadOf, One
  <2>21. ~Cold'
    BY <1>3, <1>9 DEF Cold
  <2>22. Score(t)' - Score(u)' = Lead(t, u)'
    BY <1>0, <2>21, LeadIsNext
  <2>23. Score(t)' \in Int /\ Score(u)' \in Int
    BY <1>0, TasteOrderNext
  <2>24. Score(t)' <= Score(u)'
    BY <2>16, <2>20, <2>22, <2>23
  <2> QED BY <1>0, <2>24, TasteOrderNext
<1> QED BY <1>8, <1>9 DEF KeepsOrder

\* Feedback is monotone: a like, a replay or a completion never lets a track behind overtake
\* the one it is about, and a skip never lets that one overtake a track ahead.
THEOREM FeedbackCorrect == Spec => FeedbackIsMonotone
<1>1. IInv /\ [Next]_vars => [KeepsOrder]_vars
  <2> SUFFICES ASSUME IInv, Next PROVE KeepsOrder
    OBVIOUS
  <2>1. ASSUME NEW id \in request.ids, NEW e \in Event, TakeEvent(id, e) PROVE KeepsOrder
    BY <2>1, EventKeepsOrder
  <2>2. ASSUME UNCHANGED <<positive, negative>> PROVE KeepsOrder
    <3>1. \A t \in Tracks : positive[t] \in Nat /\ negative[t] \in Nat
      BY WeightTypes DEF IInv
    <3> QED BY <2>2, <3>1 DEF KeepsOrder
  <2>3. ASSUME NEW id \in request.ids, NEW e \in Event, TakeDuplicate(id, e) PROVE KeepsOrder
    BY <2>2, <2>3 DEF TakeDuplicate
  <2>4. CASE StartPicks \/ Pick
    BY <2>2, <2>4 DEF StartPicks, Pick
  <2> QED BY <2>1, <2>3, <2>4 DEF Next
<1> QED BY <1>1, Invariance, PTL DEF Spec, FeedbackIsMonotone
==============================================================================

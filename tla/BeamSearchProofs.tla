-------------------------- MODULE BeamSearchProofs --------------------------
(***************************************************************************)
(* Two results about the planner, for any catalog, any request and any     *)
(* width, from the inductive invariant of BeamSearch.                      *)
(*                                                                         *)
(* The beam never runs dry: the order of the sort is a strict total order  *)
(* of the partial sequences of one slot, so the ranks in it are different; *)
(* hence at most Width of them are below Width, and the first of all is    *)
(* kept.  A partial sequence has fewer tracks than the pool, so the next   *)
(* slot always has an extension.                                           *)
(*                                                                         *)
(* The answer is the best one unless something was dropped: the totals     *)
(* that grow slot by slot are the scores of the whole sequences            *)
(* (TotalsExact, by the sums of Sums), the beam holds every sequence of    *)
(* its length until a slot drops one (Exhaustive), and the first in the    *)
(* sort order has the highest total, and the first IDs among those.        *)
(***************************************************************************)
EXTENDS BeamSearch, Sums, SequenceTheorems

-----------------------------------------------------------------------------
(* Orders and ranks.                                                       *)

\* A nonempty set of numbers has a least one.
LEMMA LeastOf ==
    ASSUME NEW S \in SUBSET Nat, S # {}
    PROVE  \E m \in S : \A k \in S : m <= k
<1>1. PICK m \in S : \A k \in S : ~(<<k, m>> \in OpToRel(<, Nat))
  BY NatLessThanWellFounded, WFMin, Zenon
<1>2. \A k \in S : ~(k < m)
  BY <1>1, Zenon DEF OpToRel
<1> QED BY <1>2

\* Two different paths of one length differ first in one place.
LEMMA KeyTotal ==
    ASSUME NEW n \in Nat, NEW p \in [1..n -> Nat], NEW q \in [1..n -> Nat], p # q
    PROVE  KeyBefore(p, q) \/ KeyBefore(q, p)
<1> DEFINE D == {i \in 1..n : p[i] # q[i]}
<1>1. D # {} /\ D \in SUBSET Nat
  OBVIOUS
<1>2. PICK m \in D : \A k \in D : m <= k
  <2> HIDE DEF D
  <2> QED BY <1>1, LeastOf
<1>3. \A j \in 1..(m - 1) : p[j] = q[j] /\ q[j] = p[j]
  BY <1>2
<1>4. p[m] < q[m] \/ q[m] < p[m]
  BY <1>2
<1> QED BY <1>2, <1>3, <1>4 DEF KeyBefore

LEMMA KeyIrreflexive ==
    ASSUME NEW n \in Nat, NEW p \in [1..n -> Nat]
    PROVE  ~KeyBefore(p, p)
BY DEF KeyBefore

LEMMA KeyTransitive ==
    ASSUME NEW n \in Nat, NEW p \in [1..n -> Nat], NEW q \in [1..n -> Nat],
           NEW r \in [1..n -> Nat], KeyBefore(p, q), KeyBefore(q, r)
    PROVE  KeyBefore(p, r)
<1>1. PICK i \in 1..n : p[i] < q[i] /\ \A j \in 1..(i - 1) : p[j] = q[j]
  BY DEF KeyBefore
<1>2. PICK k \in 1..n : q[k] < r[k] /\ \A j \in 1..(k - 1) : q[j] = r[j]
  BY DEF KeyBefore
<1>3. CASE i <= k
  <2>1. p[i] < r[i]
    BY <1>1, <1>2, <1>3
  <2>2. \A j \in 1..(i - 1) : p[j] = r[j]
    BY <1>1, <1>2, <1>3
  <2> QED BY <2>1, <2>2 DEF KeyBefore
<1>4. CASE k < i
  <2>1. p[k] < r[k]
    BY <1>1, <1>2, <1>4
  <2>2. \A j \in 1..(k - 1) : p[j] = r[j]
    BY <1>1, <1>2, <1>4
  <2> QED BY <2>1, <2>2 DEF KeyBefore
<1> QED BY <1>3, <1>4

\* Partial sequences of n slots.
Sequenced(n) == [path : [1..n -> Nat], total : Int]

\* The order of the sort puts any two of them in one order and only one.
LEMMA SortOrder ==
    ASSUME NEW n \in Nat
    PROVE  /\ \A a \in Sequenced(n) : ~Before(a, a)
           /\ \A a, b \in Sequenced(n) : a = b \/ Before(a, b) \/ Before(b, a)
           /\ \A a, b, c \in Sequenced(n) : Before(a, b) /\ Before(b, c) => Before(a, c)
<1>1. ASSUME NEW a \in Sequenced(n) PROVE ~Before(a, a)
  <2>1. a.path \in [1..n -> Nat] /\ a.total \in Int
    BY DEF Sequenced
  <2>2. ~KeyBefore(a.path, a.path)
    BY <2>1, KeyIrreflexive
  <2> QED BY <2>1, <2>2 DEF Before
<1>2. ASSUME NEW a \in Sequenced(n), NEW b \in Sequenced(n), a # b
      PROVE  Before(a, b) \/ Before(b, a)
  <2>1. /\ a.path \in [1..n -> Nat] /\ a.total \in Int
        /\ b.path \in [1..n -> Nat] /\ b.total \in Int
    BY DEF Sequenced
  <2>2. a.path # b.path \/ a.total # b.total
    BY <1>2 DEF Sequenced
  <2>3. a.path # b.path => KeyBefore(a.path, b.path) \/ KeyBefore(b.path, a.path)
    BY <2>1, KeyTotal
  <2> QED BY <2>1, <2>2, <2>3 DEF Before
<1>3. ASSUME NEW a \in Sequenced(n), NEW b \in Sequenced(n), NEW c \in Sequenced(n),
             Before(a, b), Before(b, c)
      PROVE  Before(a, c)
  <2>1. /\ a.path \in [1..n -> Nat] /\ a.total \in Int
        /\ b.path \in [1..n -> Nat] /\ b.total \in Int
        /\ c.path \in [1..n -> Nat] /\ c.total \in Int
    BY DEF Sequenced
  <2>2. KeyBefore(a.path, b.path) /\ KeyBefore(b.path, c.path) => KeyBefore(a.path, c.path)
    BY <2>1, KeyTransitive
  <2> QED BY <1>3, <2>1, <2>2 DEF Before
<1> QED BY <1>1, <1>2, <1>3

\* The rank of a partial sequence in a finite set, the number of those before it, grows with
\* the order, so no two have the same.
LEMMA Ranks ==
    ASSUME NEW n \in Nat, NEW S \in SUBSET Sequenced(n), IsFiniteSet(S)
    PROVE  \E rank \in [S -> Nat] :
              /\ \A a \in S : rank[a] = Cardinality({b \in S : Before(b, a)})
              /\ \A a, b \in S : Before(a, b) => rank[a] < rank[b]
              /\ \A a, b \in S : a = b \/ rank[a] < rank[b] \/ rank[b] < rank[a]
<1> DEFINE Below(a) == {b \in S : Before(b, a)}
           rank == [a \in S |-> Cardinality(Below(a))]
<1>1. \A a \in S : IsFiniteSet(Below(a)) /\ Cardinality(Below(a)) \in Nat
  <2>1. TAKE a \in S
  <2>2. Below(a) \in SUBSET S
    OBVIOUS
  <2>3. IsFiniteSet(Below(a))
    BY <2>2, FS_Subset
  <2> QED BY <2>3, FS_CardinalityType
<1>2. rank \in [S -> Nat]
  BY <1>1
<1>3. \A a \in S : rank[a] = Cardinality({b \in S : Before(b, a)})
  OBVIOUS
<1> HIDE DEF rank
<1>4. \A a, b \in S : Before(a, b) => rank[a] < rank[b]
  <2>1. SUFFICES ASSUME NEW a \in S, NEW b \in S, Before(a, b)
                 PROVE  rank[a] < rank[b]
    OBVIOUS
  <2>2. Below(a) \in SUBSET Below(b)
    BY <2>1, SortOrder
  <2>3. a \in Below(b) /\ a \notin Below(a)
    BY <2>1, SortOrder
  <2>4. rank[a] = Cardinality(Below(a)) /\ rank[b] = Cardinality(Below(b))
    BY <1>3
  <2>5. IsFiniteSet(Below(b)) /\ Below(a) # Below(b)
    BY <1>1, <2>3
  <2>6. rank[a] \in Nat /\ rank[b] \in Nat
    BY <1>2
  <2> HIDE DEF Below
  <2>7. Cardinality(Below(a)) <= Cardinality(Below(b))
    BY <2>2, <2>5, FS_Subset
  <2>8. Cardinality(Below(a)) # Cardinality(Below(b))
    BY <2>2, <2>5, FS_Subset
  <2> QED BY <2>4, <2>6, <2>7, <2>8
<1> HIDE DEF Below
<1>5. \A a, b \in S : a = b \/ rank[a] < rank[b] \/ rank[b] < rank[a]
  BY <1>4, SortOrder
<1> QED BY <1>2, <1>3, <1>4, <1>5

\* One of finitely many partial sequences is before all the others.
LEMMA FirstExists ==
    ASSUME NEW n \in Nat, NEW S \in SUBSET Sequenced(n), IsFiniteSet(S), S # {}
    PROVE  \E a \in S : \A b \in S : ~Before(b, a) /\ (a = b \/ Before(a, b))
<1>1. PICK rank \in [S -> Nat] : \A a, b \in S : Before(a, b) => rank[a] < rank[b]
  BY Ranks
<1> DEFINE R == {rank[a] : a \in S}
<1>2. R \in SUBSET Nat /\ R # {}
  OBVIOUS
<1>3. PICK m \in R : \A k \in R : m <= k
  <2> HIDE DEF R
  <2> QED BY <1>2, LeastOf
<1>4. PICK a \in S : m = rank[a]
  OBVIOUS
<1>5. \A b \in S : rank[a] <= rank[b]
  BY <1>3, <1>4
<1>6. \A b \in S : ~Before(b, a)
  BY <1>1, <1>5
<1>7. \A b \in S : a = b \/ Before(a, b)
  BY <1>6, SortOrder
<1> QED BY <1>6, <1>7

\* What the sort cuts off: of finitely many partial sequences it keeps at least one and at
\* most Width.
LEMMA KeepBounds ==
    ASSUME NEW n \in Nat, NEW S \in SUBSET Sequenced(n), IsFiniteSet(S), S # {}
    PROVE  /\ Keep(S) # {} /\ Keep(S) \subseteq S
           /\ IsFiniteSet(Keep(S)) /\ Cardinality(Keep(S)) <= Width
<1>1. Width \in Nat /\ Width >= 1
  BY BeamAssumption
<1>2. PICK rank \in [S -> Nat] :
         /\ \A a \in S : rank[a] = Cardinality({b \in S : Before(b, a)})
         /\ \A a, b \in S : a = b \/ rank[a] < rank[b] \/ rank[b] < rank[a]
  BY Ranks
<1>3. Keep(S) = {a \in S : rank[a] < Width}
  BY <1>2 DEF Keep
<1>4. Keep(S) \in SUBSET S
  BY <1>3
<1>5. IsFiniteSet(Keep(S))
  BY <1>4, FS_Subset
<1>6. Keep(S) # {}
  <2>1. PICK a \in S : \A b \in S : ~Before(b, a)
    BY FirstExists
  <2>2. {b \in S : Before(b, a)} = {}
    BY <2>1
  <2>3. rank[a] = 0
    BY <1>2, <2>2, FS_EmptySet
  <2> QED BY <1>1, <1>3, <2>3
<1>7. Cardinality(Keep(S)) <= Width
  <2> DEFINE f == [a \in Keep(S) |-> rank[a]]
  <2>1. \A a \in Keep(S) : rank[a] \in Nat /\ rank[a] < Width
    BY <1>2, <1>3
  <2>2. \A a \in Keep(S) : rank[a] \in 0..(Width - 1)
    BY <1>1, <2>1
  <2>3. f \in [Keep(S) -> 0..(Width - 1)]
    BY <2>2
  <2>4. \A a, b \in Keep(S) : f[a] = f[b] => a = b
    BY <1>2, <1>4
  <2>5. f \in Injection(Keep(S), 0..(Width - 1))
    BY <2>3, <2>4 DEF Injection, IsInjective
  <2>6. IsFiniteSet(0..(Width - 1)) /\ Cardinality(0..(Width - 1)) = Width
    <3>1. 0 \in Int /\ Width - 1 \in Int
      BY <1>1
    <3>2. Cardinality(0..(Width - 1)) = IF 0 > Width - 1 THEN 0 ELSE Width - 1 - 0 + 1
      BY <3>1, FS_Interval
    <3> QED BY <1>1, <3>1, <3>2, FS_Interval
  <2> HIDE DEF f
  <2> QED BY <2>5, <2>6, FS_Injection
<1> QED BY <1>4, <1>5, <1>6, <1>7

-----------------------------------------------------------------------------
(* Paths and scores.                                                       *)

\* A path over the pool has no more tracks than places; one without repetition leaves a
\* track for the next slot unless it is as long as the pool.
LEMMA TrackLeft ==
    ASSUME BeamSound, NEW p \in Seq(Pool), Len(p) < Cardinality(Pool)
    PROVE  Pool \ Used(p) # {}
<1>1. p \in [1..Len(p) -> Pool] /\ Len(p) \in Nat
  OBVIOUS
<1>2. p \in [1..Len(p) -> Used(p)] /\ \A t \in Used(p) : \E i \in 1..Len(p) : p[i] = t
  BY <1>1 DEF Used, Range
<1>3. p \in Surjection(1..Len(p), Used(p))
  BY <1>2 DEF Surjection
<1>4. IsFiniteSet(1..Len(p)) /\ Cardinality(1..Len(p)) = Len(p)
  <2>1. PICK n \in Nat : n = Len(p)
    BY <1>1
  <2>2. IsFiniteSet(1..n) /\ Cardinality(1..n) = IF 1 > n THEN 0 ELSE n - 1 + 1
    BY FS_Interval
  <2> QED BY <2>1, <2>2
<1>5. IsFiniteSet(Used(p)) /\ Cardinality(Used(p)) <= Len(p)
  BY <1>3, <1>4, FS_Surjection
<1>6. Pool \in SUBSET Tracks /\ IsFiniteSet(Tracks)
  BY BeamAssumption DEF Pool
<1>7. IsFiniteSet(Pool)
  BY <1>6, FS_Subset
<1>8. ASSUME Pool \ Used(p) = {} PROVE FALSE
  <2>1. Pool \in SUBSET Used(p)
    BY <1>8
  <2>2. Cardinality(Pool) <= Cardinality(Used(p))
    BY <1>5, <2>1, FS_Subset
  <2>3. Cardinality(Pool) \in Nat /\ Cardinality(Used(p)) \in Nat
    BY <1>5, <1>7, FS_CardinalityType
  <2> QED BY <1>1, <1>5, <2>2, <2>3
<1> QED BY <1>8

\* The larger of two numbers.
LEMMA MaxOfTwo ==
    ASSUME NEW m \in Int, NEW n \in Int
    PROVE  Max({m, n}) \in {m, n}
<1>1. CASE m >= n
  <2>1. m \in {m, n} /\ \A y \in {m, n} : m >= y
    BY <1>1
  <2> QED BY <2>1 DEF Max
<1>2. CASE n >= m
  <2>1. n \in {m, n} /\ \A y \in {m, n} : n >= y
    BY <1>2
  <2> QED BY <2>1 DEF Max
<1> QED BY <1>1, <1>2

LEMMA GapInt ==
    ASSUME NEW m \in Int, NEW n \in Int
    PROVE  Gap(m, n) \in Int
BY DEF Gap

\* A score is a number.
LEMMA ScoreInt ==
    ASSUME BeamSound, NEW p \in Seq(Pool), NEW t \in Pool
    PROVE  ScoreSlot(p, t) \in Int
<1>1. tracks \in [Tracks -> [genre : Genres, mood : Moods, taste : 0..10]]
  BY BeamAssumption DEF BeamSound
<1>2. req \in [start : Moods, target : Moods, count : 1..20, excluded : SUBSET Tracks]
  BY BeamAssumption DEF BeamSound
<1>3. Moods \subseteq Int /\ Pool \subseteq Tracks
  BY DEF Moods, Pool
<1>4. \A u \in Pool : tracks[u].mood \in Int /\ tracks[u].taste \in Int
  <2>1. TAKE u \in Pool
  <2>2. tracks[u] \in [genre : Genres, mood : Moods, taste : 0..10]
    BY <1>1, <1>3
  <2>3. tracks[u].mood \in Moods /\ tracks[u].taste \in 0..10
    BY <2>2
  <2> QED BY <2>3 DEF Moods
<1>5. Steps \in Int
  <2>1. req.count - 1 \in Int
    BY <1>2
  <2> QED BY <2>1, MaxOfTwo DEF Steps
<1>6. Transition(p, t) \in Int
  <2>1. p # <<>> => p[Len(p)] \in Pool
    OBVIOUS
  <2>2. p # <<>> => Gap(tracks[p[Len(p)]].mood, tracks[t].mood) \in Int
    BY <1>4, <2>1, GapInt
  <2> QED BY <2>2 DEF Transition
<1>7. Gap(PathPoint(Len(p)), Steps * tracks[t].mood) \in Int
  <2>0. req.start \in Moods /\ req.target \in Moods
    BY <1>2
  <2>1. req.start \in Int /\ req.target \in Int /\ Len(p) \in Int
    BY <2>0 DEF Moods
  <2>2. PathPoint(Len(p)) \in Int
    BY <1>5, <2>1 DEF PathPoint
  <2>3. Steps * tracks[t].mood \in Int
    BY <1>4, <1>5
  <2> QED BY <2>2, <2>3, GapInt
<1> DEFINE score == 40 * tracks[t].taste + 500 - 8 * Transition(p, t)
                      - (IF ThreeGenreRepeat(p, tracks[t].genre) THEN 30 ELSE 0)
<1>8. score \in Int
  <2>1. PICK l \in Int : l = tracks[t].taste
    BY <1>4
  <2>2. PICK j \in Int : j = Transition(p, t)
    BY <1>6
  <2>3. score = 40 * l + 500 - 8 * j - (IF ThreeGenreRepeat(p, tracks[t].genre) THEN 30 ELSE 0)
    BY <2>1, <2>2
  <2> HIDE DEF score
  <2>4. 40 * l + 500 - 8 * j - 30 \in Int /\ 40 * l + 500 - 8 * j - 0 \in Int
    OBVIOUS
  <2> QED BY <2>3, <2>4
<1>9. ScoreSlot(p, t) = Steps * score - 50 * Gap(PathPoint(Len(p)), Steps * tracks[t].mood)
  BY DEF ScoreSlot
<1> HIDE DEF score
<1> QED BY <1>5, <1>7, <1>8, <1>9

-----------------------------------------------------------------------------
(* Extensions.                                                             *)

\* One more track: still a path of the pool without repetition, one longer.
LEMMA OneMore ==
    ASSUME NEW T, NEW p \in Seq(T), IsInjective(p), NEW t \in T \ Used(p)
    PROVE  /\ Append(p, t) \in Seq(T)
           /\ Len(Append(p, t)) = Len(p) + 1
           /\ IsInjective(Append(p, t))
<1> DEFINE q == Append(p, t)
<1>1. /\ q \in Seq(T) /\ Len(q) = Len(p) + 1 /\ Len(p) \in Nat
      /\ \A i \in 1..Len(p) : q[i] = p[i]
      /\ q[Len(p) + 1] = t
      /\ DOMAIN q = 1..(Len(p) + 1) /\ DOMAIN p = 1..Len(p)
  OBVIOUS
<1>2. \A i \in 1..Len(p) : p[i] # t
  BY <1>1 DEF Used, Range
<1> HIDE DEF q
<1>3. \A i, k \in 1..(Len(p) + 1) : q[i] = q[k] => i = k
  <2>1. TAKE i \in 1..(Len(p) + 1), k \in 1..(Len(p) + 1)
  <2>2. i = Len(p) + 1 \/ i \in 1..Len(p)
    BY <1>1
  <2>3. k = Len(p) + 1 \/ k \in 1..Len(p)
    BY <1>1
  <2>4. CASE i \in 1..Len(p) /\ k \in 1..Len(p)
    BY <1>1, <2>4 DEF IsInjective
  <2> QED BY <1>1, <1>2, <2>2, <2>3, <2>4
<1> QED BY <1>1, <1>3 DEF IsInjective, q

\* What the extensions of slot n are made of.
Extended(n) == {a \in [path : Seq(Pool), total : Int] : Len(a.path) = n /\ IsInjective(a.path)}

LEMMA ExtensionsSound ==
    ASSUME BeamSound
    PROVE  Extensions \subseteq Extended(slot + 1)
<1>1. SUFFICES ASSUME NEW a \in beam, NEW t \in Pool \ Used(a.path)
               PROVE  [path |-> Append(a.path, t), total |-> a.total + ScoreSlot(a.path, t)]
                        \in Extended(slot + 1)
  BY DEF Extensions
<1>2. /\ a.path \in Seq(Pool) /\ a.total \in Int
      /\ Len(a.path) = slot /\ IsInjective(a.path)
  BY DEF BeamSound, Partial
<1>3. ScoreSlot(a.path, t) \in Int
  BY <1>2, ScoreInt
<1>4. /\ Append(a.path, t) \in Seq(Pool)
      /\ Len(Append(a.path, t)) = slot + 1
      /\ IsInjective(Append(a.path, t))
  BY <1>2, OneMore
<1>5. PICK e : e = [path |-> Append(a.path, t), total |-> a.total + ScoreSlot(a.path, t)]
  OBVIOUS
<1>6. e.path = Append(a.path, t) /\ e.total = a.total + ScoreSlot(a.path, t)
  BY <1>5
<1>7. e \in [path : Seq(Pool), total : Int]
  BY <1>2, <1>3, <1>4, <1>5
<1>8. e \in Extended(slot + 1)
  BY <1>4, <1>6, <1>7 DEF Extended
<1> QED BY <1>5, <1>8

LEMMA ExtensionsFinite ==
    ASSUME BeamSound
    PROVE  IsFiniteSet(Extensions)
<1> DEFINE One(a, t) == [path |-> Append(a.path, t), total |-> a.total + ScoreSlot(a.path, t)]
           Of(a) == {One(a, t) : t \in Pool \ Used(a.path)}
<1>1. IsFiniteSet(Pool) /\ IsFiniteSet(beam)
  <2>1. Pool \in SUBSET Tracks /\ IsFiniteSet(Tracks)
    BY BeamAssumption DEF Pool
  <2> QED BY <2>1, FS_Subset DEF BeamSound
<1>2. \A a \in beam : IsFiniteSet(Of(a))
  <2>1. TAKE a \in beam
  <2>2. Pool \ Used(a.path) \in SUBSET Pool
    OBVIOUS
  <2>3. IsFiniteSet(Pool \ Used(a.path))
    BY <1>1, <2>2, FS_Subset
  <2> DEFINE f == [t \in Pool \ Used(a.path) |-> One(a, t)]
  <2> HIDE DEF One
  <2>4. f \in Surjection(Pool \ Used(a.path), Of(a))
    BY DEF Surjection
  <2> HIDE DEF f, Of
  <2> QED BY <2>3, <2>4, FS_Surjection
<1>3. IsFiniteSet({Of(a) : a \in beam})
  <2> HIDE DEF Of
  <2> DEFINE f == [a \in beam |-> Of(a)]
             U == {Of(a) : a \in beam}
  <2>1. f \in Surjection(beam, U)
    BY DEF Surjection
  <2> HIDE DEF f, U
  <2>2. IsFiniteSet(U)
    BY <1>1, <2>1, FS_Surjection
  <2> QED BY <2>2 DEF U
<1>4. Extensions = UNION {Of(a) : a \in beam}
  BY DEF Extensions
<1>5. \A F \in {Of(a) : a \in beam} : IsFiniteSet(F)
  <2> HIDE DEF Of
  <2> QED BY <1>2
<1> HIDE DEF Of
<1>6. IsFiniteSet(UNION {Of(a) : a \in beam})
  BY <1>3, <1>5, FS_UNION
<1> QED BY <1>4, <1>6

LEMMA ExtensionsLeft ==
    ASSUME BeamSound, beam # {}, Enough, slot < req.count
    PROVE  Extensions # {}
<1>1. PICK a \in beam : TRUE
  OBVIOUS
<1>2. a.path \in Seq(Pool) /\ Len(a.path) = slot
  BY <1>1 DEF BeamSound, Partial
<1>3. Len(a.path) < Cardinality(Pool)
  <2>1. Cardinality(Pool) \in Nat
    <3>1. Pool \in SUBSET Tracks /\ IsFiniteSet(Tracks)
      BY BeamAssumption DEF Pool
    <3>2. IsFiniteSet(Pool)
      BY <3>1, FS_Subset
    <3> QED BY <3>2, FS_CardinalityType
  <2>2. req.count \in Nat /\ slot \in Nat
    <3>1. req \in [start : Moods, target : Moods, count : 1..20, excluded : SUBSET Tracks]
      BY BeamAssumption DEF BeamSound
    <3>2. req.count \in 1..20
      BY <3>1
    <3> QED BY <3>2 DEF BeamSound
  <2> QED BY <1>2, <2>1, <2>2 DEF Enough
<1>4. PICK t \in Pool \ Used(a.path) : TRUE
  BY <1>2, <1>3, TrackLeft
<1> DEFINE One(b, u) == [path |-> Append(b.path, u), total |-> b.total + ScoreSlot(b.path, u)]
           Of(b) == {One(b, u) : u \in Pool \ Used(b.path)}
<1>5. One(a, t) \in Of(a)
  <2> HIDE DEF One
  <2> QED BY <1>4
<1>6. Extensions = UNION {Of(b) : b \in beam}
  BY DEF Extensions
<1> HIDE DEF Of
<1> QED BY <1>1, <1>5, <1>6

-----------------------------------------------------------------------------
(* Total scores.                                                           *)

\* The tracks and the request of a state.
LEMMA SearchTypes ==
    ASSUME BeamSound
    PROVE  /\ req.count \in 1..20 /\ req.start \in Int /\ req.target \in Int
           /\ Steps \in Int
           /\ \A u \in Pool : tracks[u].mood \in Int /\ tracks[u].taste \in Int
<1>1. tracks \in [Tracks -> [genre : Genres, mood : Moods, taste : 0..10]]
  BY BeamAssumption DEF BeamSound
<1>2. req \in [start : Moods, target : Moods, count : 1..20, excluded : SUBSET Tracks]
  BY BeamAssumption DEF BeamSound
<1>3. req.count \in 1..20 /\ req.start \in Int /\ req.target \in Int
  BY <1>2 DEF Moods
<1>4. Steps \in Int
  <2>1. req.count - 1 \in Int
    BY <1>3
  <2> QED BY <2>1, MaxOfTwo DEF Steps
<1>5. \A u \in Pool : tracks[u].mood \in Int /\ tracks[u].taste \in Int
  <2>1. TAKE u \in Pool
  <2>2. u \in Tracks
    BY DEF Pool
  <2>3. tracks[u] \in [genre : Genres, mood : Moods, taste : 0..10]
    BY <1>1, <2>2
  <2>4. tracks[u].mood \in Moods /\ tracks[u].taste \in 0..10
    BY <2>3
  <2> QED BY <2>4 DEF Moods
<1> QED BY <1>3, <1>4, <1>5

\* A sum over an interval, and over one number more.
Continues(g, f, S, n) == g[n] \in Int /\ \A i \in S : g[i] = f[i]

LEMMA SumNext ==
    ASSUME NEW m \in Int, NEW n \in Int, n >= m - 1, NEW f, NEW g, Numbers(f, m..n),
           Continues(g, f, m..n, n + 1)
    PROVE  /\ SumFunctionOnSet(f, m..n) \in Int
           /\ SumFunctionOnSet(g, m..(n + 1)) = SumFunctionOnSet(f, m..n) + g[n + 1]
<1> DEFINE S == m..n
<1>1. IsFiniteSet(S)
  BY FS_Interval
<1>2. m..(n + 1) = S \cup {n + 1} /\ n + 1 \notin S
  OBVIOUS
<1> HIDE DEF S
<1>3. Numbers(f, S) /\ Continues(g, f, S, n + 1)
  BY DEF S
<1>4. PICK k : k = n + 1
  OBVIOUS
<1>5. Numbers(g, S \cup {k}) /\ k \notin S /\ \A i \in S : g[i] = f[i]
  BY <1>2, <1>3, <1>4 DEF Numbers, Continues
<1>6. SumFunctionOnSet(f, S) \in Int
  BY <1>1, <1>3, SumInt
<1>7. SumFunctionOnSet(g, S) = SumFunctionOnSet(f, S)
  BY <1>1, <1>3, <1>5, SumAgree
<1>8. SumFunctionOnSet(g, S \cup {k}) = g[k] + SumFunctionOnSet(g, S)
  BY <1>1, <1>5, SumAdd
<1>9. g[k] \in Int
  BY <1>3, <1>4 DEF Continues
<1>10. SumFunctionOnSet(g, S \cup {k}) = SumFunctionOnSet(f, S) + g[k]
  BY <1>6, <1>7, <1>8, <1>9
<1>11. m..(n + 1) = S \cup {k}
  BY <1>2, <1>4
<1>12. SumFunctionOnSet(g, m..(n + 1)) = SumFunctionOnSet(f, S) + g[n + 1]
  BY <1>4, <1>10, <1>11
<1> QED BY <1>6, <1>12 DEF S

\* The score of a path with one more track is its score and that of the new slot.
LEMMA ScoreNext ==
    ASSUME BeamSound, NEW p \in Seq(Pool), NEW t \in Pool
    PROVE  QueueScore(Append(p, t)) = QueueScore(p) + ScoreSlot(p, t)
<1>1. PICK q : q = Append(p, t)
  OBVIOUS
<1>2. PICK n \in Nat : n = Len(p)
  OBVIOUS
<1>3. /\ q \in Seq(Pool) /\ Len(q) = n + 1 /\ q[n + 1] = t
      /\ \A i \in 1..n : q[i] = p[i] /\ p[i] \in Pool
      /\ \A i \in 1..(n + 1) : q[i] \in Pool
  BY <1>1, <1>2
<1>4. PICK k \in Int : k = Steps
  BY SearchTypes
<1>5. PICK from \in Int : from = req.start
  BY SearchTypes
<1>6. PICK to \in Int : to = req.target
  BY SearchTypes
<1>7. \A u \in Pool : tracks[u].mood \in Int /\ tracks[u].taste \in Int
  BY SearchTypes
<1>8. /\ SumFunctionOnSet(Tastes(p), 1..n) \in Int
      /\ SumFunctionOnSet(Tastes(q), 1..(n + 1))
           = SumFunctionOnSet(Tastes(p), 1..n) + tracks[t].taste
  <2>1. Numbers(Tastes(p), 1..n)
    BY <1>2, <1>3, <1>7 DEF Numbers, Tastes
  <2>2. Tastes(q)[n + 1] = tracks[t].taste
    BY <1>3 DEF Tastes
  <2>3. Continues(Tastes(q), Tastes(p), 1..n, n + 1)
    BY <1>2, <1>3, <1>7, <2>2 DEF Continues, Tastes
  <2> QED BY <2>1, <2>2, <2>3, SumNext
<1>9. PICK late \in Int : late = (k - n) * from + n * to
  <2>1. (k - n) * from \in Int /\ n * to \in Int
    OBVIOUS
  <2> QED BY <2>1
<1>10. PathPoint(n) = late
  BY <1>4, <1>5, <1>6, <1>9 DEF PathPoint
<1>11. /\ SumFunctionOnSet(Misses(p), 1..n) \in Int
       /\ SumFunctionOnSet(Misses(q), 1..(n + 1))
            = SumFunctionOnSet(Misses(p), 1..n) + Gap(PathPoint(n), Steps * tracks[t].mood)
  <2>1. ASSUME NEW i \in 1..n
        PROVE  /\ Misses(p)[i] \in Int
               /\ Misses(q)[i] = Misses(p)[i]
    <3>1. PICK x \in Int : x = (k - i + 1) * from + (i - 1) * to
      <4>1. (k - i + 1) * from \in Int /\ (i - 1) * to \in Int
        OBVIOUS
      <4> QED BY <4>1
    <3>2. PICK y \in Int : y = k * tracks[p[i]].mood
      BY <1>3, <1>7
    <3>3. i \in 1..Len(p) /\ i \in 1..Len(q) /\ q[i] = p[i]
      BY <1>2, <1>3
    <3>4. Misses(p)[i] = Gap((Steps - i + 1) * req.start + (i - 1) * req.target,
                             Steps * tracks[p[i]].mood)
      BY <3>3, Zenon DEF Misses
    <3>5. Misses(q)[i] = Gap((Steps - i + 1) * req.start + (i - 1) * req.target,
                             Steps * tracks[p[i]].mood)
      BY <3>3, Zenon DEF Misses
    <3>6. x = (Steps - i + 1) * req.start + (i - 1) * req.target /\ y = Steps * tracks[p[i]].mood
      BY <1>4, <1>5, <1>6, <3>1, <3>2
    <3>7. Misses(p)[i] = Gap(x, y) /\ Misses(q)[i] = Gap(x, y)
      BY <3>4, <3>5, <3>6, Zenon
    <3> QED BY <3>7, GapInt
  <2>2. Misses(q)[n + 1] = Gap(PathPoint(n), Steps * tracks[t].mood)
    <3>1. Misses(q)[n + 1] = Gap((k - (n + 1) + 1) * from + ((n + 1) - 1) * to, k * tracks[t].mood)
      BY <1>3, <1>4, <1>5, <1>6 DEF Misses
    <3>2. k - (n + 1) + 1 = k - n /\ (n + 1) - 1 = n
      OBVIOUS
    <3> QED BY <1>4, <1>9, <1>10, <3>1, <3>2
  <2>3. Misses(q)[n + 1] \in Int
    <3>1. k * tracks[t].mood \in Int
      BY <1>7
    <3> QED BY <1>4, <1>10, <2>2, <3>1, GapInt
  <2>4. Numbers(Misses(p), 1..n) /\ Continues(Misses(q), Misses(p), 1..n, n + 1)
    BY <2>1, <2>3 DEF Numbers, Continues
  <2> QED BY <2>2, <2>4, SumNext
<1>12. /\ SumFunctionOnSet(Jumps(p), 2..n) \in Int
       /\ Transition(p, t) \in Int
       /\ SumFunctionOnSet(Jumps(q), 2..(n + 1))
            = SumFunctionOnSet(Jumps(p), 2..n) + Transition(p, t)
  <2>1. CASE n = 0
    <3>1. 2..n = {} /\ 2..(n + 1) = {}
      BY <2>1
    <3>2. SumFunctionOnSet(Jumps(p), 2..n) = 0 /\ SumFunctionOnSet(Jumps(q), 2..(n + 1)) = 0
      BY <3>1, SumEmpty
    <3>3. p = <<>>
      BY <1>2, <2>1, EmptySeq
    <3>4. Transition(p, t) = 0
      BY <3>3 DEF Transition
    <3> QED BY <3>2, <3>4
  <2>2. CASE n >= 1
    <3>1. ASSUME NEW i \in 2..n
          PROVE  Jumps(p)[i] \in Int /\ Jumps(q)[i] = Jumps(p)[i]
      <4>1. i \in 1..n /\ i - 1 \in 1..n
        OBVIOUS
      <4>2. /\ Jumps(p)[i] = Gap(tracks[p[i - 1]].mood, tracks[p[i]].mood)
            /\ Jumps(q)[i] = Gap(tracks[p[i - 1]].mood, tracks[p[i]].mood)
        BY <1>2, <1>3, <4>1 DEF Jumps
      <4>3. tracks[p[i - 1]].mood \in Int /\ tracks[p[i]].mood \in Int
        BY <1>3, <1>7, <4>1
      <4> QED BY <4>2, <4>3, GapInt
    <3>2. Transition(p, t) = Gap(tracks[p[n]].mood, tracks[t].mood)
      BY <1>2, <2>2 DEF Transition
    <3>3. Jumps(q)[n + 1] = Transition(p, t)
      <4>1. (n + 1) - 1 = n /\ n \in 1..n /\ n + 1 \in 2..(n + 1)
        BY <2>2
      <4>2. Jumps(q)[n + 1] = Gap(tracks[q[(n + 1) - 1]].mood, tracks[q[n + 1]].mood)
        BY <1>3, <4>1 DEF Jumps
      <4>3. q[(n + 1) - 1] = p[n] /\ q[n + 1] = t
        BY <1>3, <4>1
      <4> QED BY <3>2, <4>2, <4>3
    <3>4. Transition(p, t) \in Int
      <4>1. n \in 1..n
        BY <2>2
      <4>2. tracks[p[n]].mood \in Int /\ tracks[t].mood \in Int
        BY <1>3, <1>7, <4>1
      <4> QED BY <3>2, <4>2, GapInt
    <3>5. Numbers(Jumps(p), 2..n) /\ Continues(Jumps(q), Jumps(p), 2..n, n + 1)
      BY <3>1, <3>3, <3>4 DEF Numbers, Continues
    <3>6. 2 \in Int /\ n \in Int /\ n >= 2 - 1
      BY <2>2
    <3> QED BY <3>3, <3>4, <3>5, <3>6, SumNext
  <2> QED BY <2>1, <2>2
<1>13. /\ Cardinality(Repeats(p)) \in Int
       /\ Cardinality(Repeats(q)) = Cardinality(Repeats(p))
            + (IF ThreeGenreRepeat(p, tracks[t].genre) THEN 1 ELSE 0)
  <2>1. IsFiniteSet(Repeats(p)) /\ n + 1 \notin Repeats(p)
    <3>1. IsFiniteSet(3..n)
      BY FS_Interval
    <3>2. Repeats(p) \in SUBSET (3..n)
      BY <1>2 DEF Repeats
    <3> QED BY <3>1, <3>2, FS_Subset
  <2>2. Cardinality(Repeats(p)) \in Int
    BY <2>1, FS_CardinalityType
  <2>3. \A i \in 3..n : i \in Repeats(q) <=> i \in Repeats(p)
    <3>1. TAKE i \in 3..n
    <3>2. i \in 1..n /\ i - 1 \in 1..n /\ i - 2 \in 1..n /\ i \in 3..(n + 1)
      OBVIOUS
    <3>3. q[i] = p[i] /\ q[i - 1] = p[i - 1] /\ q[i - 2] = p[i - 2]
      BY <1>3, <3>2
    <3> QED BY <1>2, <1>3, <3>2, <3>3 DEF Repeats
  <2>4. n + 1 \in Repeats(q) <=> ThreeGenreRepeat(p, tracks[t].genre)
    <3>1. CASE n >= 2
      <4>1. n \in 1..n /\ n - 1 \in 1..n /\ (n + 1) - 1 = n /\ (n + 1) - 2 = n - 1 /\ n + 1 \in 3..(n + 1)
        BY <3>1
      <4>2. q[n + 1] = t /\ q[(n + 1) - 1] = p[n] /\ q[(n + 1) - 2] = p[n - 1]
        BY <1>3, <4>1
      <4>3. n + 1 \in Repeats(q) <=> /\ tracks[t].genre = tracks[p[n]].genre
                                     /\ tracks[t].genre = tracks[p[n - 1]].genre
        BY <1>3, <4>1, <4>2 DEF Repeats
      <4>4. ThreeGenreRepeat(p, tracks[t].genre) <=> /\ tracks[p[n]].genre = tracks[t].genre
                                                     /\ tracks[p[n - 1]].genre = tracks[t].genre
        BY <1>2, <3>1 DEF ThreeGenreRepeat
      <4> QED BY <4>3, <4>4
    <3>2. CASE n < 2
      <4>1. n + 1 \notin 3..(n + 1)
        BY <3>2
      <4> QED BY <1>2, <1>3, <3>2, <4>1 DEF Repeats, ThreeGenreRepeat
    <3> QED BY <3>1, <3>2
  <2>5. Repeats(q) \subseteq 3..(n + 1) /\ Repeats(p) \subseteq 3..n
    BY <1>2, <1>3 DEF Repeats
  <2>6. CASE ThreeGenreRepeat(p, tracks[t].genre)
    <3>1. Repeats(q) = Repeats(p) \cup {n + 1}
      BY <2>3, <2>4, <2>5, <2>6
    <3>2. Cardinality(Repeats(p) \cup {n + 1}) = Cardinality(Repeats(p)) + 1
      BY <2>1, FS_AddElement
    <3> QED BY <2>2, <2>6, <3>1, <3>2
  <2>7. CASE ~ThreeGenreRepeat(p, tracks[t].genre)
    <3>0. \A i \in 3..(n + 1) : i \in 3..n \/ i = n + 1
      OBVIOUS
    <3>1. Repeats(q) = Repeats(p)
      <4>1. \A i \in Repeats(q) : i \in Repeats(p)
        BY <2>3, <2>4, <2>5, <2>7, <3>0
      <4>2. \A i \in Repeats(p) : i \in Repeats(q)
        BY <2>3, <2>5
      <4> QED BY <4>1, <4>2
    <3> QED BY <2>2, <2>7, <3>1
  <2> QED BY <2>2, <2>6, <2>7
<1>14. PICK taste \in Int : taste = SumFunctionOnSet(Tastes(p), 1..n)
  BY <1>8
<1>15. PICK miss \in Int : miss = SumFunctionOnSet(Misses(p), 1..n)
  BY <1>11
<1>16. PICK jump \in Int : jump = SumFunctionOnSet(Jumps(p), 2..n)
  BY <1>12
<1>17. PICK again \in Int : again = Cardinality(Repeats(p))
  BY <1>13
<1>18. PICK a \in Int : a = tracks[t].taste
  BY <1>7
<1>19. PICK b \in Int : b = Gap(PathPoint(n), Steps * tracks[t].mood)
  <2>1. k * tracks[t].mood \in Int
    BY <1>7
  <2> QED BY <1>4, <1>10, <2>1, GapInt
<1>20. PICK c \in Int : c = Transition(p, t)
  BY <1>12
<1>21. PICK d \in {0, 1} : d = IF ThreeGenreRepeat(p, tracks[t].genre) THEN 1 ELSE 0
  OBVIOUS
<1>22. QueueScore(p) = k * (40 * taste + 500 * n - 8 * jump - 30 * again) - 50 * miss
  BY <1>2, <1>4, <1>14, <1>15, <1>16, <1>17 DEF QueueScore
<1>23. QueueScore(q) = k * (40 * (taste + a) + 500 * (n + 1) - 8 * (jump + c) - 30 * (again + d))
                       - 50 * (miss + b)
  BY <1>3, <1>4, <1>8, <1>11, <1>12, <1>13, <1>14, <1>15, <1>16, <1>17, <1>18, <1>19, <1>20, <1>21
  DEF QueueScore
<1>24. ScoreSlot(p, t) = k * (40 * a + 500 - 8 * c - 30 * d) - 50 * b
  <2>1. (IF ThreeGenreRepeat(p, tracks[t].genre) THEN 30 ELSE 0) = 30 * d
    BY <1>21
  <2> QED BY <1>2, <1>4, <1>18, <1>19, <1>20, <2>1 DEF ScoreSlot
<1>25. k * (40 * (taste + a) + 500 * (n + 1) - 8 * (jump + c) - 30 * (again + d)) - 50 * (miss + b)
         = (k * (40 * taste + 500 * n - 8 * jump - 30 * again) - 50 * miss)
           + (k * (40 * a + 500 - 8 * c - 30 * d) - 50 * b)
  <2>1. PICK x \in Int : x = 40 * taste + 500 * n - 8 * jump - 30 * again
    OBVIOUS
  <2>2. PICK y \in Int : y = 40 * a + 500 - 8 * c - 30 * d
    <3>1. d \in Int
      BY <1>21
    <3>2. 40 * a + 500 - 8 * c - 30 * d \in Int
      BY <3>1
    <3> QED BY <3>2, Zenon
  <2>3. 40 * (taste + a) + 500 * (n + 1) - 8 * (jump + c) - 30 * (again + d) = x + y
    BY <1>21, <2>1, <2>2
  <2>4. k * (x + y) = k * x + k * y /\ k * x \in Int /\ k * y \in Int
    OBVIOUS
  <2> QED BY <2>1, <2>2, <2>3, <2>4
<1> QED BY <1>1, <1>22, <1>23, <1>24, <1>25

-----------------------------------------------------------------------------
(* The theorems.                                                           *)

\* The next beam: some of the extensions, at least one, at most Width.
LEMMA NextBeam ==
    ASSUME BeamSound, beam # {}, Enough, slot < req.count
    PROVE  /\ Keep(Extensions) # {} /\ Keep(Extensions) \subseteq Extended(slot + 1)
           /\ IsFiniteSet(Keep(Extensions)) /\ Cardinality(Keep(Extensions)) <= Width
<1>1. /\ Extensions \subseteq Extended(slot + 1)
      /\ IsFiniteSet(Extensions) /\ Extensions # {}
  BY ExtensionsSound, ExtensionsFinite, ExtensionsLeft
<1>2. Extended(slot + 1) \subseteq Sequenced(slot + 1)
  <2>1. Pool \subseteq Nat
    BY BeamAssumption DEF Pool
  <2>2. SUFFICES ASSUME NEW a \in Extended(slot + 1)
                 PROVE  a \in Sequenced(slot + 1)
    OBVIOUS
  <2>3. /\ a \in [path : Seq(Pool), total : Int]
        /\ a.path \in Seq(Pool) /\ Len(a.path) = slot + 1
    BY DEF Extended
  <2>4. a.path \in [1..(slot + 1) -> Pool]
    BY <2>3
  <2>5. a.path \in [1..(slot + 1) -> Nat]
    BY <2>1, <2>4
  <2> QED BY <2>3, <2>5 DEF Sequenced
<1>3. slot + 1 \in Nat
  BY DEF BeamSound
<1>4. Extensions \in SUBSET Sequenced(slot + 1)
  BY <1>1, <1>2
<1>5. /\ Keep(Extensions) # {} /\ Keep(Extensions) \subseteq Extensions
      /\ IsFiniteSet(Keep(Extensions)) /\ Cardinality(Keep(Extensions)) <= Width
  BY <1>1, <1>3, <1>4, KeepBounds
<1> QED BY <1>1, <1>5

\* From the parts of a partial sequence to what NeverStarves says of it.
LEMMA PartialSound ==
    ASSUME BeamSound, NEW a \in beam
    PROVE  Len(a.path) = slot /\ Used(a.path) \subseteq Pool /\ IsInjective(a.path)
<1>1. a.path \in Seq(Pool) /\ Len(a.path) = slot /\ IsInjective(a.path)
  BY DEF BeamSound, Partial
<1>2. a.path \in [1..Len(a.path) -> Pool]
  BY <1>1
<1> QED BY <1>1, <1>2 DEF Used, Range

LEMMA BeamSequenced ==
    ASSUME BeamSound
    PROVE  slot \in Nat /\ beam \in SUBSET Sequenced(slot) /\ IsFiniteSet(beam)
<1>1. Pool \subseteq Nat
  BY BeamAssumption DEF Pool
<1>2. ASSUME NEW a \in beam PROVE a \in Sequenced(slot)
  <2>1. a \in [path : Seq(Pool), total : Int] /\ a.path \in Seq(Pool) /\ Len(a.path) = slot
    BY DEF BeamSound, Partial
  <2>2. a.path \in [1..slot -> Pool]
    BY <2>1
  <2>3. a.path \in [1..slot -> Nat]
    BY <1>1, <2>2
  <2> QED BY <2>1, <2>3 DEF Sequenced
<1> QED BY <1>2 DEF BeamSound

LEMMA InitSound == Init => IInv
<1> SUFFICES ASSUME Init PROVE IInv
  OBVIOUS
<1> DEFINE a == [path |-> <<>>, total |-> 0]
<1>1. /\ tracks \in Catalogs /\ req \in Requests /\ beam = {a} /\ slot = 0
      /\ pruned = FALSE /\ stage = "start"
  BY DEF Init
<1>2. slot \in 0..req.count
  <2>1. req \in [start : Moods, target : Moods, count : 1..20, excluded : SUBSET Tracks]
    BY <1>1, BeamAssumption
  <2>2. req.count \in 1..20
    BY <2>1
  <2> QED BY <1>1, <2>2
<1>3. a \in Partial
  <2>1. a.path = <<>> /\ a.total = 0 /\ a \in [path : Seq(Pool), total : Int]
    OBVIOUS
  <2>2. Len(a.path) = 0 /\ IsInjective(a.path)
    BY <2>1 DEF IsInjective
  <2> HIDE DEF a
  <2> QED BY <1>1, <2>1, <2>2 DEF Partial
<1>4. IsFiniteSet(beam) /\ Cardinality(beam) = 1 /\ beam # {}
  BY <1>1, FS_Singleton
<1>5. BeamSound
  BY <1>1, <1>2, <1>3, <1>4 DEF BeamSound
<1>6. NeverStarves
  <2>1. Cardinality(beam) <= Width
    BY <1>4, BeamAssumption
  <2> QED BY <1>4, <1>5, <2>1, PartialSound DEF NeverStarves
<1>7. TotalsExact
  <2>1. QueueScore(<<>>) = 0
    <3>1. Len(<<>>) = 0 /\ 1..0 = {} /\ 2..0 = {} /\ 3..0 = {}
      OBVIOUS
    <3>2. /\ SumFunctionOnSet(Tastes(<<>>), 1..0) = 0 /\ SumFunctionOnSet(Jumps(<<>>), 2..0) = 0
          /\ SumFunctionOnSet(Misses(<<>>), 1..0) = 0
      BY <3>1, SumEmpty
    <3>3. Cardinality(Repeats(<<>>)) = 0
      BY <3>1, FS_EmptySet DEF Repeats
    <3>4. PICK k \in Int : k = Steps
      BY <1>5, SearchTypes
    <3>5. QueueScore(<<>>) = k * (40 * 0 + 500 * 0 - 8 * 0 - 30 * 0) - 50 * 0
      BY <3>1, <3>2, <3>3, <3>4 DEF QueueScore
    <3> QED BY <3>5
  <2> QED BY <1>1, <2>1 DEF TotalsExact
<1>8. Exhaustive
  <2> SUFFICES ASSUME NEW f \in [1..slot -> Pool] PROVE \E b \in beam : b.path = f
    BY DEF Exhaustive
  <2>1. f = <<>>
    <3>1. 1..slot = {}
      BY <1>1
    <3>2. f \in [1..0 -> Pool]
      BY <1>1
    <3>3. f \in Seq(Pool) /\ Len(f) = 0
      BY <3>2
    <3> QED BY <3>3, EmptySeq
  <2> QED BY <1>1, <2>1
<1> QED BY <1>1, <1>5, <1>6, <1>7, <1>8 DEF IInv

\* What does not change leaves the scores as they are.
LEMMA SameScore ==
    ASSUME UNCHANGED <<tracks, req>>, NEW p
    PROVE  QueueScore(p)' = QueueScore(p)
<1>1. Steps' = Steps
  BY DEF Steps
<1>2. Tastes(p)' = Tastes(p) /\ Jumps(p)' = Jumps(p) /\ Repeats(p)' = Repeats(p)
  BY DEF Tastes, Jumps, Repeats
<1>3. Misses(p)' = Misses(p)
  BY <1>1 DEF Misses
<1> QED BY <1>1, <1>2, <1>3 DEF QueueScore

\* A step that does not fill a slot.
LEMMA SearchKept ==
    ASSUME TotalsExact, Exhaustive, stage # "refused", UNCHANGED <<tracks, req, beam, slot, pruned>>
    PROVE  TotalsExact' /\ Exhaustive'
<1>1. TotalsExact'
  BY SameScore DEF TotalsExact
<1>2. Pool' = Pool
  BY DEF Pool
<1>3. Exhaustive'
  BY <1>2 DEF Exhaustive
<1> QED BY <1>1, <1>3

\* Extensions of all paths of a length are all paths of the next.
LEMMA ExtensionsExhaust ==
    ASSUME BeamSound, Exhaustive, stage = "search", ~pruned,
           NEW f \in [1..(slot + 1) -> Pool], IsInjective(f)
    PROVE  \E b \in Extensions : b.path = f
<1>1. PICK n \in Nat : n = slot
  BY DEF BeamSound
<1> DEFINE g == [i \in 1..n |-> f[i]]
<1>2. g \in [1..slot -> Pool]
  BY <1>1
<1>3. IsInjective(g)
  BY <1>1 DEF IsInjective
<1>4. PICK a \in beam : a.path = g
  <2> HIDE DEF g
  <2> QED BY <1>2, <1>3 DEF Exhaustive
<1>5. PICK t \in Pool : t = f[n + 1]
  BY <1>1
<1>6. t \notin Used(a.path)
  <2>1. Used(a.path) = {f[i] : i \in 1..n}
    BY <1>4 DEF Used, Range
  <2>2. \A i \in 1..n : f[i] # f[n + 1]
    BY <1>1 DEF IsInjective
  <2> QED BY <1>5, <2>1, <2>2
<1>7. f = Append(a.path, t)
  <2>1. g \in Seq(Pool) /\ Len(g) = n
    BY <1>1, <1>2
  <2>2. PICK h : h = Append(g, t)
    OBVIOUS
  <2>3. h \in Seq(Pool) /\ Len(h) = n + 1 /\ h[n + 1] = t /\ \A i \in 1..n : h[i] = g[i]
    BY <2>1, <2>2
  <2>4. DOMAIN h = 1..(n + 1)
    BY <2>3
  <2>5. \A i \in 1..(n + 1) : h[i] = f[i]
    <3>1. TAKE i \in 1..(n + 1)
    <3>2. i \in 1..n \/ i = n + 1
      OBVIOUS
    <3> QED BY <1>5, <2>3, <3>2
  <2>6. h \in [1..(n + 1) -> Pool]
    BY <2>3
  <2>7. h = f
    BY <1>1, <2>5, <2>6
  <2> QED BY <1>4, <2>2, <2>7
<1> DEFINE One(c, u) == [path |-> Append(c.path, u), total |-> c.total + ScoreSlot(c.path, u)]
           Of(c) == {One(c, u) : u \in Pool \ Used(c.path)}
<1>8. One(a, t) \in Of(a) /\ One(a, t).path = f
  <2>1. One(a, t).path = Append(a.path, t)
    OBVIOUS
  <2> HIDE DEF One
  <2> QED BY <1>5, <1>6, <1>7, <2>1
<1>9. Extensions = UNION {Of(c) : c \in beam}
  BY DEF Extensions
<1> HIDE DEF Of, One
<1> QED BY <1>4, <1>8, <1>9

\* Extensions have the scores of their paths.
LEMMA ExtensionsExact ==
    ASSUME BeamSound, TotalsExact, NEW b \in Extensions
    PROVE  b.total = QueueScore(b.path)
<1>1. PICK a \in beam : \E t \in Pool \ Used(a.path) :
         b = [path |-> Append(a.path, t), total |-> a.total + ScoreSlot(a.path, t)]
  BY DEF Extensions
<1>5. PICK t \in Pool \ Used(a.path) :
         b = [path |-> Append(a.path, t), total |-> a.total + ScoreSlot(a.path, t)]
  BY <1>1
<1>2. a.path \in Seq(Pool)
  BY DEF BeamSound, Partial
<1>3. a.total = QueueScore(a.path)
  BY DEF TotalsExact
<1>4. QueueScore(Append(a.path, t)) = QueueScore(a.path) + ScoreSlot(a.path, t)
  BY <1>2, <1>5, ScoreNext
<1> QED BY <1>3, <1>4, <1>5

LEMMA StepSound == IInv /\ [Next]_vars => IInv'
<1> SUFFICES ASSUME IInv, [Next]_vars PROVE IInv'
  OBVIOUS
<1>0. BeamSound /\ NeverStarves /\ TotalsExact /\ Exhaustive
  BY DEF IInv
<1>1. CASE Start
  <2>1. /\ stage = "start" /\ slot = 0
        /\ stage' = IF Pool # {} /\ Enough THEN "search" ELSE "refused"
        /\ UNCHANGED <<tracks, req, beam, slot, pruned>>
    BY <1>1 DEF Start, IInv
  <2>2. stage' \in {"search", "refused"} /\ (stage' = "search" => Enough)
    BY <2>1
  <2>3. Pool' = Pool /\ (Enough <=> Enough') /\ Partial' = Partial
    BY <2>1 DEF Pool, Enough, Partial
  <2>4. BeamSound'
    BY <1>0, <2>1, <2>2, <2>3 DEF BeamSound
  <2>5. NeverStarves'
    BY <1>0, <2>1, <2>3 DEF NeverStarves
  <2>6. TotalsExact' /\ Exhaustive'
    BY <1>0, <2>1, SearchKept
  <2> QED BY <2>1, <2>2, <2>3, <2>4, <2>5, <2>6 DEF IInv
<1>2. CASE FillSlot
  <2>1. /\ stage = "search" /\ slot < req.count
        /\ beam' = Keep(Extensions) /\ slot' = slot + 1
        /\ pruned' = (pruned \/ beam' # Extensions)
        /\ UNCHANGED <<tracks, req, stage>>
    BY <1>2 DEF FillSlot
  <2>2. Enough /\ beam # {}
    BY <2>1, <1>0 DEF IInv, NeverStarves
  <2>3. /\ beam' # {} /\ beam' \subseteq Extended(slot + 1)
        /\ IsFiniteSet(beam') /\ Cardinality(beam') <= Width
    BY <1>0, <2>1, <2>2, NextBeam
  <2>4. Pool' = Pool /\ Enough'
    BY <2>1, <2>2 DEF Pool, Enough
  <2>5. Partial' = Extended(slot + 1)
    BY <2>1, <2>4 DEF Partial, Extended
  <2>6. slot' \in 0..req'.count
    <3>1. req \in [start : Moods, target : Moods, count : 1..20, excluded : SUBSET Tracks]
      BY <1>0, BeamAssumption DEF BeamSound
    <3>2. req.count \in 1..20
      BY <3>1
    <3> QED BY <1>0, <2>1, <3>2 DEF BeamSound
  <2>7. pruned' \in BOOLEAN
    BY <2>1
  <2>8. BeamSound'
    BY <1>0, <2>1, <2>3, <2>5, <2>6, <2>7 DEF BeamSound
  <2>9. \A a \in beam' : Len(a.path) = slot' /\ Used(a.path) \subseteq Pool' /\ IsInjective(a.path)
    <3>1. TAKE a \in beam'
    <3>2. a.path \in Seq(Pool) /\ Len(a.path) = slot' /\ IsInjective(a.path)
      BY <2>1, <2>3 DEF Extended
    <3>3. a.path \in [1..Len(a.path) -> Pool]
      BY <3>2
    <3> QED BY <2>4, <3>2, <3>3 DEF Used, Range
  <2>10. NeverStarves'
    BY <2>3, <2>9 DEF NeverStarves
  <2>11. beam' \subseteq Extensions
    BY <2>1 DEF Keep
  <2>12. TotalsExact'
    <3>1. \A a \in beam' : a.total = QueueScore(a.path)
      BY <1>0, <2>11, ExtensionsExact
    <3>2. \A a \in beam' : QueueScore(a.path)' = QueueScore(a.path)
      BY <2>1, SameScore
    <3> QED BY <3>1, <3>2 DEF TotalsExact
  <2>13. Exhaustive'
    <3>1. CASE ~pruned'
      <4>1. ~pruned /\ beam' = Extensions
        BY <2>1, <3>1
      <4>2. \A f \in [1..(slot + 1) -> Pool] : IsInjective(f) => \E b \in Extensions : b.path = f
        BY <1>0, <2>1, <4>1, ExtensionsExhaust
      <4> QED BY <2>1, <2>4, <4>1, <4>2 DEF Exhaustive
    <3>2. CASE pruned'
      BY <3>2 DEF Exhaustive
    <3> QED BY <3>1, <3>2
  <2> QED BY <2>1, <2>4, <2>8, <2>10, <2>12, <2>13 DEF IInv
<1>3. CASE Finish
  <2>1. /\ stage = "search" /\ slot = req.count /\ stage' = "done"
        /\ UNCHANGED <<tracks, req, beam, slot, pruned>>
    BY <1>3 DEF Finish
  <2>2. Pool' = Pool /\ (Enough <=> Enough') /\ Partial' = Partial
    BY <2>1 DEF Pool, Enough, Partial
  <2>3. BeamSound'
    BY <1>0, <2>1, <2>2 DEF BeamSound
  <2>4. NeverStarves'
    BY <1>0, <2>1, <2>2 DEF NeverStarves
  <2>5. TotalsExact' /\ Exhaustive'
    BY <1>0, <2>1, SearchKept
  <2> QED BY <2>1, <2>2, <2>3, <2>4, <2>5 DEF IInv
<1>4. CASE UNCHANGED vars
  <2>1. UNCHANGED <<tracks, req, beam, slot, pruned, stage>>
    BY <1>4 DEF vars
  <2>2. Pool' = Pool /\ (Enough <=> Enough') /\ Partial' = Partial
    BY <2>1 DEF Pool, Enough, Partial
  <2>3. BeamSound'
    BY <1>0, <2>1, <2>2 DEF BeamSound
  <2>4. NeverStarves'
    BY <1>0, <2>1, <2>2 DEF NeverStarves
  <2>5. TotalsExact'
    BY <1>0, <2>1, SameScore DEF TotalsExact
  <2>6. Exhaustive'
    BY <1>0, <2>1, <2>2 DEF Exhaustive
  <2> QED BY <2>1, <2>2, <2>3, <2>4, <2>5, <2>6 DEF IInv
<1> QED BY <1>1, <1>2, <1>3, <1>4 DEF Next

\* The inductive invariant holds in every state of a search, for every catalog, request and
\* width.
THEOREM Invariance == Spec => []IInv
<1> QED BY InitSound, StepSound, PTL DEF Spec

\* A search that was let in always has a partial sequence to extend, never more than its
\* width, and none that repeats a track or leaves the pool.
THEOREM StarvationFree == Spec => []NeverStarves
<1>1. IInv => NeverStarves
  BY DEF IInv
<1> QED BY <1>1, Invariance, PTL

\* A search that is done has an answer: one partial sequence that the sort puts before all
\* others of the beam, with as many different tracks of the pool as were wanted.
THEOREM AnswerFound ==
    Spec => [](stage = "done" =>
                  /\ Selected \in beam /\ \A b \in beam : ~Before(b, Selected)
                  /\ Len(Selected.path) = req.count /\ IsInjective(Selected.path))
<1> DEFINE Answer == stage = "done" =>
              /\ Selected \in beam /\ \A b \in beam : ~Before(b, Selected)
              /\ Len(Selected.path) = req.count /\ IsInjective(Selected.path)
<1>1. IInv => Answer
  <2>1. SUFFICES ASSUME IInv, stage = "done"
                 PROVE  /\ Selected \in beam /\ \A b \in beam : ~Before(b, Selected)
                        /\ Len(Selected.path) = req.count /\ IsInjective(Selected.path)
    OBVIOUS
  <2>2. BeamSound /\ beam # {} /\ slot = req.count
    BY <2>1 DEF IInv, NeverStarves
  <2>3. /\ slot \in Nat /\ beam \in SUBSET Sequenced(slot) /\ IsFiniteSet(beam)
    BY <2>2, BeamSequenced
  <2>4. \E a \in beam : \A b \in beam : a = b \/ Before(a, b)
    BY <2>2, <2>3, FirstExists
  <2>5. Selected \in beam /\ \A b \in beam : Selected = b \/ Before(Selected, b)
    BY <2>4 DEF Selected
  <2> HIDE DEF Selected
  <2>6. \A b \in beam : ~Before(b, Selected)
    BY <2>3, <2>5, SortOrder
  <2>7. Len(Selected.path) = slot /\ IsInjective(Selected.path)
    BY <2>2, <2>5, PartialSound
  <2> QED BY <2>2, <2>5, <2>6, <2>7
<1> HIDE DEF Answer
<1>2. Spec => []Answer
  BY <1>1, Invariance, PTL
<1> QED BY <1>2 DEF Answer

\* A search that dropped nothing answers the best of all queues, and among equally good ones
\* the first by its track IDs.
THEOREM BestUnlessPruned == Spec => []OptimalUnlessPruned
<1>1. IInv => OptimalUnlessPruned
  <2> SUFFICES ASSUME IInv, stage = "done", ~pruned,
                      NEW q \in [1..req.count -> Pool], IsInjective(q)
               PROVE  \/ QueueScore(q) < QueueScore(Selected.path)
                      \/ /\ QueueScore(q) = QueueScore(Selected.path)
                         /\ ~KeyBefore(q, Selected.path)
    BY DEF OptimalUnlessPruned
  <2>1. BeamSound /\ beam # {} /\ slot = req.count /\ TotalsExact /\ Exhaustive
    BY DEF IInv, NeverStarves
  <2>2. slot \in Nat /\ beam \in SUBSET Sequenced(slot) /\ IsFiniteSet(beam)
    BY <2>1, BeamSequenced
  <2>3. \E a \in beam : \A b \in beam : a = b \/ Before(a, b)
    BY <2>1, <2>2, FirstExists
  <2>4. Selected \in beam /\ \A b \in beam : Selected = b \/ Before(Selected, b)
    BY <2>3 DEF Selected
  <2>5. PICK s \in beam : s = Selected
    BY <2>4
  <2>6. PICK b \in beam : b.path = q
    BY <2>1 DEF Exhaustive
  <2>7. s.total = QueueScore(s.path) /\ b.total = QueueScore(q)
    BY <2>1, <2>6 DEF TotalsExact
  <2>8. s \in Sequenced(slot) /\ b \in Sequenced(slot)
    BY <2>2
  <2>9. s.path \in [1..slot -> Nat] /\ b.path \in [1..slot -> Nat] /\ s.total \in Int /\ b.total \in Int
    BY <2>8 DEF Sequenced
  <2>10. ~KeyBefore(s.path, s.path)
    BY <2>2, <2>9, KeyIrreflexive
  <2>11. CASE s = b
    BY <2>5, <2>6, <2>7, <2>10, <2>11
  <2>12. CASE Before(s, b)
    <3>1. ~(KeyBefore(s.path, b.path) /\ KeyBefore(b.path, s.path))
      BY <2>2, <2>9, <2>10, KeyTransitive
    <3>2. s.total > b.total \/ (s.total = b.total /\ KeyBefore(s.path, b.path))
      BY <2>12 DEF Before
    <3> QED BY <2>5, <2>6, <2>7, <2>9, <3>1, <3>2
  <2> QED BY <2>4, <2>5, <2>11, <2>12
<1> QED BY <1>1, Invariance, PTL
=============================================================================

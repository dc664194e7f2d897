------------------------ MODULE StudyAnalysisProofs ------------------------
(***************************************************************************)
(* The study report adds up, for any file of rows.  What the analysis      *)
(* keeps while it reads (RowsKept, SessionsKept, CountsKept) says that the *)
(* running summaries are those of the rows so far; a summary of a set of   *)
(* rows can be built in any order (FoldIsSummary, by the sums of Sums).    *)
(* At the end, a participant with three rows has one for every strategy    *)
(* and one for every order, because no two rows share either.              *)
(***************************************************************************)
EXTENDS StudyAnalysis, Sums

-----------------------------------------------------------------------------
(* Summaries.                                                              *)

\* The fields of a row.
LEMMA RowFields ==
    ASSUME NEW row \in Row
    PROVE  /\ row.participant \in Participants /\ row.session \in Sessions
           /\ row.strategy \in Strategies /\ row.order \in Orders
           /\ row.synthetic \in BOOLEAN
           /\ row.rating \in Nat
           /\ row.change # None => row.change \in Int
<1>1. row.rating \in Ratings /\ row.change \in Changes \cup {None}
  BY DEF Row
<1>2. Ratings \subseteq 1..5 /\ Changes \subseteq Int
  BY StudyAssumption
<1>3. row.rating \in Nat /\ (row.change # None => row.change \in Int)
  <2>1. row.rating \in 1..5
    BY <1>1, <1>2
  <2>2. row.rating \in Nat
    BY <2>1
  <2>3. row.change # None => row.change \in Int
    BY <1>1, <1>2, Zenon
  <2> QED BY <2>2, <2>3
<1>4. /\ row.participant \in Participants /\ row.session \in Sessions
      /\ row.strategy \in Strategies /\ row.order \in Orders
      /\ row.synthetic \in BOOLEAN
  BY DEF Row
<1> QED BY <1>3, <1>4

\* The terms of the sums.
LEMMA Terms ==
    ASSUME NEW row \in Row
    PROVE  /\ RatingOf[row] = row.rating /\ RatingOf[row] \in Nat
           /\ ChangeOf[row] = IF row.change = None THEN 0 ELSE row.change
           /\ ChangeOf[row] \in Int
<1>1. RatingOf[row] = row.rating
  BY DEF RatingOf
<1>2. ChangeOf[row] = IF row.change = None THEN 0 ELSE row.change
  BY DEF ChangeOf
<1> QED BY <1>1, <1>2, RowFields

\* Rows of a set whose moods were reported.
Reported(rows) == {row \in rows : row.change # None}

\* A summary has numbers in its fields.
LEMMA SummaryType ==
    ASSUME NEW S \in SUBSET Row, IsFiniteSet(S)
    PROVE  SummaryOf(S) \in Summary
<1>1. Cardinality(S) \in Nat
  BY FS_CardinalityType
<1>2. SumFunctionOnSet(RatingOf, S) \in Nat
  <2>1. \A x \in S : RatingOf[x] \in Nat
    BY Terms
  <2> QED BY <2>1, SumNat
<1>3. Cardinality(Reported(S)) \in Nat
  <2>1. IsFiniteSet(Reported(S))
    BY FS_Subset DEF Reported
  <2> QED BY <2>1, FS_CardinalityType
<1>4. SumFunctionOnSet(ChangeOf, S) \in Int
  <2>1. Numbers(ChangeOf, S)
    BY Terms DEF Numbers
  <2> QED BY <2>1, SumInt
<1> QED BY <1>1, <1>2, <1>3, <1>4 DEF SummaryOf, Summary, Reported

\* The summary of no rows.
LEMMA SummaryEmpty == SummaryOf({}) = NoRows
<1>1. Cardinality({}) = 0
  BY FS_EmptySet
<1>2. SumFunctionOnSet(RatingOf, {}) = 0 /\ SumFunctionOnSet(ChangeOf, {}) = 0
  BY SumEmpty
<1>3. {row \in {} : row.change # None} = {}
  OBVIOUS
<1> QED BY <1>1, <1>2, <1>3 DEF SummaryOf, NoRows

\* One more row is added as the code adds it.
LEMMA SummaryAdd ==
    ASSUME NEW S \in SUBSET Row, IsFiniteSet(S), NEW x \in Row, x \notin S
    PROVE  SummaryOf(S \cup {x}) = AddRow(SummaryOf(S), x)
<1> DEFINE T == S \cup {x}
<1>1. T \in SUBSET Row /\ IsFiniteSet(T)
  BY FS_AddElement
<1>2. Cardinality(T) = Cardinality(S) + 1
  BY FS_AddElement
<1>3. SumFunctionOnSet(RatingOf, T) = SumFunctionOnSet(RatingOf, S) + x.rating
  <2>1. Numbers(RatingOf, T)
    BY <1>1, Terms DEF Numbers
  <2>2. SumFunctionOnSet(RatingOf, T) = RatingOf[x] + SumFunctionOnSet(RatingOf, S)
    BY <2>1, SumAdd
  <2>3. Numbers(RatingOf, S)
    BY <2>1 DEF Numbers
  <2>4. SumFunctionOnSet(RatingOf, S) \in Int
    BY <2>3, SumInt
  <2>5. RatingOf[x] = x.rating /\ RatingOf[x] \in Nat
    BY Terms
  <2> HIDE DEF T
  <2> QED BY <2>2, <2>4, <2>5
<1>4. SumFunctionOnSet(ChangeOf, T)
        = SumFunctionOnSet(ChangeOf, S) + (IF x.change = None THEN 0 ELSE x.change)
  <2>1. Numbers(ChangeOf, T)
    BY <1>1, Terms DEF Numbers
  <2>2. SumFunctionOnSet(ChangeOf, T) = ChangeOf[x] + SumFunctionOnSet(ChangeOf, S)
    BY <2>1, SumAdd
  <2>3. Numbers(ChangeOf, S)
    BY <2>1 DEF Numbers
  <2>4. SumFunctionOnSet(ChangeOf, S) \in Int
    BY <2>3, SumInt
  <2>5. /\ ChangeOf[x] = IF x.change = None THEN 0 ELSE x.change
        /\ ChangeOf[x] \in Int
    BY Terms
  <2> HIDE DEF T
  <2> QED BY <2>2, <2>4, <2>5
<1>5. Cardinality(Reported(T)) = Cardinality(Reported(S)) + (IF x.change = None THEN 0 ELSE 1)
  <2>1. IsFiniteSet(Reported(S)) /\ x \notin Reported(S)
    BY FS_Subset DEF Reported
  <2>2. Cardinality(Reported(S)) \in Nat
    BY <2>1, FS_CardinalityType
  <2>3. CASE x.change = None
    <3>1. Reported(T) = Reported(S)
      BY <2>3 DEF Reported
    <3> QED BY <2>2, <2>3, <3>1
  <2>4. CASE x.change # None
    <3>1. Reported(T) = Reported(S) \cup {x}
      BY <2>4 DEF Reported
    <3>2. Cardinality(Reported(S) \cup {x}) = Cardinality(Reported(S)) + 1
      BY <2>1, FS_AddElement
    <3> QED BY <2>4, <3>1, <3>2
  <2> QED BY <2>3, <2>4
<1> HIDE DEF T
<1>6. SummaryOf(T) = AddRow(SummaryOf(S), x)
  BY <1>2, <1>3, <1>4, <1>5 DEF SummaryOf, AddRow, Reported
<1> QED BY <1>6 DEF T

\* The summary of a set of rows does not depend on the order in which they are added.
LEMMA FoldIsSummary ==
    ASSUME NEW S \in SUBSET Row, IsFiniteSet(S)
    PROVE  FoldSet(LAMBDA row, sum : AddRow(sum, row), NoRows, S) = SummaryOf(S)
<1> DEFINE P(F) == F = [s \in SUBSET S |->
                          IF s = {} THEN NoRows
                          ELSE AddRow(F[s \ {CHOOSE x \in s : TRUE}], CHOOSE x \in s : TRUE)]
<1>1. FoldSet(LAMBDA row, sum : AddRow(sum, row), NoRows, S) = (CHOOSE F : P(F))[S]
  BY Zenon DEF FoldSet, MapThenFoldSet
<1> DEFINE F == [s \in SUBSET S |-> SummaryOf(s)]
<1>2. \A s \in SUBSET S :
         SummaryOf(s) = IF s = {} THEN NoRows ELSE AddRow(SummaryOf(s \ {First(s)}), First(s))
  <2>1. TAKE s \in SUBSET S
  <2>2. CASE s = {}
    BY <2>2, SummaryEmpty
  <2>3. CASE s # {}
    <3> DEFINE x == First(s)
               r == s \ {x}
    <3>1. x \in s
      BY <2>3, FirstIn
    <3>2. s = r \cup {x} /\ x \notin r /\ x \in Row /\ r \in SUBSET Row
      BY <3>1
    <3>3. IsFiniteSet(r)
      BY <3>2, FS_Subset
    <3> HIDE DEF r, x
    <3>4. SummaryOf(r \cup {x}) = AddRow(SummaryOf(r), x)
      BY <3>2, <3>3, SummaryAdd
    <3>5. SummaryOf(s) = AddRow(SummaryOf(r), x)
      BY <3>2, <3>4
    <3> QED BY <2>3, <3>5 DEF r, x
  <2> QED BY <2>2, <2>3
<1>3. P(F)
  <2>1. \A s \in SUBSET S : F[s] = SummaryOf(s) /\ s \ {First(s)} \in SUBSET S
    OBVIOUS
  <2>2. \A s \in SUBSET S :
           F[s] = IF s = {} THEN NoRows ELSE AddRow(F[s \ {First(s)}], First(s))
    BY <1>2, <2>1
  <2>3. F = [s \in SUBSET S |->
               IF s = {} THEN NoRows ELSE AddRow(F[s \ {First(s)}], First(s))]
    <3>1. F = [s \in SUBSET S |-> F[s]]
      OBVIOUS
    <3> HIDE DEF F
    <3> QED BY <2>2, <3>1
  <2> HIDE DEF F
  <2> QED BY <2>3 DEF First
<1> DEFINE G == CHOOSE H : P(H)
<1>4. P(G)
  <2> HIDE DEF P, F
  <2> QED BY <1>3
<1>5. \A s \in SUBSET S :
         G[s] = IF s = {} THEN NoRows ELSE AddRow(G[s \ {First(s)}], First(s))
  <2> HIDE DEF G
  <2> QED BY <1>4 DEF First
<1>6. FoldSet(LAMBDA row, sum : AddRow(sum, row), NoRows, S) = G[S]
  BY <1>1
<1> HIDE DEF G, P, F
<1>7. \A s \in SUBSET S : G[s] = SummaryOf(s)
  <2> DEFINE Bad == {s \in SUBSET S : G[s] # SummaryOf(s)}
  <2>1. SUFFICES ASSUME Bad # {} PROVE FALSE
    OBVIOUS
  <2>2. PICK u \in Bad : \A v \in Bad : v \subseteq u => v = u
    <3>1. Bad \in SUBSET SUBSET S
      OBVIOUS
    <3> HIDE DEF Bad
    <3> QED BY <2>1, <3>1, SmallestSubset
  <2>3. CASE u = {}
    BY <1>2, <1>5, <2>3
  <2>4. CASE u # {}
    <3>1. First(u) \in u
      BY <2>4, FirstIn
    <3>2. u \ {First(u)} \notin Bad
      BY <2>2, <3>1
    <3>3. G[u \ {First(u)}] = SummaryOf(u \ {First(u)})
      BY <3>2
    <3> QED BY <1>2, <1>5, <2>4, <3>3
  <2> QED BY <2>3, <2>4
<1>8. S \in SUBSET S
  OBVIOUS
<1> QED BY <1>6, <1>7, <1>8

-----------------------------------------------------------------------------
(* Rows and participants.                                                  *)

\* A row that was taken stands under its participant and strategy.
LEMMA RowPlace ==
    ASSUME RowsKept, NEW row \in AllRows
    PROVE  /\ row \in Row /\ row.participant \in Participants
           /\ row.strategy \in DOMAIN participants[row.participant]
           /\ row = participants[row.participant][row.strategy]
           /\ row \in RowsOf(row.participant)
<1>1. PICK p \in Participants : row \in RowsOf(p)
  BY DEF AllRows
<1>2. PICK s \in DOMAIN participants[p] : row = participants[p][s]
  BY <1>1 DEF RowsOf, Range
<1>3. row \in Row /\ row.participant = p /\ row.strategy = s
  BY <1>2 DEF RowsKept
<1> QED BY <1>1, <1>2, <1>3

\* The rows of a participant are rows of the file, one for each strategy done.
LEMMA RowsOfPlace ==
    ASSUME RowsKept, NEW p \in Participants
    PROVE  /\ RowsOf(p) = {participants[p][s] : s \in DOMAIN participants[p]}
           /\ RowsOf(p) \subseteq AllRows
           /\ {row.strategy : row \in RowsOf(p)} = DOMAIN participants[p]
<1>1. RowsOf(p) = {participants[p][s] : s \in DOMAIN participants[p]}
  BY DEF RowsOf, Range
<1>2. RowsOf(p) \subseteq AllRows
  BY DEF AllRows
<1>3. \A s \in DOMAIN participants[p] : participants[p][s].strategy = s
  BY DEF RowsKept
<1>4. {row.strategy : row \in RowsOf(p)} = DOMAIN participants[p]
  BY <1>1, <1>3
<1> QED BY <1>1, <1>2, <1>4

LEMMA ThreeStrategies == IsFiniteSet(Strategies) /\ Cardinality(Strategies) = 3
<1>1. IsFiniteSet({}) /\ Cardinality({}) = 0
  BY FS_EmptySet
<1>2. IsFiniteSet({} \cup {"popularity"}) /\ Cardinality({} \cup {"popularity"}) = 1
  BY <1>1, FS_AddElement
<1> DEFINE A == {} \cup {"popularity"}
<1>3. IsFiniteSet(A \cup {"taste"}) /\ Cardinality(A \cup {"taste"}) = 2
  BY <1>2, FS_AddElement
<1> DEFINE B == A \cup {"taste"}
<1>4. IsFiniteSet(B \cup {"drift"}) /\ Cardinality(B \cup {"drift"}) = 3
  BY <1>3, FS_AddElement
<1>5. Strategies = B \cup {"drift"}
  BY DEF Strategies
<1> QED BY <1>4, <1>5

\* Three rows are one for every strategy, and then one for every order.
LEMMA CompleteIsWhole ==
    ASSUME RowsKept, NEW p \in Participants
    PROVE  /\ Cardinality(RowsOf(p)) = 3 <=> {row.strategy : row \in RowsOf(p)} = Strategies
           /\ {row.strategy : row \in RowsOf(p)} = Strategies
                => {row.order : row \in RowsOf(p)} = Orders
<1> DEFINE D == DOMAIN participants[p]
           f == [s \in D |-> participants[p][s]]
<1>1. D \in SUBSET Strategies
  BY DEF RowsKept
<1>2. RowsOf(p) = {participants[p][s] : s \in D} /\ {row.strategy : row \in RowsOf(p)} = D
  BY RowsOfPlace
<1>3. \A s, u \in D : participants[p][s] = participants[p][u] => s = u
  BY DEF RowsKept
<1>4. f \in Bijection(D, RowsOf(p))
  <2>1. f \in [D -> RowsOf(p)]
    BY <1>2
  <2>2. \A s, u \in D : f[s] = f[u] => s = u
    BY <1>3
  <2>3. \A r \in RowsOf(p) : \E s \in D : f[s] = r
    BY <1>2
  <2> HIDE DEF f, D
  <2> QED BY <2>1, <2>2, <2>3 DEF Bijection, Injection, Surjection, IsInjective
<1>5. ExistsBijection(D, RowsOf(p))
  BY <1>4 DEF ExistsBijection
<1> HIDE DEF D, f
<1>6. IsFiniteSet(D)
  BY <1>1, ThreeStrategies, FS_Subset
<1>7. Cardinality(RowsOf(p)) = Cardinality(D)
  BY <1>5, <1>6, FS_Bijection
<1>8. Cardinality(D) = 3 <=> D = Strategies
  BY <1>1, ThreeStrategies, FS_Subset
<1>9. D = Strategies => {row.order : row \in RowsOf(p)} = Orders
  <2> SUFFICES ASSUME D = Strategies PROVE {row.order : row \in RowsOf(p)} = Orders
    OBVIOUS
  <2>1. \A s \in D : participants[p][s].order \in 1..3
    BY DEF RowsKept, Row, Orders, D
  <2>2. \A s, u \in D : participants[p][s].order = participants[p][u].order => s = u
    BY DEF RowsKept, D
  <2>3. "popularity" \in D /\ "taste" \in D /\ "drift" \in D
    BY DEF Strategies
  <2>4. PICK a \in 1..3 : a = participants[p]["popularity"].order
    BY <2>1, <2>3
  <2>5. PICK b \in 1..3 : b = participants[p]["taste"].order
    BY <2>1, <2>3
  <2>6. PICK c \in 1..3 : c = participants[p]["drift"].order
    BY <2>1, <2>3
  <2>7. a # b /\ a # c /\ b # c
    BY <2>2, <2>3, <2>4, <2>5, <2>6
  <2>8. {row.order : row \in RowsOf(p)} = {participants[p][s].order : s \in D}
    BY <1>2
  <2>9. {participants[p][s].order : s \in D} = {a, b, c}
    BY <2>4, <2>5, <2>6 DEF Strategies
  <2>10. {a, b, c} = 1..3
    BY <2>7
  <2> QED BY <2>8, <2>9, <2>10 DEF Orders
<1> QED BY <1>2, <1>7, <1>8, <1>9

\* The paired rows of a strategy are as many as the participants who did all strategies.
LEMMA PairedCount ==
    ASSUME RowsKept, IsFiniteSet(AllRows), NEW s \in Strategies
    PROVE  Cardinality({row \in RowsUnder(s) : row.participant \in Whole}) = Cardinality(Whole)
<1> DEFINE X == {row \in RowsUnder(s) : row.participant \in Whole}
           f == [row \in X |-> row.participant]
<1>1. X \in SUBSET AllRows
  BY DEF RowsUnder
<1>2. IsFiniteSet(X)
  BY <1>1, FS_Subset
<1>3. f \in [X -> Whole]
  OBVIOUS
<1>4. \A q, r \in X : f[q] = f[r] => q = r
  <2>1. TAKE q \in X, r \in X
  <2>2. q.strategy = s /\ r.strategy = s
    BY DEF RowsUnder
  <2>3. q = participants[q.participant][q.strategy] /\ r = participants[r.participant][r.strategy]
    BY <1>1, RowPlace
  <2> QED BY <2>2, <2>3
<1>5. \A p \in Whole : \E row \in X : f[row] = p
  <2>1. TAKE p \in Whole
  <2>2. p \in Participants /\ DOMAIN participants[p] = Strategies
    BY RowsOfPlace DEF Whole
  <2>3. PICK row : row = participants[p][s]
    OBVIOUS
  <2>4. row.participant = p /\ row.strategy = s
    BY <2>2, <2>3 DEF RowsKept
  <2>5. row \in AllRows
    BY <2>2, <2>3, RowsOfPlace
  <2>6. row \in X
    BY <2>4, <2>5 DEF RowsUnder
  <2> QED BY <2>4, <2>6
<1> HIDE DEF X, f
<1>6. f \in Bijection(X, Whole)
  BY <1>3, <1>4, <1>5 DEF Bijection, Injection, Surjection, IsInjective
<1>7. ExistsBijection(X, Whole)
  BY <1>6 DEF ExistsBijection
<1>8. Cardinality(X) = Cardinality(Whole)
  BY <1>2, <1>7, FS_Bijection
<1> QED BY <1>8 DEF X

-----------------------------------------------------------------------------
(* Taking a row.                                                           *)

\* The checks leave room for the row: its strategy is new for the participant, its session
\* new for the file.
LEMMA RowFits ==
    ASSUME RowsKept, SessionsKept, NEW row \in Row, Fits(row)
    PROVE  /\ row.participant \in Participants
           /\ row.strategy \notin DOMAIN participants[row.participant]
           /\ \A s \in DOMAIN participants[row.participant] :
                 participants[row.participant][s].order # row.order
           /\ row \notin AllRows
<1> DEFINE p == row.participant
<1>1. p \in Participants
  BY RowFields
<1>2. \A s \in DOMAIN participants[p] :
         participants[p][s].strategy # row.strategy /\ participants[p][s].order # row.order
  BY <1>1, RowsOfPlace DEF Fits
<1>3. row.strategy \notin DOMAIN participants[p]
  BY <1>1, <1>2 DEF RowsKept
<1>4. row \notin AllRows
  BY DEF Fits, SessionsKept
<1> QED BY <1>1, <1>2, <1>3, <1>4

\* The row joins the others.
LEMMA RowJoins ==
    ASSUME RowsKept, SessionsKept, NEW row \in Row, TakeRow(row)
    PROVE  RowsKept' /\ AllRows' = AllRows \cup {row}
<1> DEFINE p == row.participant
           s0 == row.strategy
           D == DOMAIN participants[p]
           new == [s \in D \cup {s0} |-> IF s = s0 THEN row ELSE participants[p][s]]
<1>1. Fits(row) /\ participants' = [participants EXCEPT ![p] = new]
  BY DEF TakeRow
<1>2. p \in Participants /\ s0 \notin D /\ s0 \in Strategies
  BY <1>1, RowFits, RowFields
<1>3. \A s \in D : participants[p][s].order # row.order
  BY <1>1, RowFits
<1>4. DOMAIN participants = Participants
  BY DEF RowsKept
<1>5. /\ DOMAIN participants' = Participants
      /\ participants'[p] = new
      /\ \A q \in Participants : q # p => participants'[q] = participants[q]
  <2> HIDE DEF new, p
  <2> QED BY <1>1, <1>2, <1>4
<1>6. /\ DOMAIN new = D \cup {s0}
      /\ new[s0] = row
      /\ \A s \in D : new[s] = participants[p][s]
  BY <1>2
<1> HIDE DEF new
<1>7. RowsKept'
  <2>1. ASSUME NEW q \in Participants
        PROVE  /\ DOMAIN participants'[q] \subseteq Strategies
               /\ \A s \in DOMAIN participants'[q] :
                     /\ participants'[q][s] \in Row
                     /\ participants'[q][s].participant = q
                     /\ participants'[q][s].strategy = s
               /\ \A s, u \in DOMAIN participants'[q] :
                     participants'[q][s].order = participants'[q][u].order => s = u
    <3>1. CASE q # p
      BY <1>5, <3>1 DEF RowsKept
    <3>2. CASE q = p
      <4>1. D \subseteq Strategies
        BY <1>2 DEF RowsKept
      <4>2. \A s \in D : /\ participants[p][s] \in Row
                         /\ participants[p][s].participant = p
                         /\ participants[p][s].strategy = s
        BY <1>2 DEF RowsKept
      <4>3. \A s, u \in D : participants[p][s].order = participants[p][u].order => s = u
        BY <1>2 DEF RowsKept
      <4>4. participants'[q] = new
        BY <1>5, <3>2
      <4>5. \A s \in D \cup {s0} :
               new[s] \in Row /\ new[s].participant = p /\ new[s].strategy = s
        BY <1>6, <4>2
      <4>6. \A s, u \in D \cup {s0} : new[s].order = new[u].order => s = u
        BY <1>3, <1>6, <4>3
      <4> QED BY <1>2, <1>6, <3>2, <4>1, <4>4, <4>5, <4>6
    <3> QED BY <3>1, <3>2
  <2> QED BY <1>5, <2>1 DEF RowsKept
<1>8. \A q \in Participants :
         RowsOf(q)' = RowsOf(q) \cup (IF q = p THEN {row} ELSE {})
  <2>1. TAKE q \in Participants
  <2>2. CASE q # p
    BY <1>5, <2>2 DEF RowsOf
  <2>3. CASE q = p
    <3>1. RowsOf(q)' = {new[s] : s \in D \cup {s0}}
      BY <1>5, <1>6, <2>3 DEF RowsOf, Range
    <3>2. RowsOf(q) = {participants[p][s] : s \in D}
      BY <2>3 DEF RowsOf, Range
    <3> QED BY <1>6, <2>3, <3>1, <3>2
  <2> QED BY <2>2, <2>3
<1>9. AllRows' = AllRows \cup {row}
  <2>1. AllRows' = UNION {RowsOf(q)' : q \in Participants}
    BY DEF AllRows
  <2>2. AllRows = UNION {RowsOf(q) : q \in Participants}
    BY DEF AllRows
  <2>3. \A r : r \in AllRows' <=> \E q \in Participants : r \in RowsOf(q)'
    BY <2>1
  <2>4. \A r : r \in AllRows <=> \E q \in Participants : r \in RowsOf(q)
    BY <2>2
  <2>5. \A r : r \in AllRows' <=> r \in AllRows \/ r = row
    BY <1>2, <1>8, <2>3, <2>4
  <2> QED BY <2>5
<1> QED BY <1>7, <1>9

\* The session IDs and the cohort go with the rows.
LEMMA SessionJoins ==
    ASSUME RowsKept, SessionsKept, NEW row \in Row, TakeRow(row)
    PROVE  SessionsKept'
<1>1. AllRows' = AllRows \cup {row}
  BY RowJoins
<1>2. Fits(row) /\ cohort' = row.synthetic /\ sessions' = sessions \cup {row.session}
  BY DEF TakeRow
<1>3. IsFiniteSet(AllRows)'
  <2>1. IsFiniteSet(AllRows \cup {row})
    BY FS_AddElement DEF SessionsKept
  <2> QED BY <1>1, <2>1
<1>4. sessions' = {r.session : r \in AllRows'}
  BY <1>1, <1>2 DEF SessionsKept
<1>5. \A q, r \in AllRows' : q.session = r.session => q = r
  <2>1. row.session \notin {r.session : r \in AllRows}
    BY <1>2 DEF Fits, SessionsKept
  <2>2. \A q, r \in AllRows : q.session = r.session => q = r
    BY DEF SessionsKept
  <2> QED BY <1>1, <2>1, <2>2
<1>6. \A r \in AllRows' : r.synthetic = cohort'
  <2>1. cohort \in {None, row.synthetic}
    BY <1>2 DEF Fits
  <2>2. \A r \in AllRows : r.synthetic = cohort
    BY DEF SessionsKept
  <2>3. cohort = None => AllRows = {}
    BY DEF SessionsKept
  <2> QED BY <1>1, <1>2, <2>1, <2>2, <2>3
<1>7. cohort' # None
  <2>1. row.synthetic \in BOOLEAN
    BY RowFields
  <2>2. None \notin BOOLEAN
    BY StudyAssumption
  <2> QED BY <1>2, <2>1, <2>2
<1> QED BY <1>3, <1>4, <1>5, <1>6, <1>7 DEF SessionsKept

\* Rows under a strategy are rows of the file, finitely many.
LEMMA UnderFinite ==
    ASSUME RowsKept, SessionsKept, NEW s
    PROVE  RowsUnder(s) \in SUBSET Row /\ IsFiniteSet(RowsUnder(s))
<1>1. RowsUnder(s) \in SUBSET AllRows
  BY DEF RowsUnder
<1>2. AllRows \subseteq Row
  BY RowPlace
<1> QED BY <1>1, <1>2, FS_Subset DEF SessionsKept

\* The running summaries and the counts by order take the row as well.
LEMMA CountJoins ==
    ASSUME RowsKept, SessionsKept, CountsKept, NEW row \in Row, TakeRow(row)
    PROVE  CountsKept'
<1> DEFINE s0 == row.strategy
           At(s, o) == {r \in RowsUnder(s) : r.order = o}
<1>1. AllRows' = AllRows \cup {row} /\ row \notin AllRows
  <2>1. Fits(row)
    BY DEF TakeRow
  <2> QED BY <2>1, RowJoins, RowFits
<1>2. /\ byStrategy' = [byStrategy EXCEPT ![s0] = AddRow(byStrategy[s0], row)]
      /\ orderCounts' = [orderCounts EXCEPT ![s0][row.order] = orderCounts[s0][row.order] + 1]
  BY DEF TakeRow
<1>3. s0 \in Strategies /\ row.order \in Orders
  BY RowFields
<1>4. /\ RowsUnder(s0)' = RowsUnder(s0) \cup {row}
      /\ row \notin RowsUnder(s0)
      /\ \A s \in Strategies : s # s0 => RowsUnder(s)' = RowsUnder(s)
  BY <1>1 DEF RowsUnder
<1>5. byStrategy' = [s \in Strategies |-> SummaryOf(RowsUnder(s)')]
  <2>1. byStrategy = [s \in Strategies |-> SummaryOf(RowsUnder(s))]
    BY DEF CountsKept
  <2>2. SummaryOf(RowsUnder(s0) \cup {row}) = AddRow(SummaryOf(RowsUnder(s0)), row)
    <3>1. RowsUnder(s0) \in SUBSET Row /\ IsFiniteSet(RowsUnder(s0))
      BY UnderFinite
    <3> QED BY <1>4, <3>1, SummaryAdd
  <2>3. SummaryOf(RowsUnder(s0)') = AddRow(byStrategy[s0], row)
    BY <1>3, <1>4, <2>1, <2>2
  <2>4. \A s \in Strategies : s # s0 => SummaryOf(RowsUnder(s)') = byStrategy[s]
    BY <1>4, <2>1
  <2>5. DOMAIN byStrategy = Strategies
    BY <2>1
  <2>6. byStrategy' = [s \in Strategies |->
                          IF s = s0 THEN AddRow(byStrategy[s0], row) ELSE byStrategy[s]]
    BY <1>2, <2>5
  <2> QED BY <2>3, <2>4, <2>6
<1>6. orderCounts' = [s \in Strategies |->
                         [o \in Orders |-> Cardinality({r \in RowsUnder(s)' : r.order = o})]]
  <2> DEFINE Of(s) == [o \in Orders |-> Cardinality(At(s, o))]
             OfNew(s) == [o \in Orders |-> Cardinality({r \in RowsUnder(s)' : r.order = o})]
  <2>1. orderCounts = [s \in Strategies |-> Of(s)]
    BY DEF CountsKept
  <2>2. \A s \in Strategies : s # s0 => OfNew(s) = Of(s)
    BY <1>4
  <2>3. OfNew(s0) = [Of(s0) EXCEPT ![row.order] = Of(s0)[row.order] + 1]
    <3>1. \A o \in Orders : o # row.order => {r \in RowsUnder(s0)' : r.order = o} = At(s0, o)
      BY <1>4
    <3>2. {r \in RowsUnder(s0)' : r.order = row.order} = At(s0, row.order) \cup {row}
      BY <1>4
    <3>3. Cardinality(At(s0, row.order) \cup {row}) = Cardinality(At(s0, row.order)) + 1
      <4>1. IsFiniteSet(RowsUnder(s0))
        BY UnderFinite
      <4>2. IsFiniteSet(At(s0, row.order)) /\ row \notin At(s0, row.order)
        BY <1>4, <4>1, FS_Subset
      <4> HIDE DEF At
      <4> QED BY <4>2, FS_AddElement
    <3> HIDE DEF At
    <3>4. \A o \in Orders : OfNew(s0)[o] =
             IF o = row.order THEN Of(s0)[row.order] + 1 ELSE Of(s0)[o]
      BY <1>3, <3>1, <3>2, <3>3
    <3>5. [Of(s0) EXCEPT ![row.order] = Of(s0)[row.order] + 1] =
             [o \in Orders |-> IF o = row.order THEN Of(s0)[row.order] + 1 ELSE Of(s0)[o]]
      OBVIOUS
    <3>6. OfNew(s0) = [o \in Orders |-> OfNew(s0)[o]]
      OBVIOUS
    <3> HIDE DEF Of, OfNew
    <3> QED BY <3>4, <3>5, <3>6
  <2> HIDE DEF Of, OfNew
  <2>4. orderCounts' = [orderCounts EXCEPT
                          ![s0] = [orderCounts[s0] EXCEPT ![row.order] = orderCounts[s0][row.order] + 1]]
    BY <1>2
  <2>5. DOMAIN orderCounts = Strategies /\ orderCounts[s0] = Of(s0)
    BY <1>3, <2>1
  <2>6. orderCounts' = [s \in Strategies |-> IF s = s0 THEN OfNew(s0) ELSE Of(s)]
    BY <2>1, <2>3, <2>4, <2>5
  <2>7. orderCounts' = [s \in Strategies |-> OfNew(s)]
    BY <2>2, <2>6
  <2> QED BY <2>7 DEF OfNew
<1> QED BY <1>5, <1>6 DEF CountsKept

-----------------------------------------------------------------------------
(* The report.                                                             *)

\* What the analysis kept while it read makes the report add up.
LEMMA ReportSound ==
    ASSUME RowsKept, SessionsKept, CountsKept, Report
    PROVE  ReportAddsUp'
<1>1. /\ participants' = participants /\ sessions' = sessions
      /\ byStrategy' = byStrategy /\ orderCounts' = orderCounts
      /\ triplets' = Cardinality(CompleteParticipants)
      /\ complete' = [s \in Strategies |->
            FoldSet(LAMBDA row, sum : AddRow(sum, row), NoRows,
                    {row \in UNION {RowsOf(p) : p \in CompleteParticipants} : row.strategy = s})]
  BY DEF Report
<1>2. AllRows' = AllRows /\ Whole' = Whole /\ \A p \in Participants : RowsOf(p)' = RowsOf(p)
  BY <1>1 DEF AllRows, Whole, RowsOf
<1>3. \A s \in Strategies : RowsUnder(s)' = RowsUnder(s)
  BY <1>2 DEF RowsUnder
<1>4. CompleteParticipants = Whole
  BY CompleteIsWhole DEF CompleteParticipants, Whole
<1> DEFINE Paired(s) == {row \in RowsUnder(s) : row.participant \in Whole}
<1>5. ASSUME NEW s \in Strategies
      PROVE  complete'[s] = SummaryOf(Paired(s)) /\ Cardinality(Paired(s)) = Cardinality(Whole)
  <2>1. {row \in UNION {RowsOf(p) : p \in Whole} : row.strategy = s} = Paired(s)
    <3>1. ASSUME NEW row \in UNION {RowsOf(p) : p \in Whole}, row.strategy = s
          PROVE  row \in Paired(s)
      <4>1. PICK p \in Whole : row \in RowsOf(p)
        BY <3>1
      <4>2. p \in Participants /\ row \in AllRows
        BY <4>1 DEF Whole, AllRows
      <4>3. row.participant = p
        BY <4>1, <4>2 DEF RowsOf, Range, RowsKept
      <4> QED BY <3>1, <4>1, <4>2, <4>3 DEF RowsUnder
    <3>2. ASSUME NEW row \in Paired(s)
          PROVE  row \in UNION {RowsOf(p) : p \in Whole} /\ row.strategy = s
      <4>1. row \in AllRows /\ row.strategy = s /\ row.participant \in Whole
        BY DEF RowsUnder
      <4>2. row \in RowsOf(row.participant)
        BY <4>1, RowPlace
      <4> QED BY <4>1, <4>2
    <3> QED BY <3>1, <3>2
  <2>2. Paired(s) \in SUBSET Row /\ IsFiniteSet(Paired(s))
    <3>1. RowsUnder(s) \in SUBSET Row /\ IsFiniteSet(RowsUnder(s))
      BY UnderFinite
    <3>2. Paired(s) \in SUBSET RowsUnder(s)
      OBVIOUS
    <3> HIDE DEF Paired
    <3> QED BY <3>1, <3>2, FS_Subset
  <2>3. Cardinality(Paired(s)) = Cardinality(Whole)
    BY PairedCount DEF SessionsKept
  <2> HIDE DEF Paired
  <2>4. FoldSet(LAMBDA row, sum : AddRow(sum, row), NoRows, Paired(s)) = SummaryOf(Paired(s))
    BY <2>2, FoldIsSummary
  <2>5. complete'[s] = FoldSet(LAMBDA row, sum : AddRow(sum, row), NoRows, Paired(s))
    BY <1>1, <1>4, <2>1, Zenon
  <2> QED BY <2>3, <2>4, <2>5
<1>6. Cardinality(AllRows) = Cardinality(sessions)
  <2> DEFINE f == [r \in AllRows |-> r.session]
  <2>1. f \in [AllRows -> sessions] /\ \A i \in sessions : \E r \in AllRows : f[r] = i
    BY DEF SessionsKept
  <2>2. \A q, r \in AllRows : f[q] = f[r] => q = r
    BY DEF SessionsKept
  <2> HIDE DEF f
  <2>3. f \in Bijection(AllRows, sessions)
    BY <2>1, <2>2 DEF Bijection, Injection, Surjection, IsInjective
  <2>4. ExistsBijection(AllRows, sessions) /\ IsFiniteSet(AllRows)
    BY <2>3 DEF ExistsBijection, SessionsKept
  <2> QED BY <2>4, FS_Bijection
<1>7. \A s \in Strategies :
         /\ byStrategy[s] = SummaryOf(RowsUnder(s))
         /\ \A o \in Orders : orderCounts[s][o] = Cardinality({row \in RowsUnder(s) : row.order = o})
  BY DEF CountsKept
<1>8. \A s \in Strategies : complete'[s].sessions = Cardinality(Whole)
  <2>1. TAKE s \in Strategies
  <2>2. SummaryOf(Paired(s)).sessions = Cardinality(Paired(s))
    BY DEF SummaryOf
  <2> HIDE DEF Paired
  <2> QED BY <1>5, <2>2
<1>9. \A p \in Whole : {row.order : row \in RowsOf(p)} = Orders
  BY CompleteIsWhole DEF Whole
<1>10. \A q, r \in AllRows : q.synthetic = r.synthetic
  BY DEF SessionsKept
<1>11. \A p \in Whole' : {row.order : row \in RowsOf(p)'} = Orders
  BY <1>2, <1>9 DEF Whole
<1>12. /\ Cardinality(AllRows') = Cardinality(sessions')
       /\ triplets' = Cardinality(Whole')
       /\ \A q, r \in AllRows' : q.synthetic = r.synthetic
  BY <1>1, <1>2, <1>4, <1>6, <1>10
<1>13. ASSUME NEW s \in Strategies
       PROVE  /\ byStrategy'[s] = SummaryOf(RowsUnder(s)')
              /\ \A o \in Orders :
                    orderCounts'[s][o] = Cardinality({row \in RowsUnder(s)' : row.order = o})
              /\ complete'[s] = SummaryOf({row \in RowsUnder(s)' : row.participant \in Whole'})
              /\ complete'[s].sessions = triplets'
  <2>1. RowsUnder(s)' = RowsUnder(s) /\ Whole' = Whole
    BY <1>2, <1>3
  <2>2. {row \in RowsUnder(s)' : row.participant \in Whole'} = Paired(s)
    BY <2>1
  <2> HIDE DEF Paired
  <2> QED BY <1>1, <1>4, <1>5, <1>7, <1>8, <2>1, <2>2
<1> QED BY <1>11, <1>12, <1>13 DEF ReportAddsUp

-----------------------------------------------------------------------------
(* The theorems.                                                           *)

\* What the properties say of the rows depends on participants alone.
LEMMA RowsUnchanged ==
    ASSUME UNCHANGED participants
    PROVE  /\ \A p \in Participants : RowsOf(p)' = RowsOf(p)
           /\ AllRows' = AllRows /\ Whole' = Whole
           /\ \A s \in Strategies : RowsUnder(s)' = RowsUnder(s)
<1>1. \A p \in Participants : RowsOf(p)' = RowsOf(p)
  BY DEF RowsOf
<1>2. AllRows' = AllRows /\ Whole' = Whole
  BY <1>1 DEF AllRows, Whole
<1> QED BY <1>1, <1>2 DEF RowsUnder

\* What is kept while reading depends on what only a new row changes.
LEMMA KeptUnchanged ==
    ASSUME RowsKept, SessionsKept, CountsKept,
           UNCHANGED <<participants, sessions, cohort, byStrategy, orderCounts>>
    PROVE  RowsKept' /\ SessionsKept' /\ CountsKept'
<1>1. /\ participants' = participants /\ sessions' = sessions /\ cohort' = cohort
      /\ byStrategy' = byStrategy /\ orderCounts' = orderCounts
  OBVIOUS
<1>2. AllRows' = AllRows /\ \A s \in Strategies : RowsUnder(s)' = RowsUnder(s)
  BY <1>1, RowsUnchanged
<1>3. RowsKept'
  BY <1>1 DEF RowsKept
<1>4. SessionsKept'
  BY <1>1, <1>2 DEF SessionsKept
<1>5. CountsKept'
  <2>1. byStrategy' = [s \in Strategies |-> SummaryOf(RowsUnder(s)')]
    BY <1>1, <1>2 DEF CountsKept
  <2>2. orderCounts' = [s \in Strategies |->
                           [o \in Orders |-> Cardinality({row \in RowsUnder(s)' : row.order = o})]]
    BY <1>1, <1>2 DEF CountsKept
  <2> QED BY <2>1, <2>2 DEF CountsKept
<1> QED BY <1>3, <1>4, <1>5

LEMMA InitSound == Init => IInv
<1> SUFFICES ASSUME Init PROVE IInv
  OBVIOUS
<1>1. participants = [p \in Participants |-> <<>>] /\ DOMAIN <<>> = {}
  BY DEF Init
<1>2. RowsKept
  BY <1>1 DEF RowsKept
<1>3. \A p \in Participants : RowsOf(p) = {}
  BY <1>1 DEF RowsOf, Range
<1>4. AllRows = {}
  BY <1>3 DEF AllRows
<1>5. IsFiniteSet({}) /\ Cardinality({}) = 0
  BY FS_EmptySet
<1>6. SessionsKept
  BY <1>4, <1>5 DEF Init, SessionsKept
<1>7. \A s \in Strategies : RowsUnder(s) = {}
  BY <1>4 DEF RowsUnder
<1>8. CountsKept
  <2>1. byStrategy = [s \in Strategies |-> SummaryOf(RowsUnder(s))]
    BY <1>7, SummaryEmpty DEF Init
  <2>2. \A s \in Strategies, o \in Orders : {row \in RowsUnder(s) : row.order = o} = {}
    BY <1>7
  <2>3. \A s \in Strategies, o \in Orders : Cardinality({row \in RowsUnder(s) : row.order = o}) = 0
    BY <1>5, <2>2
  <2>4. orderCounts = [s \in Strategies |-> [o \in Orders |-> 0]]
    BY DEF Init
  <2> QED BY <2>1, <2>3, <2>4 DEF CountsKept
<1>9. ReportAddsUp
  BY DEF Init, ReportAddsUp
<1> QED BY <1>2, <1>6, <1>8, <1>9 DEF IInv

LEMMA StepSound == IInv /\ [Next]_vars => IInv'
<1> SUFFICES ASSUME IInv, [Next]_vars PROVE IInv'
  OBVIOUS
<1>0. RowsKept /\ SessionsKept /\ CountsKept /\ ReportAddsUp
  BY DEF IInv
<1>1. ASSUME NEW row \in Row, TakeRow(row) PROVE IInv'
  <2>1. RowsKept' /\ SessionsKept' /\ CountsKept'
    BY <1>0, <1>1, RowJoins, SessionJoins, CountJoins
  <2>2. ReportAddsUp'
    BY <1>1 DEF TakeRow, ReportAddsUp
  <2> QED BY <2>1, <2>2 DEF IInv
<1>2. CASE Refuse \/ Report
  <2>1. UNCHANGED <<participants, sessions, cohort, byStrategy, orderCounts>>
    BY <1>2 DEF Refuse, Report
  <2>2. RowsKept' /\ SessionsKept' /\ CountsKept'
    BY <1>0, <2>1, KeptUnchanged
  <2>3. ReportAddsUp'
    <3>1. CASE Refuse
      BY <3>1 DEF Refuse, ReportAddsUp
    <3>2. CASE Report
      BY <1>0, <3>2, ReportSound
    <3> QED BY <1>2, <3>1, <3>2
  <2> QED BY <2>2, <2>3 DEF IInv
<1>3. CASE UNCHANGED vars
  <2>1. RowsKept' /\ SessionsKept' /\ CountsKept'
    BY <1>0, <1>3, KeptUnchanged DEF vars
  <2>2. ReportAddsUp'
    <3>1. /\ AllRows' = AllRows /\ Whole' = Whole
          /\ \A s \in Strategies : RowsUnder(s)' = RowsUnder(s)
          /\ \A p \in Participants : RowsOf(p)' = RowsOf(p)
      BY <1>3, RowsUnchanged DEF vars
    <3>2. /\ stage' = stage /\ sessions' = sessions /\ byStrategy' = byStrategy
          /\ orderCounts' = orderCounts /\ complete' = complete /\ triplets' = triplets
      BY <1>3 DEF vars
    <3>3. \A p \in Whole : p \in Participants
      BY DEF Whole
    <3> SUFFICES ASSUME stage = "report"
                 PROVE  /\ Cardinality(AllRows') = Cardinality(sessions')
                        /\ \A s \in Strategies :
                              /\ byStrategy'[s] = SummaryOf(RowsUnder(s)')
                              /\ \A o \in Orders : orderCounts'[s][o] =
                                    Cardinality({row \in RowsUnder(s)' : row.order = o})
                              /\ complete'[s] =
                                    SummaryOf({row \in RowsUnder(s)' : row.participant \in Whole'})
                              /\ complete'[s].sessions = triplets'
                        /\ triplets' = Cardinality(Whole')
                        /\ \A p \in Whole' : {row.order : row \in RowsOf(p)'} = Orders
                        /\ \A q, r \in AllRows' : q.synthetic = r.synthetic
      BY <3>2 DEF ReportAddsUp
    <3> QED BY <1>0, <3>1, <3>2, <3>3 DEF ReportAddsUp
  <2> QED BY <2>1, <2>2 DEF IInv
<1> QED BY <1>1, <1>2, <1>3 DEF Next

\* The invariant holds in every state of the analysis, whatever the file.
THEOREM Invariance == Spec => []IInv
<1> QED BY InitSound, StepSound, PTL DEF Spec

\* The report of study.go accounts for every row once and pairs the same participants under
\* every strategy, whatever the file, the order of its rows and the dropouts.
THEOREM ReportCorrect == Spec => []ReportAddsUp
<1>1. IInv => ReportAddsUp
  BY DEF IInv
<1> QED BY <1>1, Invariance, PTL
=============================================================================

--------------------------- MODULE StudyAnalysis ---------------------------
(***************************************************************************)
(* The study report (internal/evaluation/study.go): AnalyzeStudy reads a   *)
(* file row by row, adds each row to running summaries, and at the end     *)
(* builds the paired summaries of the participants who did all strategies. *)
(*                                                                         *)
(* A row has one rating and one mood change for the two of each kind, and  *)
(* one bit for the checks that look at the row alone: identifiers,         *)
(* consent, ranges, moods that come in pairs.                              *)
(***************************************************************************)
EXTENDS Integers, FiniteSetsExt, Functions

CONSTANTS
    Participants,
    Sessions,       \* session IDs
    Ratings,
    Changes,        \* mood changes reported
    None,           \* no mood reported
    MaxRows         \* bound: rows of the file

Strategies == {"popularity", "taste", "drift"}
Orders == 1..3

ASSUME StudyAssumption ==
    /\ Ratings \subseteq 1..5
    /\ Changes \subseteq Int
    /\ None \notin Changes /\ None \notin BOOLEAN
    /\ MaxRows \in Nat

Row == [participant : Participants, session : Sessions, strategy : Strategies, order : Orders,
        synthetic : BOOLEAN, rating : Ratings, change : Changes \cup {None}]
Summary == [sessions : Nat, rating : Nat, moodPairs : Nat, change : Int]
NoRows == [sessions |-> 0, rating |-> 0, moodPairs |-> 0, change |-> 0]

VARIABLES
    participants,   \* per participant the rows taken, by strategy
    sessions,       \* the session IDs taken
    cohort,         \* whether the rows are synthetic, None before the first
    byStrategy,     \* sums over all rows, by strategy
    orderCounts,    \* rows by strategy and order
    triplets,       \* CompleteTriplets
    complete,       \* CompleteByStrategy: sums over the rows of complete participants
    stage           \* "reading", then "report" or "refused"

vars == <<participants, sessions, cohort, byStrategy, orderCounts, triplets, complete, stage>>

RowsOf(p) == Range(participants[p])
AllRows == UNION {RowsOf(p) : p \in Participants}

AddRow(sum, row) ==
    [sessions |-> sum.sessions + 1,
     rating |-> sum.rating + row.rating,
     moodPairs |-> sum.moodPairs + (IF row.change = None THEN 0 ELSE 1),
     change |-> sum.change + (IF row.change = None THEN 0 ELSE row.change)]

\* Mutant: a participant may have two rows of one order.
FitsByStrategy(row) ==
    /\ row.session \notin sessions
    /\ cohort \in {None, row.synthetic}
    /\ row.strategy \notin DOMAIN participants[row.participant]

\* The checks of a row against those before it: no session twice, one cohort, and no
\* strategy or order twice for a participant.
Fits(row) ==
    /\ row.session \notin sessions
    /\ cohort \in {None, row.synthetic}
    /\ \A prior \in RowsOf(row.participant) :
          prior.strategy # row.strategy /\ prior.order # row.order

Init ==
    /\ participants = [p \in Participants |-> <<>>]
    /\ sessions = {}
    /\ cohort = None
    /\ byStrategy = [s \in Strategies |-> NoRows]
    /\ orderCounts = [s \in Strategies |-> [o \in Orders |-> 0]]
    /\ triplets = 0
    /\ complete = [s \in Strategies |-> NoRows]
    /\ stage = "reading"

TakeRow(row) ==
    /\ stage = "reading"
    /\ Cardinality(sessions) < MaxRows
    /\ Fits(row)
    /\ cohort' = row.synthetic
    /\ participants' = [participants EXCEPT
          ![row.participant] = [s \in DOMAIN @ \cup {row.strategy} |->
                                   IF s = row.strategy THEN row ELSE @[s]]]
    /\ sessions' = sessions \cup {row.session}
    /\ byStrategy' = [byStrategy EXCEPT ![row.strategy] = AddRow(@, row)]
    /\ orderCounts' = [orderCounts EXCEPT ![row.strategy][row.order] = @ + 1]
    /\ UNCHANGED <<triplets, complete, stage>>

\* A row that fails a check, or none at all, ends the analysis without a report.
Refuse ==
    /\ stage = "reading"
    /\ stage' = "refused"
    /\ UNCHANGED <<participants, sessions, cohort, byStrategy, orderCounts, triplets, complete>>

\* The participants with three rows, and each of their rows under its strategy.
CompleteParticipants == {p \in Participants : Cardinality(RowsOf(p)) = 3}
Report ==
    /\ stage = "reading"
    /\ sessions # {}
    /\ triplets' = Cardinality(CompleteParticipants)
    /\ complete' = [s \in Strategies |->
          FoldSet(LAMBDA row, sum : AddRow(sum, row), NoRows,
                  {row \in UNION {RowsOf(p) : p \in CompleteParticipants} : row.strategy = s})]
    /\ stage' = "report"
    /\ UNCHANGED <<participants, sessions, cohort, byStrategy, orderCounts>>

Next == (\E row \in Row : TakeRow(row)) \/ Refuse \/ Report

Spec == Init /\ [][Next]_vars

-----------------------------------------------------------------------------
(* Properties.                                                             *)

RatingOf == [row \in Row |-> row.rating]
ChangeOf == [row \in Row |-> IF row.change = None THEN 0 ELSE row.change]

\* What a summary of a set of rows has to say.
SummaryOf(rows) ==
    [sessions |-> Cardinality(rows),
     rating |-> SumFunctionOnSet(RatingOf, rows),
     moodPairs |-> Cardinality({row \in rows : row.change # None}),
     change |-> SumFunctionOnSet(ChangeOf, rows)]

RowsUnder(s) == {row \in AllRows : row.strategy = s}

\* The participants who did all strategies.
Whole == {p \in Participants : {row.strategy : row \in RowsOf(p)} = Strategies}

\* The report accounts for every row once: the summaries by strategy are those of the rows,
\* as are the counts by order; the paired summaries compare like with like, the same
\* participants under every strategy; and these participants met every order once, so that
\* the pairing is balanced however the rows came and whoever dropped out.
ReportAddsUp ==
    stage = "report" =>
        /\ Cardinality(AllRows) = Cardinality(sessions)
        /\ \A s \in Strategies :
              /\ byStrategy[s] = SummaryOf(RowsUnder(s))
              /\ \A o \in Orders :
                    orderCounts[s][o] = Cardinality({row \in RowsUnder(s) : row.order = o})
              /\ complete[s] = SummaryOf({row \in RowsUnder(s) : row.participant \in Whole})
              /\ complete[s].sessions = triplets
        /\ triplets = Cardinality(Whole)
        /\ \A p \in Whole : {row.order : row \in RowsOf(p)} = Orders
        /\ \A q, r \in AllRows : q.synthetic = r.synthetic

-----------------------------------------------------------------------------
(* The inductive invariant.                                                *)

\* Every row is kept under its participant and strategy, no order twice.
RowsKept ==
    /\ DOMAIN participants = Participants
    /\ \A p \in Participants :
          /\ DOMAIN participants[p] \subseteq Strategies
          /\ \A s \in DOMAIN participants[p] :
                /\ participants[p][s] \in Row
                /\ participants[p][s].participant = p
                /\ participants[p][s].strategy = s
          /\ \A s, u \in DOMAIN participants[p] :
                participants[p][s].order = participants[p][u].order => s = u

\* The session IDs are those of the rows, one each; the rows are of one cohort.
SessionsKept ==
    /\ IsFiniteSet(AllRows)
    /\ sessions = {row.session : row \in AllRows}
    /\ \A q, r \in AllRows : q.session = r.session => q = r
    /\ \A r \in AllRows : r.synthetic = cohort
    /\ cohort = None => AllRows = {}

\* The running summaries are those of the rows so far.
CountsKept ==
    /\ byStrategy = [s \in Strategies |-> SummaryOf(RowsUnder(s))]
    /\ orderCounts = [s \in Strategies |->
                         [o \in Orders |-> Cardinality({row \in RowsUnder(s) : row.order = o})]]

IInv == RowsKept /\ SessionsKept /\ CountsKept /\ ReportAddsUp
=============================================================================

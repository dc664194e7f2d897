----------------------------- MODULE BeamSearch -----------------------------
(***************************************************************************)
(* The sequence planner (internal/sequence/sequence.go): Build extends the *)
(* beam, its best partial sequences, by one track per slot of the queue.   *)
(*                                                                         *)
(* Moods lie on the diagonal of the mood plane, in tenths, where their     *)
(* distance is the difference of one coordinate.  Scores are exact, in     *)
(* thousandths times the steps of the path, so the tolerance of the sort   *)
(* (1e-12) plays no part.                                                  *)
(***************************************************************************)
EXTENDS Integers, Sequences, Functions, FiniteSetsExt

CONSTANTS
    Tracks,         \* track IDs, numbered in the order of the sort's keys
    Genres,
    Catalogs,       \* genre, mood and taste score (tenths) of every track
    Requests,       \* mood to start from, mood to reach, tracks wanted, tracks excluded
    Width           \* beamWidth

Moods == 0..10

ASSUME BeamAssumption ==
    /\ Tracks \subseteq Nat /\ IsFiniteSet(Tracks)
    /\ Width \in Nat \ {0}
    /\ Catalogs \subseteq [Tracks -> [genre : Genres, mood : Moods, taste : 0..10]]
    /\ \A r \in Requests : r \in [start : Moods, target : Moods, count : 1..20,
                                  excluded : SUBSET Tracks]

VARIABLES
    tracks,         \* the catalog
    req,
    beam,           \* partial sequences: the tracks and their total score
    slot,           \* slots filled
    pruned,         \* history: some partial sequence was dropped
    stage           \* "start", "search", then "done" or "refused"

vars == <<tracks, req, beam, slot, pruned, stage>>

Pool == Tracks \ req.excluded

Gap(m, n) == IF m > n THEN m - n ELSE n - m
Steps == Max({1, req.count - 1})
Used(path) == Range(path)

-----------------------------------------------------------------------------
(* The score of a track in a slot, times Steps.                            *)

\* PathPoint, times Steps: the start for a single track, else a straight line.
PathPoint(position) == (Steps - position) * req.start + position * req.target

\* Mutant: the second track of a genre is already penalised.
TwoGenreRepeat(path, genre) ==
    Len(path) >= 1 /\ tracks[path[Len(path)]].genre = genre

ThreeGenreRepeat(path, genre) ==
    /\ Len(path) >= 2
    /\ tracks[path[Len(path)]].genre = genre
    /\ tracks[path[Len(path) - 1]].genre = genre

Transition(path, t) ==
    IF path = <<>> THEN 0 ELSE Gap(tracks[path[Len(path)]].mood, tracks[t].mood)

ScoreSlot(path, t) ==
    Steps * (40 * tracks[t].taste + 500 - 8 * Transition(path, t)
             - (IF ThreeGenreRepeat(path, tracks[t].genre) THEN 30 ELSE 0))
    - 50 * Gap(PathPoint(Len(path)), Steps * tracks[t].mood)

-----------------------------------------------------------------------------
(* The beam.                                                               *)

\* The order of the sort: the higher total, then the lesser key.
KeyBefore(p, q) == \E i \in DOMAIN p : p[i] < q[i] /\ \A j \in 1..(i - 1) : p[j] = q[j]
Before(a, b) == a.total > b.total \/ (a.total = b.total /\ KeyBefore(a.path, b.path))

Keep(next) == {a \in next : Cardinality({b \in next : Before(b, a)}) < Width}

Extensions ==
    UNION {{[path |-> Append(a.path, t), total |-> a.total + ScoreSlot(a.path, t)] :
            t \in Pool \ Used(a.path)} : a \in beam}

\* Mutant: the excluded tracks are counted too.
EnoughInCatalog == req.count <= Cardinality(Tracks)

Enough == req.count <= Cardinality(Pool)

Init ==
    /\ tracks \in Catalogs
    /\ req \in Requests
    /\ beam = {[path |-> <<>>, total |-> 0]}
    /\ slot = 0
    /\ pruned = FALSE
    /\ stage = "start"

\* Ranking refuses an empty pool, Build one that is too small.
Start ==
    /\ stage = "start"
    /\ stage' = IF Pool # {} /\ Enough THEN "search" ELSE "refused"
    /\ UNCHANGED <<tracks, req, beam, slot, pruned>>

FillSlot ==
    /\ stage = "search"
    /\ slot < req.count
    /\ beam' = Keep(Extensions)
    /\ slot' = slot + 1
    /\ pruned' = (pruned \/ beam' # Extensions)
    /\ UNCHANGED <<tracks, req, stage>>

Finish ==
    /\ stage = "search"
    /\ slot = req.count
    /\ stage' = "done"
    /\ UNCHANGED <<tracks, req, beam, slot, pruned>>

Selected == CHOOSE a \in beam : \A b \in beam : a = b \/ Before(a, b)

Next == Start \/ FillSlot \/ Finish

Spec == Init /\ [][Next]_vars

-----------------------------------------------------------------------------
(* Properties.                                                             *)

\* However narrow the beam and whatever was excluded, a search that was let in never runs
\* out of partial sequences, holds no more than its width, and every one of them has the
\* slots filled so far with different tracks of the pool.
NeverStarves ==
    stage # "refused" =>
        /\ beam # {} /\ Cardinality(beam) <= Width
        /\ \A a \in beam :
              Len(a.path) = slot /\ Used(a.path) \subseteq Pool /\ IsInjective(a.path)

\* The score of a whole queue, term by term over its slots.
Tastes(q) == [i \in 1..Len(q) |-> tracks[q[i]].taste]
Jumps(q) == [i \in 2..Len(q) |-> Gap(tracks[q[i - 1]].mood, tracks[q[i]].mood)]
Repeats(q) ==
    {i \in 3..Len(q) : tracks[q[i]].genre = tracks[q[i - 1]].genre
                       /\ tracks[q[i]].genre = tracks[q[i - 2]].genre}
Misses(q) ==
    [i \in 1..Len(q) |-> Gap((Steps - i + 1) * req.start + (i - 1) * req.target,
                             Steps * tracks[q[i]].mood)]
QueueScore(q) ==
    LET n == Len(q)
    IN Steps * (40 * SumFunctionOnSet(Tastes(q), 1..n) + 500 * n
                - 8 * SumFunctionOnSet(Jumps(q), 2..n) - 30 * Cardinality(Repeats(q)))
       - 50 * SumFunctionOnSet(Misses(q), 1..n)

\* A search that never had to drop a partial sequence returns the best of all queues, and of
\* equally good ones the first by its track IDs.
OptimalUnlessPruned ==
    stage = "done" /\ ~pruned =>
        LET score == QueueScore(Selected.path)
        IN \A q \in {f \in [1..req.count -> Pool] : IsInjective(f)} :
              QueueScore(q) < score \/ (QueueScore(q) = score /\ ~KeyBefore(q, Selected.path))

-----------------------------------------------------------------------------
(* The inductive invariant.                                                *)

\* A partial sequence of the first slots: different tracks of the pool and an exact score.
Partial == {a \in [path : Seq(Pool), total : Int] : Len(a.path) = slot /\ IsInjective(a.path)}

BeamSound ==
    /\ tracks \in Catalogs /\ req \in Requests
    /\ slot \in 0..req.count
    /\ stage \in {"start", "search", "done", "refused"}
    /\ pruned \in BOOLEAN
    /\ IsFiniteSet(beam) /\ beam \subseteq Partial

\* Slot by slot the total adds up to the score of the path.
TotalsExact == \A a \in beam : a.total = QueueScore(a.path)

\* Before anything is dropped the beam has every path of its length.
Exhaustive ==
    stage # "refused" /\ ~pruned =>
        \A f \in [1..slot -> Pool] : IsInjective(f) => \E a \in beam : a.path = f

IInv ==
    /\ BeamSound /\ NeverStarves /\ TotalsExact /\ Exhaustive
    /\ stage \in {"search", "done"} => Enough
    /\ stage = "start" => slot = 0
    /\ stage = "done" => slot = req.count
=============================================================================

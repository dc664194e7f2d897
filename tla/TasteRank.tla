------------------------------ MODULE TasteRank ------------------------------
(***************************************************************************)
(* The taste ranker (internal/taste/rank.go): Rank takes the feedback      *)
(* events one by one, scores every track, and picks candidates one by one. *)
(*                                                                         *)
(* The arithmetic is exact up to the rounding the code does itself:        *)
(* weights are counted in quarters (likes) and fifths (skips),             *)
(* similarities in 1/400, and scores in 1/10000.  Requests are valid and   *)
(* carry no popularity counts, as every request of a session does: each    *)
(* track then has the popularity 0.5.                                      *)
(***************************************************************************)
EXTENDS Integers, SequencesExt, FiniteSetsExt

CONSTANTS
    Tracks,         \* track IDs, numbered in their string order
    Genres,
    Tempos,         \* beats per minute
    Artists,
    EventIds,
    Inputs          \* catalogs, with genre, tempo and artist of every track, and requests for
                    \* them: strategy, limit, preferred genres, liked and excluded tracks, and
                    \* as a bound the IDs of the events

Strategies == {"popularity", "taste", "taste-explore"}
Catalog == [Tracks -> [genre : Genres, tempo : Tempos, artist : Artists]]
Request == [strategy : Strategies, limit : 1..20, preferred : SUBSET Genres,
            liked : SUBSET Tracks, excluded : SUBSET Tracks, ids : SUBSET EventIds]

ASSUME RankAssumption ==
    /\ Tracks \subseteq Nat /\ IsFiniteSet(Tracks)
    /\ Tempos \subseteq Nat
    /\ Inputs \subseteq [catalog : Catalog, request : Request]

VARIABLES
    catalog,
    request,
    eventIDs,       \* the events taken, by ID
    positive,       \* weight of the likes, replays and completions of a track
    negative,       \* weight of its short skips
    seen,           \* tracks the listener knows
    candidates,     \* the tracks picked so far
    stage           \* "events", then "picks", or "refused"

vars == <<catalog, request, eventIDs, positive, negative, seen, candidates, stage>>

EventTypes == {"start", "like", "replay", "complete", "shortSkip", "longSkip"}
Event == [track : Tracks, type : EventTypes]

\* Cap on the weight of a track, and what one event or a stated like adds to it.
PositiveCap == 12
NegativeCap == 3
LikedWeight == 8
PositiveWeight(type) ==
    CASE type = "like" -> 8 [] type = "replay" -> 6 [] type = "complete" -> 3 [] OTHER -> 0
NegativeWeight(type) == IF type = "shortSkip" THEN 1 ELSE 0
AtMost(cap, n) == IF n > cap THEN cap ELSE n

TypeOK ==
    /\ [catalog |-> catalog, request |-> request] \in Inputs
    /\ DOMAIN eventIDs \subseteq request.ids /\ ToSet(candidates) \subseteq Tracks
    /\ \A id \in DOMAIN eventIDs : eventIDs[id] \in Event
    /\ positive \in [Tracks -> 0..PositiveCap] /\ negative \in [Tracks -> 0..NegativeCap]
    /\ seen \subseteq Tracks
    /\ stage \in {"events", "picks", "refused"}

-----------------------------------------------------------------------------
(* Scores.                                                                 *)

\* Genres without a track in the catalog are reported and not used.
Preferred == request.preferred \cap {catalog[t].genre : t \in Tracks}
ArtistUseful == \E t, u \in Tracks : catalog[t].artist # catalog[u].artist
Whole == IF ArtistUseful THEN 400 ELSE 340

Gap(m, n) == IF m > n THEN m - n ELSE n - m

\* Mutant: tracks of another genre count as alike.
SimilarityOtherGenre(t, u) ==
    (IF catalog[t].genre # catalog[u].genre THEN 240 ELSE 0)
    + 100 - AtMost(100, Gap(catalog[t].tempo, catalog[u].tempo))
    + (IF ArtistUseful /\ catalog[t].artist = catalog[u].artist THEN 60 ELSE 0)

Similarity(t, u) ==
    (IF catalog[t].genre = catalog[u].genre THEN 240 ELSE 0)
    + 100 - AtMost(100, Gap(catalog[t].tempo, catalog[u].tempo))
    + (IF ArtistUseful /\ catalog[t].artist = catalog[u].artist THEN 60 ELSE 0)

\* affinity: the mean similarity to the weighted tracks is Affinity / (Whole * Weight).
Weight(w) == SumFunctionOnSet(w, Tracks)
Affinity(t, w) == SumFunctionOnSet([u \in Tracks |-> w[u] * Similarity(t, u)], Tracks)

NoWeights == \A t \in Tracks : positive[t] = 0
Cold == NoWeights /\ Preferred = {} /\ \A t \in Tracks : negative[t] = 0

\* The taste score in 1/10000, rounded as the code rounds every score it compares.  Score is
\* in percent, times One.
Scale(w) == Max({1, Weight(w)})
One == 2 * Scale(positive) * Scale(negative) * Whole
Penalty(t) == 40 * Scale(positive) * Affinity(t, negative)
Score(t) ==
    IF Cold THEN 50 * One
    ELSE IF NoWeights /\ Preferred = {} THEN 50 * One - Penalty(t)
    ELSE 120 * Scale(negative) * Affinity(t, positive)
         + (IF catalog[t].genre \in Preferred THEN 35 * One ELSE 0) + (5 * One) \div 2 - Penalty(t)

Clamp(top, n) == IF n < 0 THEN 0 ELSE AtMost(top, n)
Rounded(n, one) == 100 * (n \div one) + (200 * (n % one) + one) \div (2 * one)
Taste(t) == Rounded(Clamp(100 * One, Score(t)), One)

-----------------------------------------------------------------------------
(* Candidates.                                                             *)

Pool == Tracks \ request.excluded
Picked == ToSet(candidates)
Left == Pool \ Picked
Limit == Min({request.limit, Cardinality(Pool)})

\* The picks of taste-explore kept for unseen tracks: a fifth of them, rounded up.
Reserve ==
    IF request.strategy = "taste-explore" /\ ~Cold /\ Limit > 1
    THEN Max({1, (Limit + 4) \div 5}) ELSE 0
Exploring == Len(candidates) >= Limit - Reserve

\* Mutant: genreSelected is never counted up.
UncountedGenre(g) == 0

GenreSelected(g) == Cardinality({t \in Picked : catalog[t].genre = g})

\* What bestIndex compares: the total, less 0.16 for every pick of the genre on a cold start.
Selection(t) ==
    IF request.strategy = "popularity" THEN 5000
    ELSE Taste(t) - (IF Cold THEN 1600 * GenreSelected(catalog[t].genre) ELSE 0)
Best(S) ==
    LET top == Max({Selection(t) : t \in S})
    IN Min({t \in S : Selection(t) = top})

\* While exploring, 0.7 of the taste and 0.3 of a hash of user and track decide between the
\* unseen tracks: one comes first for some user unless its taste is too far behind.
Unseen == Left \ seen
Explored ==
    LET top == Max({7 * Taste(t) : t \in Unseen})
    IN {t \in Unseen : 7 * Taste(t) + 3 * 10000 >= top}

\* Mutant: the reserved picks go by the score alone.
PicksBySelection == {Best(Left)}

NextPicks == IF Exploring /\ Unseen # {} THEN Explored ELSE {Best(Left)}

-----------------------------------------------------------------------------
Init ==
    /\ \E input \in Inputs : catalog = input.catalog /\ request = input.request
    /\ eventIDs = <<>>
    /\ positive = [t \in Tracks |-> IF t \in request.liked THEN LikedWeight ELSE 0]
    /\ negative = [t \in Tracks |-> 0]
    /\ seen = request.liked
    /\ candidates = <<>>
    /\ stage = "events"

\* Mutants: the largest event counts alone; nothing is cut at the caps.
CountLastOnly(e) ==
    /\ positive' = [positive EXCEPT ![e.track] = Max({@, PositiveWeight(e.type)})]
    /\ negative' = [negative EXCEPT ![e.track] = AtMost(NegativeCap, @ + NegativeWeight(e.type))]
    /\ seen' = seen \cup {e.track}
CountUncapped(e) ==
    /\ positive' = [positive EXCEPT ![e.track] = @ + PositiveWeight(e.type)]
    /\ negative' = [negative EXCEPT ![e.track] = @ + NegativeWeight(e.type)]
    /\ seen' = seen \cup {e.track}

\* What one event does to the weights.
Count(e) ==
    /\ positive' = [positive EXCEPT ![e.track] = AtMost(PositiveCap, @ + PositiveWeight(e.type))]
    /\ negative' = [negative EXCEPT ![e.track] = AtMost(NegativeCap, @ + NegativeWeight(e.type))]
    /\ seen' = seen \cup {e.track}

\* One round of the loop over the events; an ID seen before adds nothing.
TakeEvent(id, e) ==
    /\ stage = "events"
    /\ id \notin DOMAIN eventIDs
    /\ eventIDs' = [i \in DOMAIN eventIDs \cup {id} |-> IF i = id THEN e ELSE eventIDs[i]]
    /\ Count(e)
    /\ UNCHANGED <<catalog, request, candidates, stage>>
TakeDuplicate(id, e) ==
    /\ stage = "events"
    /\ id \in DOMAIN eventIDs
    /\ stage' = IF eventIDs[id] = e THEN "events" ELSE "refused"
    /\ UNCHANGED <<catalog, request, eventIDs, positive, negative, seen, candidates>>

\* All events taken; an empty pool is an error.
StartPicks ==
    /\ stage = "events"
    /\ stage' = IF Pool = {} THEN "refused" ELSE "picks"
    /\ UNCHANGED <<catalog, request, eventIDs, positive, negative, seen, candidates>>

Pick ==
    /\ stage = "picks"
    /\ Len(candidates) < Limit
    /\ \E t \in NextPicks : candidates' = Append(candidates, t)
    /\ UNCHANGED <<catalog, request, eventIDs, positive, negative, seen, stage>>

Next ==
    \/ \E id \in request.ids, e \in Event : TakeEvent(id, e) \/ TakeDuplicate(id, e)
    \/ StartPicks
    \/ Pick

Spec == Init /\ [][Next]_vars

-----------------------------------------------------------------------------
(* Properties.                                                             *)

\* A weight is the sum of what the different events and the stated like add to it, cut once
\* at the cap: the order of the history and repeated events do not matter.
WeightsAreSums ==
    \A t \in Tracks :
        LET about == {id \in DOMAIN eventIDs : eventIDs[id].track = t}
            likes == [id \in about |-> PositiveWeight(eventIDs[id].type)]
            skips == [id \in about |-> NegativeWeight(eventIDs[id].type)]
            stated == IF t \in request.liked THEN LikedWeight ELSE 0
        IN /\ positive[t] = AtMost(PositiveCap, stated + SumFunctionOnSet(likes, about))
           /\ negative[t] = AtMost(NegativeCap, SumFunctionOnSet(skips, about))

\* Liking, replaying or completing a track never lets one behind it overtake it, and skipping
\* it never lets it overtake one ahead, although the event moves the mean of every track.
\* It holds since one less the similarity is a metric.
KeepsOrder ==
    LET was == [t \in Tracks |-> Taste(t)]
        is == [t \in Tracks |-> Taste(t)']
    IN \A t, u \in Tracks :
        /\ positive'[t] > positive[t] /\ was[t] > was[u] => is[t] >= is[u]
        /\ negative'[t] > negative[t] /\ was[t] < was[u] => is[t] <= is[u]
FeedbackIsMonotone == [][KeepsOrder]_vars

Answered == stage = "picks" /\ Len(candidates) = Limit

\* The answer is as long as the pool allows, has no track twice and none excluded; one that
\* explores holds as many unseen tracks as it reserves, or all there are.
ExplorationKept ==
    Answered =>
        /\ IsInjective(candidates) /\ Picked \subseteq Pool
        /\ Cardinality(Picked \ seen) >= Min({Reserve, Cardinality(Pool \ seen)})

\* Without any history an answer covers the genres evenly, as far as their tracks go.
ColdStartCoversGenres ==
    Answered /\ Cold /\ request.strategy # "popularity" =>
        LET of(g, S) == Cardinality({t \in S : catalog[t].genre = g})
        IN \A g, h \in Genres : of(g, Picked) <= of(h, Picked) + 1 \/ of(h, Left) = 0

-----------------------------------------------------------------------------
(* The inductive invariant.                                                *)

\* Nothing is picked before the events are taken, then different tracks of the pool.
PicksSound ==
    /\ candidates \in Seq(Pool) /\ IsInjective(candidates) /\ Len(candidates) <= Limit
    /\ stage = "events" => candidates = <<>>

\* Each pick from the reserve took an unseen track, while there was one.
ReserveKept ==
    Unseen = {} \/ Cardinality(Picked \ seen) >= Len(candidates) - (Limit - Reserve)

\* On a cold start no genre is two picks ahead of one with tracks left.
GenresEven ==
    Cold /\ request.strategy # "popularity" =>
        \A g, h \in Genres :
            \/ GenreSelected(g) <= GenreSelected(h) + 1
            \/ \A t \in Left : catalog[t].genre # h

IInv ==
    /\ TypeOK /\ IsFiniteSet(DOMAIN eventIDs) /\ WeightsAreSums
    /\ PicksSound /\ ReserveKept /\ GenresEven
=============================================================================

---------------------------- MODULE SessionRules ----------------------------
(***************************************************************************)
(* The revision rules of a listening session, shared by both stores:       *)
(* internal/session/feedback.go.  Every operation is a pure function of a  *)
(* session record and its feedback history in the code; here it is the SET *)
(* of outcomes the code may return.  The set has several members only      *)
(* because the beam search of internal/sequence is abstracted to "some     *)
(* choice of distinct tracks that are not excluded".                       *)
(*                                                                         *)
(* Queue slots are numbered from 1, so the track being played is           *)
(* queue[index + 1] where the code says Queue[CurrentIndex].               *)
(*                                                                         *)
(* A definition marked "Mutant" is a slip this code could have had; no     *)
(* other definition uses it, and the model with the slip in place breaks   *)
(* a property.                                                             *)
(***************************************************************************)
EXTENDS Naturals, Sequences, FiniteSets

CONSTANTS
    Tracks,         \* every track ID a catalog may hold
    Moods,          \* valence-arousal points that tracks and requests name
    TrackMood,      \* the mood a catalog records for a track
    EventIds,       \* client- and server-chosen event IDs
    HistoryLimit,   \* feedback events the ranker looks at (200 in the code)
    None            \* nil pointers, absent rows

EventTypes == {"start", "skip", "complete", "replay", "like"}
Moves      == {"skip", "complete"}

ASSUME RulesAssumption ==
    /\ TrackMood \in [Tracks -> Moods]
    /\ HistoryLimit \in Nat
    /\ None \notin Moods
    /\ None \notin Moves

Statuses   == {"ready", "active", "completed"}
Causes     == {"none", "conflict", "malformed", "notInSession", "unknownTrack",
               "ineligible", "sessionComplete", "build", "audio"}

\* A point of the mood path: an end point, or the place num/den between two.
Points == Moods \cup [from : Moods, to : Moods, num : Nat, den : Nat]

QueueItem == [position : Nat, track : Tracks, path : Points]

Record == [queue      : Seq(QueueItem),
           index      : Nat,
           status     : Statuses,
           lastAction : Moves \cup {None},
           target     : Moods \cup {None},
           checkIn    : Moods \cup {None},
           revision   : Nat \ {0}]

\* occurredAt, listenedSeconds and the ID's shape are one bit: well formed or not.
Event == [id : EventIds, track : Tracks, type : EventTypes, rev : Nat,
          wellFormed : BOOLEAN]

CheckInInput == [rev : Nat, mood : Moods, wellFormed : BOOLEAN]

Done(r, replanned, changed) ==
    [cause |-> "none", rec |-> r, replanned |-> replanned, changed |-> changed]
Fail(r, cause) ==
    [cause |-> cause, rec |-> r, replanned |-> FALSE, changed |-> FALSE]

Outcome == [cause : Causes, rec : Record, replanned : BOOLEAN, changed : BOOLEAN]
-----------------------------------------------------------------------------
(* internal/sequence: what a plan promises.                                *)

PathPoint(start, target, i, n) ==
    IF n <= 1 \/ i = 0 \/ start = target THEN start
    ELSE IF i = n - 1 THEN target
    ELSE [from |-> start, to |-> target, num |-> i, den |-> n - 1]

\* Orders in which Build may queue n tracks: distinct, none of them excluded.
Selections(catalog, excluded, n) ==
    {sel \in [1..n -> catalog \ excluded] :
        \A i, j \in 1..n : sel[i] = sel[j] => i = j}

Recent(history) ==
    {history[k] : k \in {h \in 1..Len(history) : h + HistoryLimit > Len(history)}}

\* Rank knows every track it is told about, and Build needs n candidates.
Buildable(catalog, excluded, history, n) ==
    /\ excluded \subseteq catalog
    /\ \A e \in Recent(history) : e.track \in catalog
    /\ Cardinality(catalog \ excluded) >= n

NewQueue(start, target, sel, n) ==
    [i \in 1..n |-> [position |-> i - 1, track |-> sel[i],
                     path |-> PathPoint(start, target, i - 1, n)]]

\* The record a store makes of a plan.
FirstRecord(start, target, sel, n) ==
    [queue |-> NewQueue(start, target, sel, n), index |-> 0, status |-> "ready",
     lastAction |-> None, target |-> target, checkIn |-> None, revision |-> 1]
-----------------------------------------------------------------------------
(* replan: slots 1..index+1 are locked, the rest is built again.           *)

Locked(r)    == r.index + 1
Remaining(r) == Len(r.queue) - Locked(r)

\* Mutant: the track being played may be queued again.
LockedTracksPlayedOnly(r) == {r.queue[i].track : i \in 1..r.index}

\* Mutant: the track after it is excluded as well.
LockedTracksAndNext(r) ==
    {r.queue[i].track : i \in {j \in 1..Len(r.queue) : j <= r.index + 2}}

LockedTracks(r) == {r.queue[i].track : i \in 1..Locked(r)}

Target(r) == IF r.target = None THEN r.queue[Len(r.queue)].path ELSE r.target

\* Mutant: no special case for a path of one track, which is all start.
AnchorAlwaysHere(r) ==
    IF r.checkIn # None THEN r.checkIn ELSE TrackMood[r.queue[Locked(r)].track]

\* Mutant: the check-in is stored and not used.
AnchorAtTrack(r) ==
    IF Remaining(r) = 1 THEN Target(r) ELSE TrackMood[r.queue[Locked(r)].track]

\* Where the path of the remaining tracks starts.
Anchor(r) ==
    IF Remaining(r) = 1 THEN Target(r)
    ELSE IF r.checkIn # None THEN r.checkIn
    ELSE TrackMood[r.queue[Locked(r)].track]

\* Mutant: the new slots are appended to the queue one slot too early.
RequeueTooEarly(r, sel) ==
    [i \in 1..(Len(r.queue) - 1) |->
        IF i <= r.index THEN r.queue[i]
        ELSE [position |-> i, track |-> sel[i - r.index],
              path |-> PathPoint(Anchor(r), Target(r), i - Locked(r), Remaining(r))]]

Requeue(r, sel) ==
    [i \in 1..Len(r.queue) |->
        IF i <= Locked(r) THEN r.queue[i]
        ELSE [position |-> i - 1, track |-> sel[i - Locked(r)],
              path |-> PathPoint(Anchor(r), Target(r), i - Locked(r) - 1, Remaining(r))]]

Replan(catalog, playable, r, history) ==
    IF Locked(r) >= Len(r.queue) THEN {Done(r, FALSE, FALSE)}
    ELSE IF ~ Buildable(catalog, LockedTracks(r), history, Remaining(r))
    THEN {Fail(r, "build")}
    ELSE {IF \A i \in 1..Remaining(r) : sel[i] \in playable
          THEN Done([r EXCEPT !.queue = Requeue(r, sel)], TRUE,
                    \E i \in 1..Remaining(r) : sel[i] # r.queue[Locked(r) + i].track)
          ELSE Fail(r, "audio") :
             sel \in Selections(catalog, LockedTracks(r), Remaining(r))}
-----------------------------------------------------------------------------
(* Feedback events.                                                        *)

SlotsOf(r, track) == {i \in 1..Len(r.queue) : r.queue[i].track = track}

\* The slot the code's scan stops at: the first one that holds the track.
IsSlotOf(r, track, i) == i \in SlotsOf(r, track) /\ \A j \in SlotsOf(r, track) : i <= j

\* Mutant: any event may be about any track up to the one being played.
EligibleLookingBack(r, e) ==
    /\ e.type = "like" \/ r.status # "completed"
    /\ \E i \in SlotsOf(r, e.track) : i <= r.index + 1

\* A like may look back; every other event is about the track being played.
Eligible(r, e) ==
    IF e.type = "like"
    THEN r.status = "completed" \/ \E i \in SlotsOf(r, e.track) : i <= r.index + 1
    ELSE r.status # "completed" /\ IsSlotOf(r, e.track, r.index + 1)

EventFault(catalog, r, e) ==
    IF ~ e.wellFormed THEN "malformed"
    ELSE IF SlotsOf(r, e.track) = {} THEN "notInSession"
    ELSE IF e.track \notin catalog THEN "unknownTrack"
    ELSE IF ~ Eligible(r, e) THEN "ineligible"
    ELSE "none"

\* Mutant: the last track passed leaves the session active.
PlayedNeverCompletes(r, e) ==
    IF e.type \in Moves
    THEN [r EXCEPT !.index = @ + 1, !.lastAction = e.type, !.revision = @ + 1,
                   !.status = IF r.index + 1 > Len(r.queue) THEN "completed" ELSE "active"]
    ELSE [r EXCEPT !.revision = @ + 1,
                   !.status = IF e.type = "start" /\ @ = "ready" THEN "active" ELSE @]

\* Mutant: every event is remembered as the last action.
PlayedRemembersAll(r, e) ==
    [r EXCEPT !.lastAction = e.type, !.revision = @ + 1,
              !.index = IF e.type \in Moves THEN @ + 1 ELSE @,
              !.status = IF e.type \in Moves
                         THEN IF r.index + 1 >= Len(r.queue) THEN "completed" ELSE "active"
                         ELSE IF e.type = "start" /\ @ = "ready" THEN "active" ELSE @]

\* The record after the event, before the future is replanned.
Played(r, e) ==
    IF e.type \in Moves
    THEN [r EXCEPT !.index = @ + 1, !.lastAction = e.type, !.revision = @ + 1,
                   !.status = IF r.index + 1 >= Len(r.queue) THEN "completed" ELSE "active"]
    ELSE [r EXCEPT !.revision = @ + 1,
                   !.status = IF e.type = "start" /\ @ = "ready" THEN "active" ELSE @]

\* Mutant: the revision is left to the caller, which looked at it some time ago.
ApplyEventUnchecked(catalog, playable, r, history, e) ==
    IF EventFault(catalog, r, e) # "none" THEN {Fail(r, EventFault(catalog, r, e))}
    ELSE IF e.type = "start" \/ Played(r, e).status = "completed"
    THEN {Done(Played(r, e), FALSE, FALSE)}
    ELSE Replan(catalog, playable, Played(r, e), Append(history, e))

ApplyEvent(catalog, playable, r, history, e) ==
    IF e.rev # r.revision THEN {Fail(r, "conflict")}
    ELSE IF EventFault(catalog, r, e) # "none" THEN {Fail(r, EventFault(catalog, r, e))}
    ELSE IF e.type = "start" \/ Played(r, e).status = "completed"
    THEN {Done(Played(r, e), FALSE, FALSE)}
    ELSE Replan(catalog, playable, Played(r, e), Append(history, e))
-----------------------------------------------------------------------------
(* Mood check-ins.                                                         *)

\* Mutant: a completed session still takes check-ins.
ApplyCheckInLate(catalog, playable, r, history, c) ==
    IF ~ c.wellFormed THEN {Fail(r, "malformed")}
    ELSE IF c.rev # r.revision THEN {Fail(r, "conflict")}
    ELSE Replan(catalog, playable,
                [r EXCEPT !.checkIn = c.mood, !.revision = @ + 1], history)

ApplyCheckIn(catalog, playable, r, history, c) ==
    IF ~ c.wellFormed THEN {Fail(r, "malformed")}
    ELSE IF c.rev # r.revision THEN {Fail(r, "conflict")}
    ELSE IF r.status = "completed" THEN {Fail(r, "sessionComplete")}
    ELSE Replan(catalog, playable,
                [r EXCEPT !.checkIn = c.mood, !.revision = @ + 1], history)

\* Mutant: the list is emptied while the check-in keeps steering.
ClearCheckInsListOnly(catalog, playable, r, history, rev) ==
    LET cleared == [r EXCEPT !.revision = @ + 1]
    IN  IF rev # r.revision THEN {Fail(r, "conflict")}
        ELSE IF r.status = "completed" THEN {Done(cleared, FALSE, FALSE)}
        ELSE Replan(catalog, playable, cleared, history)

\* Mutant: the future planned from a deleted check-in stays.
ClearCheckInsKeepsPlan(catalog, playable, r, history, rev) ==
    IF rev # r.revision THEN {Fail(r, "conflict")}
    ELSE {Done([r EXCEPT !.checkIn = None, !.revision = @ + 1], FALSE, FALSE)}

ClearCheckIns(catalog, playable, r, history, rev) ==
    LET cleared == [r EXCEPT !.checkIn = None, !.revision = @ + 1]
    IN  IF rev # r.revision THEN {Fail(r, "conflict")}
        ELSE IF r.status = "completed" THEN {Done(cleared, FALSE, FALSE)}
        ELSE Replan(catalog, playable, cleared, history)
=============================================================================

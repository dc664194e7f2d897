-------------------------- MODULE SessionProperties --------------------------
(***************************************************************************)
(* What is true of one session record and its two audit trails, whichever  *)
(* store keeps them.  The store modules state these of their own state.    *)
(***************************************************************************)
EXTENDS SessionRules

\* Positions of the skips and completes among the first k entries of a trail.
MovesUpTo(log, k) == {j \in 1..k : log[j].type \in Moves}

\* How many tracks had been passed before entry k was accepted.
PassedBefore(log, k) == Cardinality(MovesUpTo(log, k - 1))

\* The trail tells the same story as the queue: the session has moved on as often as
\* the trail says, and every entry names a track that its slot still shows, however
\* often the queue was replanned since.
AuditMatches(r, log) ==
    /\ r.index = Cardinality(MovesUpTo(log, Len(log)))
    /\ \A k \in 1..Len(log) : log[k].type # "like" =>
          /\ PassedBefore(log, k) < Len(r.queue)
          /\ log[k].track = r.queue[PassedBefore(log, k) + 1].track
    /\ \A k \in 1..Len(log) : log[k].type = "like" =>
          \E i \in 1..Len(r.queue) :
              i <= PassedBefore(log, k) + 1 /\ r.queue[i].track = log[k].track

\* No two entries were made for one revision and none for a revision to come.
InRevisionOrder(r, log) ==
    \A k \in 1..Len(log) :
        /\ log[k].rev < r.revision
        /\ \A j \in 1..(k - 1) : log[j].rev < log[k].rev

\* The position stays inside the queue until every track was passed.
PositionOK(r) ==
    /\ r.index <= Len(r.queue)
    /\ r.status = "completed" <=> r.index = Len(r.queue)

\* Status and last action are those the trail implies.
StatusMatches(r, log) ==
    /\ PositionOK(r)
    /\ r.status = "ready" <=> \A k \in 1..Len(log) : log[k].type \in {"like", "replay"}
    /\ r.lastAction = None <=> MovesUpTo(log, Len(log)) = {}
    /\ \A k \in MovesUpTo(log, Len(log)) :
          (\A j \in MovesUpTo(log, Len(log)) : j <= k) => r.lastAction = log[k].type

\* The check-in that steers the session is the newest one still on its list.
CheckInMatches(r, list) ==
    r.checkIn = IF list = <<>> THEN None ELSE list[Len(list)]

\* A queue in order: slots numbered from 0, no track in two of them.
Orderly(q) ==
    \A i \in 1..Len(q) :
        /\ q[i].position = i - 1
        /\ \A j \in 1..Len(q) : q[i].track = q[j].track => i = j

\* The last slot of a queue of two or more is planned for the target.
ReachesTarget(r) == Len(r.queue) > 1 => r.queue[Len(r.queue)].path = r.target

\* The slots still to come follow one path that starts at mood m.
FuturePath(r, m) ==
    \A i \in (Locked(r) + 1)..Len(r.queue) :
        r.queue[i].path = PathPoint(m, r.target, i - Locked(r) - 1, Remaining(r))

\* The session still follows the plan it was created with.
FirstPlan(r, startMoods) ==
    /\ r.index = 0 /\ r.checkIn = None
    /\ \E m \in startMoods : \A i \in 1..Len(r.queue) :
          r.queue[i].path = PathPoint(m, r.target, i - 1, Len(r.queue))

\* Where the listener is: at the check-in that steers the session, or else at the mood
\* of the track being played.
ListenerMood(r) ==
    IF r.checkIn # None THEN r.checkIn ELSE TrackMood[r.queue[r.index + 1].track]

FutureFollows(r, startMoods) ==
    r.index + 2 < Len(r.queue) =>
        FirstPlan(r, startMoods) \/ FuturePath(r, ListenerMood(r))

\* From record r to record new: played tracks and the current one are what they were,
\* and the position moved by at most one slot.
LockedKept(r, new) ==
    /\ Len(new.queue) = Len(r.queue)
    /\ \A i \in 1..Len(r.queue) : i <= r.index + 1 => new.queue[i] = r.queue[i]
    /\ new.index \in {r.index, r.index + 1}
=============================================================================

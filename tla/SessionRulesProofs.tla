------------------------- MODULE SessionRulesProofs -------------------------
(***************************************************************************)
(* What the session rules guarantee for every catalog, queue and history:  *)
(* the lemmas the store proofs rest on.                                    *)
(***************************************************************************)
EXTENDS SessionProperties, FiniteSetTheorems, TLAPS

\* A path between two moods consists of points.
LEMMA PathPointType ==
    ASSUME NEW start \in Moods, NEW target \in Moods, NEW i \in Nat, NEW n \in Nat, i < n
    PROVE  PathPoint(start, target, i, n) \in Points
<1>1. CASE n <= 1 \/ i = 0 \/ start = target
  BY <1>1 DEF PathPoint, Points
<1>2. CASE ~(n <= 1 \/ i = 0 \/ start = target)
  <2>1. n - 1 \in Nat
    BY <1>2
  <2>2. [from |-> start, to |-> target, num |-> i, den |-> n - 1] \in Points
    BY <2>1 DEF Points
  <2> QED
    BY <1>2, <2>2 DEF PathPoint, Points
<1> QED
  BY <1>1, <1>2

\* The first plan of a session is a queue (create stores it unchanged).
LEMMA NewQueueType ==
    ASSUME NEW start \in Moods, NEW target \in Moods, NEW n \in Nat,
           NEW sel \in [1..n -> Tracks]
    PROVE  /\ NewQueue(start, target, sel, n) \in Seq(QueueItem)
           /\ Len(NewQueue(start, target, sel, n)) = n
<1> DEFINE q == NewQueue(start, target, sel, n)
<1>1. \A i \in 1..n : q[i] \in QueueItem
  <2>1. \A i \in 1..n : i - 1 \in Nat /\ i - 1 < n
    OBVIOUS
  <2> QED
    BY <2>1, PathPointType DEF NewQueue, QueueItem
<1>2. q \in [1..n -> QueueItem]
  BY <1>1 DEF NewQueue
<1> QED
  BY <1>2

-----------------------------------------------------------------------------
\* A record that has a target keeps its queue well typed, keeps its length and keeps
\* its locked slots when the rest is requeued.
LEMMA RequeueKeeps ==
    ASSUME NEW r \in Record, r.target \in Moods, Locked(r) < Len(r.queue),
           NEW sel \in [1..Remaining(r) -> Tracks]
    PROVE  /\ Requeue(r, sel) \in Seq(QueueItem)
           /\ Len(Requeue(r, sel)) = Len(r.queue)
           /\ \A i \in 1..Len(r.queue) :
                 i <= Locked(r) => Requeue(r, sel)[i] = r.queue[i]
           /\ \A i \in 1..Len(r.queue) :
                 i > Locked(r) => /\ Requeue(r, sel)[i].position = i - 1
                                  /\ Requeue(r, sel)[i].track = sel[i - Locked(r)]
<1> DEFINE q == Requeue(r, sel)
           n == Len(r.queue)
<1>1. /\ r.queue \in Seq(QueueItem) /\ n \in Nat /\ Locked(r) \in Nat \ {0}
      /\ Remaining(r) \in Nat /\ Remaining(r) = n - Locked(r)
  BY DEF Record, Locked, Remaining
<1>2. Target(r) \in Moods
  BY RulesAssumption DEF Target
<1>3. Anchor(r) \in Moods
  <2>a. Locked(r) \in 1..n
    BY <1>1
  <2>b. r.queue[Locked(r)] \in QueueItem
    BY <1>1, <2>a
  <2>1. r.queue[Locked(r)].track \in Tracks
    BY <2>b DEF QueueItem
  <2>2. TrackMood[r.queue[Locked(r)].track] \in Moods
    BY <2>1, RulesAssumption
  <2>3. r.checkIn # None => r.checkIn \in Moods
    BY DEF Record
  <2> QED
    BY <1>2, <2>2, <2>3 DEF Anchor
<1>4. \A i \in 1..n : i <= Locked(r) => q[i] = r.queue[i]
  BY DEF Requeue
<1>5. ASSUME NEW i \in 1..n, i > Locked(r)
      PROVE  /\ q[i] \in QueueItem
             /\ q[i].position = i - 1
             /\ q[i].track = sel[i - Locked(r)]
  <2>1. /\ i - Locked(r) \in 1..Remaining(r) /\ i - 1 \in Nat
        /\ i - Locked(r) - 1 \in Nat /\ i - Locked(r) - 1 < Remaining(r)
    BY <1>1, <1>5
  <2>2. PathPoint(Anchor(r), Target(r), i - Locked(r) - 1, Remaining(r)) \in Points
    BY <1>1, <1>2, <1>3, <2>1, PathPointType
  <2>3. sel[i - Locked(r)] \in Tracks
    BY <2>1
  <2>4. q[i] = [position |-> i - 1, track |-> sel[i - Locked(r)],
                path |-> PathPoint(Anchor(r), Target(r), i - Locked(r) - 1, Remaining(r))]
    BY <1>1, <1>5 DEF Requeue
  <2> QED
    BY <2>1, <2>2, <2>3, <2>4 DEF QueueItem
<1>6. \A i \in 1..n : q[i] \in QueueItem
  <2>1. \A i \in 1..n : r.queue[i] \in QueueItem
    BY <1>1
  <2> QED
    BY <1>1, <1>4, <1>5, <2>1
<1>7. q \in [1..n -> QueueItem]
  BY <1>6 DEF Requeue
<1>8. q \in Seq(QueueItem) /\ Len(q) = n
  <2> HIDE DEF q
  <2> QED
    BY <1>1, <1>7
<1> QED
  BY <1>4, <1>5, <1>8

\* What replan may return: an error, the record untouched, or the record with another
\* future: same length, same locked slots, and still in order if it was before.
KeepsLocked(r, new) ==
    /\ new = [r EXCEPT !.queue = new.queue]
    /\ new.queue \in Seq(QueueItem)
    /\ Len(new.queue) = Len(r.queue)
    /\ \A i \in 1..Len(r.queue) : i <= Locked(r) => new.queue[i] = r.queue[i]
    /\ Orderly(r.queue) => Orderly(new.queue)

LEMMA RequeueOrderly ==
    ASSUME NEW r \in Record, r.target \in Moods, Locked(r) < Len(r.queue),
           Orderly(r.queue), NEW catalog \in SUBSET Tracks,
           NEW sel \in Selections(catalog, LockedTracks(r), Remaining(r))
    PROVE  Orderly(Requeue(r, sel))
<1> DEFINE q == Requeue(r, sel)
           n == Len(r.queue)
<1>1. /\ r.queue \in Seq(QueueItem) /\ n \in Nat /\ Locked(r) \in Nat \ {0}
      /\ Remaining(r) \in Nat /\ Remaining(r) = n - Locked(r)
  BY DEF Record, Locked, Remaining
<1>2. /\ sel \in [1..Remaining(r) -> Tracks]
      /\ \A i \in 1..Remaining(r) : sel[i] \notin LockedTracks(r)
      /\ \A i, j \in 1..Remaining(r) : sel[i] = sel[j] => i = j
  BY DEF Selections
<1>3. /\ Len(q) = n
      /\ \A i \in 1..n : i <= Locked(r) => q[i] = r.queue[i]
      /\ \A i \in 1..n : i > Locked(r) => /\ q[i].position = i - 1
                                          /\ q[i].track = sel[i - Locked(r)]
  BY <1>2, RequeueKeeps
<1> HIDE DEF q
<1>4. \A i \in 1..n : q[i].position = i - 1
  <2> TAKE i \in 1..n
  <2>1. CASE i <= Locked(r)
    BY <1>3, <2>1 DEF Orderly
  <2>2. CASE i > Locked(r)
    BY <1>3, <2>2
  <2> QED
    BY <1>1, <2>1, <2>2
<1>5. ASSUME NEW i \in 1..n, NEW j \in 1..n, q[i].track = q[j].track
      PROVE  i = j
  <2>1. CASE i <= Locked(r) /\ j <= Locked(r)
    BY <1>3, <1>5, <2>1 DEF Orderly
  <2>2. CASE i > Locked(r) /\ j > Locked(r)
    <3>1. i - Locked(r) \in 1..Remaining(r) /\ j - Locked(r) \in 1..Remaining(r)
      BY <1>1, <2>2
    <3>2. sel[i - Locked(r)] = sel[j - Locked(r)]
      BY <1>3, <1>5, <2>2
    <3> QED
      BY <1>1, <1>2, <3>1, <3>2
  <2>3. ASSUME NEW a \in 1..n, NEW b \in 1..n, a <= Locked(r), b > Locked(r)
        PROVE  q[a].track # q[b].track
    <3>1. b - Locked(r) \in 1..Remaining(r) /\ a \in 1..Locked(r)
      BY <1>1, <2>3
    <3>2. r.queue[a].track \in LockedTracks(r)
      BY <3>1 DEF LockedTracks
    <3>3. q[a].track = r.queue[a].track /\ q[b].track = sel[b - Locked(r)]
      BY <1>3, <2>3
    <3> QED
      BY <1>2, <3>1, <3>2, <3>3
  <2>4. (i <= Locked(r) \/ i > Locked(r)) /\ (j <= Locked(r) \/ j > Locked(r))
    BY <1>1
  <2> QED
    BY <1>5, <2>1, <2>2, <2>3, <2>4
<1>6. Orderly(q)
  BY <1>3, <1>4, <1>5 DEF Orderly
<1> QED
  BY <1>6 DEF q

LEMMA ReplanKeeps ==
    ASSUME NEW r \in Record, r.target \in Moods, NEW catalog \in SUBSET Tracks,
           NEW playable, NEW history,
           NEW out \in Replan(catalog, playable, r, history)
    PROVE  /\ out \in Outcome
           /\ out.cause = "none" => KeepsLocked(r, out.rec)
<1>1. CASE Locked(r) >= Len(r.queue)
  <2>1. out = Done(r, FALSE, FALSE)
    BY <1>1 DEF Replan
  <2>2. KeepsLocked(r, r)
    BY DEF KeepsLocked, Record
  <2> QED
    BY <2>1, <2>2 DEF Done, Outcome, Causes
<1>2. CASE /\ ~(Locked(r) >= Len(r.queue))
           /\ ~ Buildable(catalog, LockedTracks(r), history, Remaining(r))
  <2>1. out = Fail(r, "build")
    BY <1>2 DEF Replan
  <2> QED
    BY <2>1 DEF Fail, Outcome, Causes
<1>3. CASE /\ ~(Locked(r) >= Len(r.queue))
           /\ Buildable(catalog, LockedTracks(r), history, Remaining(r))
  <2>1. PICK sel \in Selections(catalog, LockedTracks(r), Remaining(r)) :
           out = IF \A i \in 1..Remaining(r) : sel[i] \in playable
                 THEN Done([r EXCEPT !.queue = Requeue(r, sel)], TRUE,
                           \E i \in 1..Remaining(r) : sel[i] # r.queue[Locked(r) + i].track)
                 ELSE Fail(r, "audio")
    BY <1>3 DEF Replan
  <2>2. CASE ~ \A i \in 1..Remaining(r) : sel[i] \in playable
    <3>1. out = Fail(r, "audio")
      BY <2>1, <2>2
    <3> QED
      BY <3>1 DEF Fail, Outcome, Causes
  <2>3. CASE \A i \in 1..Remaining(r) : sel[i] \in playable
    <3> DEFINE new == [r EXCEPT !.queue = Requeue(r, sel)]
               changed == \E i \in 1..Remaining(r) : sel[i] # r.queue[Locked(r) + i].track
    <3>1. out = Done(new, TRUE, changed)
      BY <2>1, <2>3
    <3>2. Locked(r) < Len(r.queue) /\ sel \in [1..Remaining(r) -> Tracks]
      BY <1>3 DEF Selections, Locked, Record
    <3>3. /\ Requeue(r, sel) \in Seq(QueueItem)
          /\ Len(Requeue(r, sel)) = Len(r.queue)
          /\ \A i \in 1..Len(r.queue) : i <= Locked(r) => Requeue(r, sel)[i] = r.queue[i]
      BY <3>2, RequeueKeeps
    <3>4. Orderly(r.queue) => Orderly(Requeue(r, sel))
      BY <3>2, RequeueOrderly
    <3>5. new \in Record /\ new.queue = Requeue(r, sel)
      BY <3>3 DEF Record
    <3>6. KeepsLocked(r, new)
      BY <3>3, <3>4, <3>5 DEF KeepsLocked
    <3>7. changed \in BOOLEAN
      OBVIOUS
    <3>8. out.rec = new /\ out = [cause |-> "none", rec |-> new, replanned |-> TRUE, changed |-> changed]
      BY <3>1 DEF Done
    <3> HIDE DEF new, changed
    <3>9. out \in Outcome
      BY <3>5, <3>7, <3>8 DEF Outcome, Causes
    <3> QED
      BY <3>6, <3>8, <3>9
  <2> QED
    BY <2>2, <2>3
<1> QED
  BY <1>1, <1>2, <1>3
-----------------------------------------------------------------------------
\* What every accepted operation does to the record it was accepted for.
Succeeds(r, new) ==
    /\ new \in Record
    /\ new.target = r.target
    /\ new.revision = r.revision + 1
    /\ Len(new.queue) = Len(r.queue)
    /\ \A i \in 1..Len(r.queue) : i <= r.index + 1 => new.queue[i] = r.queue[i]
    /\ Orderly(r.queue) => Orderly(new.queue)
    /\ PositionOK(new)

\* An operation that first updates r to mid, queue aside, and then replans.
LEMMA UpdateThenReplan ==
    ASSUME NEW r \in Record, r.target \in Moods, NEW catalog \in SUBSET Tracks,
           NEW playable, NEW history, NEW mid \in Record,
           mid.target = r.target, mid.queue = r.queue, mid.revision = r.revision + 1,
           mid.index >= r.index, PositionOK(mid),
           NEW out \in Replan(catalog, playable, mid, history)
    PROVE  /\ out \in Outcome
           /\ out.cause = "none" =>
                /\ Succeeds(r, out.rec)
                /\ out.rec.index = mid.index
                /\ out.rec.checkIn = mid.checkIn
                /\ out.rec.status = mid.status
                /\ out.rec.lastAction = mid.lastAction
<1>1. out \in Outcome /\ (out.cause = "none" => KeepsLocked(mid, out.rec))
  BY ReplanKeeps
<1>2. ASSUME out.cause = "none"
      PROVE  /\ Succeeds(r, out.rec)
             /\ out.rec.index = mid.index
             /\ out.rec.checkIn = mid.checkIn
             /\ out.rec.status = mid.status
             /\ out.rec.lastAction = mid.lastAction
  <2> DEFINE new == out.rec
  <2>1. /\ new = [mid EXCEPT !.queue = new.queue]
        /\ Len(new.queue) = Len(mid.queue)
        /\ \A i \in 1..Len(mid.queue) : i <= mid.index + 1 => new.queue[i] = mid.queue[i]
        /\ Orderly(mid.queue) => Orderly(new.queue)
    BY <1>1, <1>2 DEF KeepsLocked, Locked
  <2>2. new \in Record
    BY <1>1 DEF Outcome
  <2>3. /\ new.index = mid.index /\ new.checkIn = mid.checkIn /\ new.status = mid.status
        /\ new.target = mid.target /\ new.revision = mid.revision
        /\ new.lastAction = mid.lastAction
    BY <2>1 DEF Record
  <2>4. r.index \in Nat /\ mid.index \in Nat /\ Len(r.queue) \in Nat
    BY DEF Record
  <2>5. \A i \in 1..Len(r.queue) : i <= r.index + 1 => i <= mid.index + 1
    BY <2>4
  <2> HIDE DEF new
  <2>6. Succeeds(r, new)
    BY <2>1, <2>2, <2>3, <2>5 DEF Succeeds, PositionOK
  <2> QED
    BY <2>3, <2>6 DEF new
<1> QED
  BY <1>1, <1>2

LEMMA EventKeeps ==
    ASSUME NEW r \in Record, r.target \in Moods, PositionOK(r),
           NEW catalog \in SUBSET Tracks, NEW playable, NEW history, NEW e \in Event,
           NEW out \in ApplyEvent(catalog, playable, r, history, e)
    PROVE  /\ out \in Outcome
           /\ out.cause = "none" =>
                /\ Succeeds(r, out.rec)
                /\ e.rev = r.revision
                /\ out.rec.index = IF e.type \in Moves THEN r.index + 1 ELSE r.index
                /\ out.rec.checkIn = r.checkIn
                /\ out.rec.status = Played(r, e).status
                /\ out.rec.lastAction = Played(r, e).lastAction
                /\ Eligible(r, e) /\ SlotsOf(r, e.track) # {}
<1> DEFINE mid == Played(r, e)
           fault == EventFault(catalog, r, e)
<1>1. CASE e.rev # r.revision
  <2>1. out = Fail(r, "conflict")
    BY <1>1 DEF ApplyEvent
  <2> QED
    BY <2>1 DEF Fail, Outcome, Causes
<1>2. CASE e.rev = r.revision /\ fault # "none"
  <2>1. out = Fail(r, fault)
    BY <1>2 DEF ApplyEvent
  <2>2. fault \in Causes
    BY DEF EventFault, Causes
  <2> QED
    BY <1>2, <2>1, <2>2 DEF Fail, Outcome
<1>3. CASE e.rev = r.revision /\ fault = "none"
  <2>1. Eligible(r, e) /\ SlotsOf(r, e.track) # {}
    BY <1>3 DEF EventFault
  <2>2. e.type \in Moves => r.index < Len(r.queue)
    <3>1. ASSUME e.type \in Moves PROVE r.index < Len(r.queue)
      <4>1. r.status # "completed"
        BY <2>1, <3>1 DEF Eligible, Moves
      <4> QED
        BY <4>1 DEF PositionOK, Record
    <3> QED
      BY <3>1
  <2>3. /\ mid.target = r.target /\ mid.queue = r.queue
        /\ mid.revision = r.revision + 1 /\ mid.checkIn = r.checkIn
        /\ mid.index = IF e.type \in Moves THEN r.index + 1 ELSE r.index
    BY DEF Played, Record
  <2>4. mid \in Record
    <3>1. r.index + 1 \in Nat /\ r.revision + 1 \in Nat \ {0} /\ r.status \in Statuses
      BY DEF Record
    <3>2. CASE e.type \in Moves
      <4>1. (IF r.index + 1 >= Len(r.queue) THEN "completed" ELSE "active") \in Statuses
        BY DEF Statuses
      <4> QED
        BY <3>1, <3>2, <4>1 DEF Played, Record
    <3>3. CASE e.type \notin Moves
      <4>1. (IF e.type = "start" /\ r.status = "ready" THEN "active" ELSE r.status) \in Statuses
        BY <3>1 DEF Statuses
      <4> QED
        BY <3>1, <3>3, <4>1 DEF Played, Record
    <3> QED
      BY <3>2, <3>3
  <2>5. PositionOK(mid)
    <3>1. CASE e.type \in Moves
      BY <2>2, <2>3, <3>1 DEF Played, PositionOK, Record
    <3>2. CASE e.type \notin Moves
      BY <2>3, <3>2 DEF Played, PositionOK, Record
    <3> QED
      BY <3>1, <3>2
  <2>6. mid.index >= r.index
    BY <2>3 DEF Record
  <2> HIDE DEF mid
  <2>7. CASE e.type = "start" \/ mid.status = "completed"
    <3>1. out = Done(mid, FALSE, FALSE)
      BY <1>3, <2>7 DEF ApplyEvent, mid
    <3>2. out.rec = mid /\ out \in Outcome
      BY <2>4, <3>1 DEF Done, Outcome, Causes
    <3>3. Succeeds(r, mid)
      BY <2>3, <2>4, <2>5 DEF Succeeds
    <3> QED
      BY <1>3, <2>1, <2>3, <3>2, <3>3 DEF mid
  <2>8. CASE ~(e.type = "start" \/ mid.status = "completed")
    <3>1. out \in Replan(catalog, playable, mid, Append(history, e))
      BY <1>3, <2>8 DEF ApplyEvent, mid
    <3>2. /\ out \in Outcome
          /\ out.cause = "none" => /\ Succeeds(r, out.rec)
                                   /\ out.rec.index = mid.index
                                   /\ out.rec.checkIn = mid.checkIn
                                   /\ out.rec.status = mid.status
                                   /\ out.rec.lastAction = mid.lastAction
      BY <2>3, <2>4, <2>5, <2>6, <3>1, UpdateThenReplan
    <3> QED
      BY <1>3, <2>1, <2>3, <3>2 DEF mid
  <2> QED
    BY <2>7, <2>8
<1> QED
  BY <1>1, <1>2, <1>3

LEMMA CheckInKeeps ==
    ASSUME NEW r \in Record, r.target \in Moods, PositionOK(r),
           NEW catalog \in SUBSET Tracks, NEW playable, NEW history, NEW c \in CheckInInput,
           NEW out \in ApplyCheckIn(catalog, playable, r, history, c)
    PROVE  /\ out \in Outcome
           /\ out.cause = "none" =>
                /\ Succeeds(r, out.rec)
                /\ out.rec.index = r.index
                /\ out.rec.checkIn = c.mood
                /\ out.rec.status = r.status /\ out.rec.lastAction = r.lastAction
                /\ c.rev = r.revision /\ r.status # "completed"
<1> DEFINE mid == [r EXCEPT !.checkIn = c.mood, !.revision = @ + 1]
<1>1. CASE ~ c.wellFormed \/ c.rev # r.revision \/ r.status = "completed"
  <2>1. \E cause \in {"malformed", "conflict", "sessionComplete"} : out = Fail(r, cause)
    BY <1>1 DEF ApplyCheckIn
  <2> QED
    BY <2>1 DEF Fail, Outcome, Causes
<1>2. CASE ~(~ c.wellFormed \/ c.rev # r.revision \/ r.status = "completed")
  <2>1. out \in Replan(catalog, playable, mid, history)
    BY <1>2 DEF ApplyCheckIn
  <2>2. /\ mid \in Record /\ mid.target = r.target /\ mid.queue = r.queue
        /\ mid.revision = r.revision + 1 /\ mid.index = r.index /\ mid.checkIn = c.mood
        /\ mid.status = r.status /\ mid.lastAction = r.lastAction
    <3>1. c.mood \in Moods \cup {None} /\ r.revision + 1 \in Nat \ {0}
      BY DEF Record, CheckInInput
    <3>2. mid \in Record
      BY <3>1 DEF Record
    <3> QED
      BY <3>2 DEF Record
  <2>3. mid.index >= r.index /\ PositionOK(mid)
    BY <2>2 DEF PositionOK, Record
  <2> HIDE DEF mid
  <2> QED
    BY <1>2, <2>1, <2>2, <2>3, UpdateThenReplan
<1> QED
  BY <1>1, <1>2

LEMMA ClearKeeps ==
    ASSUME NEW r \in Record, r.target \in Moods, PositionOK(r),
           NEW catalog \in SUBSET Tracks, NEW playable, NEW history, NEW rev,
           NEW out \in ClearCheckIns(catalog, playable, r, history, rev)
    PROVE  /\ out \in Outcome
           /\ out.cause = "none" =>
                /\ Succeeds(r, out.rec)
                /\ out.rec.index = r.index
                /\ out.rec.checkIn = None
                /\ out.rec.status = r.status /\ out.rec.lastAction = r.lastAction
                /\ rev = r.revision
<1> DEFINE mid == [r EXCEPT !.checkIn = None, !.revision = @ + 1]
<1>1. CASE rev # r.revision
  <2>1. out = Fail(r, "conflict")
    BY <1>1 DEF ClearCheckIns
  <2> QED
    BY <2>1 DEF Fail, Outcome, Causes
<1>2. CASE rev = r.revision
  <2>1. IF r.status = "completed" THEN out = Done(mid, FALSE, FALSE)
        ELSE out \in Replan(catalog, playable, mid, history)
    BY <1>2 DEF ClearCheckIns
  <2>2. /\ mid \in Record /\ mid.target = r.target /\ mid.queue = r.queue
        /\ mid.revision = r.revision + 1 /\ mid.index = r.index /\ mid.checkIn = None
        /\ mid.status = r.status /\ mid.lastAction = r.lastAction
    <3>1. None \in Moods \cup {None} /\ r.revision + 1 \in Nat \ {0}
      BY DEF Record
    <3>2. mid \in Record
      BY <3>1 DEF Record
    <3> QED
      BY <3>2 DEF Record
  <2>3. mid.index >= r.index /\ PositionOK(mid)
    BY <2>2 DEF PositionOK, Record
  <2> HIDE DEF mid
  <2>4. CASE r.status = "completed"
    <3>1. out = Done(mid, FALSE, FALSE)
      BY <2>1, <2>4
    <3>2. out.rec = mid /\ out \in Outcome
      BY <2>2, <3>1 DEF Done, Outcome, Causes
    <3>3. Succeeds(r, mid)
      BY <2>2, <2>3 DEF Succeeds
    <3> QED
      BY <1>2, <2>2, <3>2, <3>3
  <2>5. CASE r.status # "completed"
    BY <1>2, <2>1, <2>2, <2>3, <2>5, UpdateThenReplan
  <2> QED
    BY <2>4, <2>5
<1> QED
  BY <1>1, <1>2
-----------------------------------------------------------------------------
(* The path of the slots still to come.                                    *)

\* A path of two or more points ends at its target.
LEMMA PathEnds ==
    ASSUME NEW start, NEW target, NEW n \in Nat, n > 1
    PROVE  PathPoint(start, target, n - 1, n) = target
BY DEF PathPoint

\* What an accepted operation owes to the path: the queue still reaches its target, and
\* its future follows the listener again.
PathKept(r, new, startMoods) ==
    /\ ReachesTarget(r) => ReachesTarget(new)
    /\ FutureFollows(r, startMoods) => FutureFollows(new, startMoods)

\* A record whose queue, position and check-in stay keeps its path.
LEMMA SamePath ==
    ASSUME NEW r, NEW new, NEW startMoods, new.queue = r.queue, new.index = r.index,
           new.checkIn = r.checkIn, new.target = r.target
    PROVE  PathKept(r, new, startMoods)
BY DEF PathKept, ReachesTarget, FutureFollows, FirstPlan, FuturePath, ListenerMood,
       Locked, Remaining

\* Requeued slots lie on the path from the listener to the target.
LEMMA RequeuePath ==
    ASSUME NEW r \in Record, r.target \in Moods, Locked(r) < Len(r.queue),
           NEW sel \in [1..Remaining(r) -> Tracks], NEW new \in Record,
           new = [r EXCEPT !.queue = Requeue(r, sel)]
    PROVE  /\ ReachesTarget(new)
           /\ r.index + 2 < Len(r.queue) => FuturePath(new, ListenerMood(new))
<1> DEFINE n == Len(r.queue)
<1>1. /\ n \in Nat /\ Locked(r) \in Nat \ {0} /\ Locked(r) = r.index + 1 /\ r.index \in Nat
      /\ Remaining(r) \in Nat \ {0} /\ Remaining(r) = n - Locked(r) /\ r.target # None
  BY RulesAssumption DEF Record, Locked, Remaining
<1>2. /\ new.queue = Requeue(r, sel) /\ new.index = r.index /\ new.target = r.target
      /\ new.checkIn = r.checkIn /\ Len(new.queue) = n
      /\ \A i \in 1..n : i <= Locked(r) => new.queue[i] = r.queue[i]
  BY RequeueKeeps DEF Record
<1>3. Locked(new) = Locked(r) /\ Remaining(new) = Remaining(r) /\ Target(r) = r.target
  BY <1>1, <1>2 DEF Locked, Remaining, Target
<1>4. \A i \in 1..n : i > Locked(r) => new.queue[i].path =
         PathPoint(Anchor(r), r.target, i - Locked(r) - 1, Remaining(r))
  BY <1>1, <1>2, <1>3 DEF Requeue
<1>5. ReachesTarget(new)
  <2> SUFFICES ASSUME n > 1 PROVE new.queue[n].path = r.target
    BY <1>2 DEF ReachesTarget
  <2>1. n \in 1..n /\ n > Locked(r) /\ n - Locked(r) - 1 = Remaining(r) - 1
    BY <1>1
  <2>2. new.queue[n].path = PathPoint(Anchor(r), r.target, Remaining(r) - 1, Remaining(r))
    BY <1>4, <2>1
  <2>3. CASE Remaining(r) = 1
    BY <1>3, <2>2, <2>3 DEF PathPoint, Anchor
  <2>4. CASE Remaining(r) # 1
    <3>1. Remaining(r) \in Nat /\ Remaining(r) > 1
      BY <1>1, <2>4
    <3> QED
      BY <2>2, <3>1, PathEnds
  <2> QED
    BY <2>3, <2>4
<1>6. ASSUME r.index + 2 < n PROVE FuturePath(new, ListenerMood(new))
  <2>1. Remaining(r) # 1 /\ Locked(r) \in 1..n /\ r.index + 1 = Locked(r)
    BY <1>1, <1>6
  <2>2. new.queue[r.index + 1] = r.queue[Locked(r)]
    BY <1>1, <1>2, <2>1
  <2>3. Anchor(r) = ListenerMood(new)
    BY <1>2, <2>1, <2>2 DEF Anchor, ListenerMood
  <2>4. \A i \in (Locked(r) + 1)..n : i \in 1..n /\ i > Locked(r)
    BY <1>1
  <2> QED
    BY <1>2, <1>3, <1>4, <2>3, <2>4 DEF FuturePath
<1> QED
  BY <1>2, <1>5, <1>6

\* A replan keeps the path when it changes nothing, and else lays it anew.
LEMMA ReplanPath ==
    ASSUME NEW r \in Record, r.target \in Moods, NEW catalog \in SUBSET Tracks,
           NEW playable, NEW history, NEW startMoods,
           NEW out \in Replan(catalog, playable, r, history), out.cause = "none"
    PROVE  /\ ReachesTarget(r) => ReachesTarget(out.rec)
           /\ FutureFollows(out.rec, startMoods)
<1>1. /\ Locked(r) = r.index + 1 /\ r.index \in Nat /\ Len(r.queue) \in Nat
      /\ Remaining(r) \in Int
  BY DEF Record, Locked, Remaining
<1>2. CASE Locked(r) >= Len(r.queue)
  <2>1. out = Done(r, FALSE, FALSE)
    BY <1>2 DEF Replan
  <2>2. out.rec = r
    BY <2>1 DEF Done
  <2> QED
    BY <1>1, <1>2, <2>2 DEF FutureFollows
<1>3. CASE ~(Locked(r) >= Len(r.queue))
  <2>1. Buildable(catalog, LockedTracks(r), history, Remaining(r))
    <3> SUFFICES ASSUME ~ Buildable(catalog, LockedTracks(r), history, Remaining(r))
                 PROVE  FALSE
      OBVIOUS
    <3>1. out = Fail(r, "build")
      BY <1>3 DEF Replan
    <3> QED
      BY <3>1 DEF Fail
  <2>2. PICK sel \in Selections(catalog, LockedTracks(r), Remaining(r)) :
           out = IF \A i \in 1..Remaining(r) : sel[i] \in playable
                 THEN Done([r EXCEPT !.queue = Requeue(r, sel)], TRUE,
                           \E i \in 1..Remaining(r) : sel[i] # r.queue[Locked(r) + i].track)
                 ELSE Fail(r, "audio")
    BY <1>3, <2>1 DEF Replan
  <2>3. \A i \in 1..Remaining(r) : sel[i] \in playable
    BY <2>2 DEF Fail
  <2>4. out.rec = [r EXCEPT !.queue = Requeue(r, sel)]
    BY <2>2, <2>3 DEF Done
  <2>5. Locked(r) < Len(r.queue) /\ sel \in [1..Remaining(r) -> Tracks]
    BY <1>1, <1>3 DEF Selections
  <2>6. out.rec \in Record
    BY ReplanKeeps DEF Outcome
  <2>7. /\ ReachesTarget(out.rec)
        /\ r.index + 2 < Len(r.queue) => FuturePath(out.rec, ListenerMood(out.rec))
    BY <2>4, <2>5, <2>6, RequeuePath
  <2>8. out.rec.index = r.index /\ Len(out.rec.queue) = Len(r.queue)
    BY <2>4, <2>5, RequeueKeeps DEF Record
  <2> QED
    BY <2>7, <2>8 DEF FutureFollows
<1> QED
  BY <1>2, <1>3

\* The first plan of a session reaches its target and starts where the listener did.
LEMMA FirstPath ==
    ASSUME NEW startMoods, NEW start \in startMoods, NEW target, NEW n \in Nat \ {0},
           NEW sel, Len(NewQueue(start, target, sel, n)) = n
    PROVE  /\ ReachesTarget(FirstRecord(start, target, sel, n))
           /\ FutureFollows(FirstRecord(start, target, sel, n), startMoods)
<1> DEFINE q == NewQueue(start, target, sel, n)
           r == FirstRecord(start, target, sel, n)
<1>1. /\ r.queue = q /\ r.index = 0 /\ r.target = target /\ r.checkIn = None
      /\ \A i \in 1..n : q[i].path = PathPoint(start, target, i - 1, n)
  BY DEF FirstRecord, NewQueue
<1> HIDE DEF q, r
<1>2. ReachesTarget(r)
  <2> SUFFICES ASSUME n > 1 PROVE q[n].path = target
    BY <1>1 DEF ReachesTarget, q
  <2> QED
    BY <1>1, PathEnds
<1>3. FirstPlan(r, startMoods)
  BY <1>1 DEF FirstPlan, q
<1> QED
  BY <1>2, <1>3 DEF FutureFollows, r

\* An accepted event, check-in or deletion of check-ins keeps the path.
LEMMA EventPath ==
    ASSUME NEW r \in Record, r.target \in Moods, PositionOK(r), NEW startMoods,
           NEW catalog \in SUBSET Tracks, NEW playable, NEW history, NEW e \in Event,
           NEW out \in ApplyEvent(catalog, playable, r, history, e), out.cause = "none"
    PROVE  PathKept(r, out.rec, startMoods)
<1> DEFINE mid == Played(r, e)
<1>0. e.rev = r.revision /\ EventFault(catalog, r, e) = "none"
  <2>1. CASE e.rev # r.revision
    BY <2>1 DEF ApplyEvent, Fail
  <2>2. CASE e.rev = r.revision /\ EventFault(catalog, r, e) # "none"
    <3>1. out = Fail(r, EventFault(catalog, r, e))
      BY <2>2 DEF ApplyEvent
    <3> QED
      BY <2>2, <3>1 DEF Fail
  <2> QED
    BY <2>1, <2>2
<1>1. /\ Len(out.rec.queue) = Len(r.queue) /\ PositionOK(out.rec)
      /\ out.rec.status = mid.status
  <2>1. Succeeds(r, out.rec) /\ out.rec.status = mid.status
    BY EventKeeps
  <2> QED
    BY <2>1 DEF Succeeds
<1>2. mid.queue = r.queue /\ mid.target = r.target
  BY DEF Played, Record
<1>3. CASE e.type = "start"
  <2>1. out.rec = mid
    BY <1>0, <1>3 DEF ApplyEvent, Done
  <2>2. mid.index = r.index /\ mid.checkIn = r.checkIn
    BY <1>3 DEF Played, Record, Moves
  <2> QED
    BY <1>2, <2>1, <2>2, SamePath
<1>4. CASE e.type # "start" /\ mid.status = "completed"
  <2>1. out.rec = mid
    BY <1>0, <1>4 DEF ApplyEvent, Done
  <2>2. out.rec.index = Len(r.queue) /\ Len(r.queue) \in Nat
    BY <1>1, <1>4 DEF PositionOK, Record
  <2>3. ~(out.rec.index + 2 < Len(out.rec.queue))
    BY <1>1, <2>2
  <2> QED
    BY <1>2, <2>1, <2>3 DEF PathKept, ReachesTarget, FutureFollows
<1>5. CASE e.type # "start" /\ mid.status # "completed"
  <2>1. out \in Replan(catalog, playable, mid, Append(history, e))
    BY <1>0, <1>5 DEF ApplyEvent
  <2>2. mid \in Record
    <3>1. r.index + 1 \in Nat /\ r.revision + 1 \in Nat \ {0}
      BY DEF Record
    <3>2. CASE e.type \in Moves
      BY <3>1, <3>2 DEF Played, Record, Statuses
    <3>3. CASE e.type \notin Moves
      BY <1>5, <3>1, <3>3 DEF Played, Record
    <3> QED
      BY <3>2, <3>3
  <2> HIDE DEF mid
  <2>3. /\ ReachesTarget(mid) => ReachesTarget(out.rec)
        /\ FutureFollows(out.rec, startMoods)
    BY <1>2, <2>1, <2>2, ReplanPath
  <2> QED
    BY <1>2, <2>3 DEF PathKept, ReachesTarget
<1> QED
  BY <1>3, <1>4, <1>5

LEMMA CheckInPath ==
    ASSUME NEW r \in Record, r.target \in Moods, NEW startMoods,
           NEW catalog \in SUBSET Tracks, NEW playable, NEW history, NEW c \in CheckInInput,
           NEW out \in ApplyCheckIn(catalog, playable, r, history, c), out.cause = "none"
    PROVE  PathKept(r, out.rec, startMoods)
<1> DEFINE mid == [r EXCEPT !.checkIn = c.mood, !.revision = @ + 1]
<1>1. out \in Replan(catalog, playable, mid, history)
  BY DEF ApplyCheckIn, Fail
<1>2. mid \in Record /\ mid.target = r.target /\ mid.queue = r.queue
  <2>1. c.mood \in Moods /\ r.revision + 1 \in Nat \ {0}
    BY DEF Record, CheckInInput
  <2> QED
    BY <2>1 DEF Record
<1> HIDE DEF mid
<1>3. /\ ReachesTarget(mid) => ReachesTarget(out.rec)
      /\ FutureFollows(out.rec, startMoods)
  BY <1>1, <1>2, ReplanPath
<1> QED
  BY <1>2, <1>3 DEF PathKept, ReachesTarget

LEMMA ClearPath ==
    ASSUME NEW r \in Record, r.target \in Moods, PositionOK(r), NEW startMoods,
           NEW catalog \in SUBSET Tracks, NEW playable, NEW history, NEW rev,
           NEW out \in ClearCheckIns(catalog, playable, r, history, rev), out.cause = "none"
    PROVE  PathKept(r, out.rec, startMoods)
<1> DEFINE mid == [r EXCEPT !.checkIn = None, !.revision = @ + 1]
<1>1. IF r.status = "completed" THEN out = Done(mid, FALSE, FALSE)
      ELSE out \in Replan(catalog, playable, mid, history)
  <2>1. CASE rev # r.revision
    BY <2>1 DEF ClearCheckIns, Fail
  <2>2. CASE rev = r.revision
    BY <2>2 DEF ClearCheckIns
  <2> QED
    BY <2>1, <2>2
<1>2. mid \in Record /\ mid.target = r.target /\ mid.queue = r.queue /\ mid.index = r.index
  <2>1. None \in Moods \cup {None} /\ r.revision + 1 \in Nat \ {0}
    BY DEF Record
  <2> QED
    BY <2>1 DEF Record
<1> HIDE DEF mid
<1>3. CASE r.status = "completed"
  <2>1. out.rec = mid
    BY <1>1, <1>3 DEF Done
  <2>2. r.index = Len(r.queue) /\ Len(r.queue) \in Nat
    BY <1>3 DEF PositionOK, Record
  <2>3. ~(mid.index + 2 < Len(mid.queue))
    BY <1>2, <2>2
  <2> QED
    BY <1>2, <2>1, <2>3 DEF PathKept, ReachesTarget, FutureFollows
<1>4. CASE r.status # "completed"
  <2>1. /\ ReachesTarget(mid) => ReachesTarget(out.rec)
        /\ FutureFollows(out.rec, startMoods)
    BY <1>1, <1>2, <1>4, ReplanPath
  <2> QED
    BY <1>2, <2>1 DEF PathKept, ReachesTarget
<1> QED
  BY <1>3, <1>4
-----------------------------------------------------------------------------
(* What the contract of session.Store asks of an accepted change.          *)

\* The rules' outcome is a locked-slots step.
LEMMA SucceedsKeepsLocked ==
    ASSUME NEW r, NEW new, Succeeds(r, new), new.index \in {r.index, r.index + 1}
    PROVE  LockedKept(r, new)
BY DEF Succeeds, LockedKept

\* An accepted event is about the track being played; a like, about one queued by now.
LEMMA EventPlace ==
    ASSUME NEW r \in Record, PositionOK(r), NEW e, Eligible(r, e), SlotsOf(r, e.track) # {}
    PROVE  IF e.type = "like"
           THEN \E i \in 1..Len(r.queue) : i <= r.index + 1 /\ r.queue[i].track = e.track
           ELSE r.index < Len(r.queue) /\ r.queue[r.index + 1].track = e.track
<1>1. r.index \in Nat /\ Len(r.queue) \in Nat
  BY DEF Record
<1>2. CASE e.type = "like" /\ r.status = "completed"
  <2>1. PICK i \in 1..Len(r.queue) : r.queue[i].track = e.track
    BY DEF SlotsOf
  <2>2. r.index = Len(r.queue)
    BY <1>2 DEF PositionOK
  <2> QED
    BY <1>1, <1>2, <2>1, <2>2
<1>3. CASE e.type = "like" /\ r.status # "completed"
  BY <1>3 DEF Eligible, SlotsOf
<1>4. CASE e.type # "like"
  <2>1. r.index + 1 \in SlotsOf(r, e.track)
    BY <1>4 DEF Eligible, IsSlotOf
  <2> QED
    BY <1>1, <1>4, <2>1 DEF SlotsOf
<1> QED
  BY <1>2, <1>3, <1>4

\* The position, status and last action after an accepted event.
LEMMA EventOutcome ==
    ASSUME NEW r \in Record, r.target \in Moods, PositionOK(r), Orderly(r.queue),
           NEW catalog \in SUBSET Tracks, NEW playable, NEW history, NEW e \in Event,
           NEW out \in ApplyEvent(catalog, playable, r, history, e), out.cause = "none"
    PROVE  LET new == out.rec
           IN  /\ LockedKept(r, new) /\ Orderly(new.queue)
               /\ new.index = IF e.type \in Moves THEN r.index + 1 ELSE r.index
               /\ new.lastAction = IF e.type \in Moves THEN e.type ELSE r.lastAction
               /\ new.status = IF e.type \in Moves
                               THEN IF new.index = Len(r.queue) THEN "completed" ELSE "active"
                               ELSE IF e.type = "start" /\ r.status = "ready" THEN "active"
                               ELSE r.status
<1> DEFINE new == out.rec
<1>1. /\ Succeeds(r, new)
      /\ new.index = IF e.type \in Moves THEN r.index + 1 ELSE r.index
      /\ new.status = Played(r, e).status /\ new.lastAction = Played(r, e).lastAction
  BY EventKeeps
<1>2. LockedKept(r, new) /\ Orderly(new.queue)
  BY <1>1, SucceedsKeepsLocked DEF Succeeds
<1>3. CASE e.type \in Moves
  <2>1. /\ new.lastAction = e.type
        /\ new.status = IF r.index + 1 >= Len(r.queue) THEN "completed" ELSE "active"
    BY <1>1, <1>3 DEF Played, Record
  <2>2. new.index <= Len(r.queue) /\ new.index = r.index + 1
    BY <1>1, <1>3 DEF Succeeds, PositionOK
  <2>3. r.index \in Nat /\ Len(r.queue) \in Nat
    BY DEF Record
  <2>4. r.index + 1 >= Len(r.queue) <=> new.index = Len(r.queue)
    BY <2>2, <2>3
  <2> QED
    BY <1>1, <1>2, <1>3, <2>1, <2>4
<1>4. CASE e.type \notin Moves
  BY <1>1, <1>2, <1>4 DEF Played, Record
<1> QED
  BY <1>3, <1>4
-----------------------------------------------------------------------------
(* The trail beside the record.                                            *)

LEMMA MovesFinite ==
    ASSUME NEW log \in Seq(Event), NEW k \in 0..Len(log)
    PROVE  /\ IsFiniteSet(MovesUpTo(log, k))
           /\ Cardinality(MovesUpTo(log, k)) \in Nat
           /\ IsFiniteSet(MovesUpTo(log, Len(log)))
           /\ Cardinality(MovesUpTo(log, k)) <= Cardinality(MovesUpTo(log, Len(log)))
<1>1. k \in Int /\ Len(log) \in Nat
  OBVIOUS
<1>2. IsFiniteSet(1..Len(log))
  BY <1>1, FS_Interval
<1>3. MovesUpTo(log, k) \subseteq MovesUpTo(log, Len(log))
  BY <1>1 DEF MovesUpTo
<1>4. MovesUpTo(log, Len(log)) \subseteq 1..Len(log)
  BY DEF MovesUpTo
<1>5. IsFiniteSet(MovesUpTo(log, Len(log)))
  BY <1>2, <1>4, FS_Subset
<1>6. /\ IsFiniteSet(MovesUpTo(log, k))
      /\ Cardinality(MovesUpTo(log, k)) <= Cardinality(MovesUpTo(log, Len(log)))
  BY <1>3, <1>5, FS_Subset
<1> QED
  BY <1>5, <1>6, FS_CardinalityType

LEMMA MovesAppend ==
    ASSUME NEW log \in Seq(Event), NEW e \in Event
    PROVE  LET longer == Append(log, e)
               moves == MovesUpTo(log, Len(log))
           IN  /\ longer \in Seq(Event)
               /\ Len(longer) = Len(log) + 1
               /\ \A k \in 1..Len(log) : longer[k] = log[k]
               /\ longer[Len(log) + 1] = e
               /\ \A k \in 0..Len(log) : MovesUpTo(longer, k) = MovesUpTo(log, k)
               /\ Cardinality(MovesUpTo(longer, Len(longer))) =
                    IF e.type \in Moves THEN Cardinality(moves) + 1 ELSE Cardinality(moves)
<1> DEFINE longer == Append(log, e)
           moves == MovesUpTo(log, Len(log))
           last == Len(log) + 1
<1>1. /\ longer \in Seq(Event) /\ Len(longer) = last /\ Len(log) \in Nat
      /\ \A k \in 1..Len(log) : longer[k] = log[k]
      /\ longer[last] = e
  OBVIOUS
<1> HIDE DEF longer
<1>2. \A k \in 0..Len(log) : MovesUpTo(longer, k) = MovesUpTo(log, k)
  <2> TAKE k \in 0..Len(log)
  <2>1. \A j \in 1..k : j \in 1..Len(log)
    BY <1>1
  <2> QED
    BY <1>1, <2>1 DEF MovesUpTo
<1>3. MovesUpTo(longer, last) = IF e.type \in Moves THEN moves \cup {last} ELSE moves
  <2>1. 1..last = 1..Len(log) \cup {last}
    BY <1>1
  <2> QED
    BY <1>1, <2>1 DEF MovesUpTo
<1>4. last \notin moves
  BY <1>1 DEF MovesUpTo
<1>5. IsFiniteSet(moves)
  <2>1. Len(log) \in 0..Len(log)
    BY <1>1
  <2> QED
    BY <2>1, MovesFinite
<1>6. Cardinality(moves \cup {last}) = Cardinality(moves) + 1
  BY <1>4, <1>5, FS_AddElement
<1>7. Cardinality(MovesUpTo(longer, Len(longer))) =
        IF e.type \in Moves THEN Cardinality(moves) + 1 ELSE Cardinality(moves)
  BY <1>1, <1>3, <1>6
<1> QED
  BY <1>1, <1>2, <1>7 DEF longer

\* An operation that accepts no event leaves the trail in agreement with the record.
LEMMA TrailKept ==
    ASSUME NEW r \in Record, NEW new, NEW log \in Seq(Event), Succeeds(r, new),
           new.index = r.index, AuditMatches(r, log), InRevisionOrder(r, log)
    PROVE  AuditMatches(new, log) /\ InRevisionOrder(new, log)
<1>1. /\ Len(new.queue) = Len(r.queue) /\ r.revision \in Nat /\ new.revision = r.revision + 1
      /\ \A i \in 1..Len(r.queue) : i <= r.index + 1 => new.queue[i] = r.queue[i]
      /\ r.index \in Nat /\ Len(r.queue) \in Nat
  BY DEF Succeeds, Record
<1>2. \A k \in 1..Len(log) : PassedBefore(log, k) \in Nat /\ PassedBefore(log, k) <= r.index
  <2> TAKE k \in 1..Len(log)
  <2>1. k - 1 \in 0..Len(log)
    OBVIOUS
  <2> QED
    BY <2>1, MovesFinite DEF PassedBefore, AuditMatches
<1>3. ASSUME NEW k \in 1..Len(log), log[k].type # "like"
      PROVE  /\ PassedBefore(log, k) < Len(new.queue)
             /\ log[k].track = new.queue[PassedBefore(log, k) + 1].track
  <2>1. /\ PassedBefore(log, k) < Len(r.queue)
        /\ log[k].track = r.queue[PassedBefore(log, k) + 1].track
    BY <1>3 DEF AuditMatches
  <2>2. /\ PassedBefore(log, k) + 1 \in 1..Len(r.queue)
        /\ PassedBefore(log, k) + 1 <= r.index + 1
    BY <1>1, <1>2, <2>1
  <2> QED
    BY <1>1, <2>1, <2>2
<1>4. ASSUME NEW k \in 1..Len(log), log[k].type = "like"
      PROVE  \E i \in 1..Len(new.queue) :
                i <= PassedBefore(log, k) + 1 /\ new.queue[i].track = log[k].track
  <2>1. PICK i \in 1..Len(r.queue) :
           i <= PassedBefore(log, k) + 1 /\ r.queue[i].track = log[k].track
    BY <1>4 DEF AuditMatches
  <2>2. i <= r.index + 1
    BY <1>1, <1>2, <2>1
  <2> QED
    BY <1>1, <2>1, <2>2
<1>5. AuditMatches(new, log)
  BY <1>3, <1>4 DEF AuditMatches
<1>6. InRevisionOrder(new, log)
  <2>1. \A k \in 1..Len(log) : log[k].rev \in Nat
    <3>1. \A k \in 1..Len(log) : log[k] \in Event
      OBVIOUS
    <3> QED
      BY <3>1 DEF Event
  <2> QED
    BY <1>1, <2>1 DEF InRevisionOrder
<1> QED
  BY <1>5, <1>6

\* An accepted event extends the trail in agreement with the record.
LEMMA TrailExtended ==
    ASSUME NEW r \in Record, NEW new, NEW log \in Seq(Event), NEW e \in Event,
           Succeeds(r, new), PositionOK(r), Eligible(r, e),
           SlotsOf(r, e.track) # {}, e.rev = r.revision,
           new.index = IF e.type \in Moves THEN r.index + 1 ELSE r.index,
           AuditMatches(r, log), InRevisionOrder(r, log)
    PROVE  AuditMatches(new, Append(log, e)) /\ InRevisionOrder(new, Append(log, e))
<1> DEFINE longer == Append(log, e)
           last == Len(log) + 1
<1>1. /\ Len(new.queue) = Len(r.queue) /\ new.revision = r.revision + 1
      /\ \A i \in 1..Len(r.queue) : i <= r.index + 1 => new.queue[i] = r.queue[i]
      /\ r.index \in Nat /\ Len(r.queue) \in Nat /\ r.revision \in Nat /\ Len(log) \in Nat
  BY DEF Succeeds, Record
<1>2. /\ longer \in Seq(Event) /\ Len(longer) = last
      /\ \A k \in 1..Len(log) : longer[k] = log[k]
      /\ longer[last] = e
      /\ \A k \in 0..Len(log) : MovesUpTo(longer, k) = MovesUpTo(log, k)
      /\ Cardinality(MovesUpTo(longer, Len(longer))) =
            IF e.type \in Moves THEN r.index + 1 ELSE r.index
  BY MovesAppend DEF AuditMatches
<1> HIDE DEF longer
<1>3. /\ \A k \in 1..Len(log) :
            /\ PassedBefore(longer, k) = PassedBefore(log, k)
            /\ PassedBefore(log, k) \in Nat
            /\ PassedBefore(log, k) <= r.index
      /\ PassedBefore(longer, last) = r.index
  <2>1. ASSUME NEW k \in 1..Len(log)
        PROVE  /\ PassedBefore(longer, k) = PassedBefore(log, k)
               /\ PassedBefore(log, k) \in Nat
               /\ PassedBefore(log, k) <= r.index
    <3>1. k - 1 \in 0..Len(log)
      OBVIOUS
    <3> QED
      BY <1>2, <3>1, MovesFinite DEF PassedBefore, AuditMatches
  <2>2. last - 1 = Len(log) /\ Len(log) \in 0..Len(log)
    BY <1>1
  <2>3. PassedBefore(longer, last) = r.index
    BY <1>2, <2>2 DEF PassedBefore, AuditMatches
  <2> QED
    BY <2>1, <2>3
<1>4. ASSUME NEW k \in 1..Len(longer), longer[k].type # "like"
      PROVE  /\ PassedBefore(longer, k) < Len(new.queue)
             /\ longer[k].track = new.queue[PassedBefore(longer, k) + 1].track
  <2>1. CASE k \in 1..Len(log)
    <3>1. /\ PassedBefore(log, k) < Len(r.queue)
          /\ log[k].track = r.queue[PassedBefore(log, k) + 1].track
      BY <1>2, <1>4, <2>1 DEF AuditMatches
    <3>2. /\ PassedBefore(log, k) + 1 \in 1..Len(r.queue)
          /\ PassedBefore(log, k) + 1 <= r.index + 1
      BY <1>1, <1>3, <2>1, <3>1
    <3> QED
      BY <1>1, <1>2, <1>3, <2>1, <3>1, <3>2
  <2>2. CASE k = last
    <3>1. r.status # "completed" /\ IsSlotOf(r, e.track, r.index + 1)
      BY <1>2, <1>4, <2>2 DEF Eligible
    <3>2. r.index + 1 \in 1..Len(r.queue) /\ r.queue[r.index + 1].track = e.track
      BY <3>1 DEF IsSlotOf, SlotsOf
    <3>3. new.queue[r.index + 1].track = e.track /\ r.index < Len(new.queue)
      BY <1>1, <3>2
    <3>4. PassedBefore(longer, k) = r.index /\ longer[k] = e
      BY <1>2, <1>3, <2>2
    <3> QED
      BY <3>3, <3>4
  <2> QED
    BY <1>1, <1>2, <2>1, <2>2
<1>5. ASSUME NEW k \in 1..Len(longer), longer[k].type = "like"
      PROVE  \E i \in 1..Len(new.queue) :
                i <= PassedBefore(longer, k) + 1 /\ new.queue[i].track = longer[k].track
  <2>1. CASE k \in 1..Len(log)
    <3>1. PICK i \in 1..Len(r.queue) :
             i <= PassedBefore(log, k) + 1 /\ r.queue[i].track = log[k].track
      BY <1>2, <1>5, <2>1 DEF AuditMatches
    <3>2. i <= r.index + 1
      BY <1>1, <1>3, <2>1, <3>1
    <3> QED
      BY <1>1, <1>2, <1>3, <2>1, <3>1, <3>2
  <2>2. CASE k = last
    <3>1. \E i \in 1..Len(r.queue) : i <= r.index + 1 /\ r.queue[i].track = e.track
      <4>1. CASE r.status = "completed"
        <5>1. SlotsOf(r, e.track) # {} => \E i \in 1..Len(r.queue) : r.queue[i].track = e.track
          BY DEF SlotsOf
        <5>2. r.index = Len(r.queue)
          BY <4>1 DEF PositionOK
        <5> QED
          BY <1>1, <5>1, <5>2
      <4>2. CASE r.status # "completed"
        BY <1>2, <1>5, <2>2, <4>2 DEF Eligible, SlotsOf
      <4> QED
        BY <4>1, <4>2
    <3>2. PICK i \in 1..Len(r.queue) : i <= r.index + 1 /\ r.queue[i].track = e.track
      BY <3>1
    <3> QED
      BY <1>1, <1>2, <1>3, <2>2, <3>2
  <2> QED
    BY <1>1, <1>2, <2>1, <2>2
<1>6. AuditMatches(new, longer)
  BY <1>2, <1>4, <1>5 DEF AuditMatches
<1>7. InRevisionOrder(new, longer)
  <2>1. \A k \in 1..Len(log) : log[k].rev \in Nat /\ log[k].rev < r.revision
    <3>1. \A k \in 1..Len(log) : log[k] \in Event
      OBVIOUS
    <3> QED
      BY <3>1 DEF Event, InRevisionOrder
  <2> SUFFICES ASSUME NEW k \in 1..Len(longer)
               PROVE  /\ longer[k].rev < new.revision
                      /\ \A j \in 1..(k - 1) : longer[j].rev < longer[k].rev
    BY DEF InRevisionOrder
  <2>2. CASE k \in 1..Len(log)
    <3>1. \A j \in 1..(k - 1) : j \in 1..Len(log)
      BY <1>1, <2>2
    <3>2. \A j \in 1..(k - 1) : log[j].rev < log[k].rev
      BY <2>2 DEF InRevisionOrder
    <3>3. longer[k] = log[k] /\ \A j \in 1..(k - 1) : longer[j] = log[j]
      BY <1>2, <2>2, <3>1
    <3>4. log[k].rev < new.revision
      BY <1>1, <2>1, <2>2
    <3> QED
      BY <3>2, <3>3, <3>4
  <2>3. CASE k = last
    <3>1. \A j \in 1..(k - 1) : j \in 1..Len(log)
      BY <1>1, <2>3
    <3>2. longer[k] = e /\ \A j \in 1..(k - 1) : longer[j] = log[j]
      BY <1>2, <2>3, <3>1
    <3>3. e.rev < new.revision /\ \A j \in 1..(k - 1) : log[j].rev < e.rev
      BY <1>1, <2>1, <3>1
    <3> QED
      BY <3>2, <3>3
  <2> QED
    BY <1>1, <1>2, <2>2, <2>3
<1> QED
  BY <1>6, <1>7 DEF longer

\* An operation that accepts no event leaves status and last action as the trail has them.
LEMMA StatusKept ==
    ASSUME NEW r, NEW new, NEW log, Succeeds(r, new), new.status = r.status,
           new.lastAction = r.lastAction, StatusMatches(r, log)
    PROVE  StatusMatches(new, log)
BY DEF Succeeds, StatusMatches

\* An accepted event gives the record the status and last action the longer trail implies.
LEMMA StatusExtended ==
    ASSUME NEW r \in Record, NEW new, NEW log \in Seq(Event), NEW e \in Event,
           Succeeds(r, new), new.status = Played(r, e).status,
           new.lastAction = Played(r, e).lastAction, StatusMatches(r, log)
    PROVE  StatusMatches(new, Append(log, e))
<1> DEFINE longer == Append(log, e)
           last == Len(log) + 1
           moves == MovesUpTo(log, Len(log))
           all == MovesUpTo(longer, Len(longer))
<1>1. /\ longer \in Seq(Event) /\ Len(longer) = last /\ Len(log) \in Nat
      /\ \A k \in 1..Len(log) : longer[k] = log[k]
      /\ longer[last] = e
  BY MovesAppend
<1>2. all = IF e.type \in Moves THEN moves \cup {last} ELSE moves
  <2>1. 1..last = 1..Len(log) \cup {last} /\ last \notin 1..Len(log)
    BY <1>1
  <2> QED
    BY <1>1, <2>1 DEF MovesUpTo
<1>3. \A k \in moves : k \in 1..Len(log) /\ k < last /\ longer[k] = log[k]
  BY <1>1 DEF MovesUpTo
<1>4. \A k \in 1..last : k \in 1..Len(log) \/ k = last
  BY <1>1
<1>5. PositionOK(new)
  BY DEF Succeeds
<1> HIDE DEF longer, all, moves
<1>6. CASE e.type \in Moves
  <2>1. new.status # "ready" /\ new.lastAction = e.type
    BY <1>6 DEF Played, Record
  <2>2. e.type # None /\ e.type \notin {"like", "replay"}
    BY <1>6, RulesAssumption DEF Moves
  <2>3. last \in 1..Len(longer) /\ last \in all
    BY <1>1, <1>2, <1>6
  <2>4. ASSUME NEW k \in all, \A j \in all : j <= k PROVE new.lastAction = longer[k].type
    <3>1. last <= k
      BY <2>3, <2>4
    <3>2. k = last
      BY <1>1, <1>2, <1>3, <1>6, <2>4, <3>1
    <3> QED
      BY <1>1, <2>1, <3>2
  <2>5. new.status = "ready" <=> \A k \in 1..Len(longer) : longer[k].type \in {"like", "replay"}
    BY <1>1, <2>1, <2>2, <2>3
  <2>6. new.lastAction = None <=> all = {}
    BY <2>1, <2>2, <2>3
  <2> QED
    BY <1>5, <2>4, <2>5, <2>6 DEF StatusMatches, all, longer
<1>7. CASE e.type \notin Moves
  <2>1. /\ new.lastAction = r.lastAction
        /\ new.status = IF e.type = "start" /\ r.status = "ready" THEN "active" ELSE r.status
    BY <1>7 DEF Played, Record
  <2>2. all = moves
    BY <1>2, <1>7
  <2>3. /\ r.status = "ready" <=> \A k \in 1..Len(log) : log[k].type \in {"like", "replay"}
        /\ r.lastAction = None <=> moves = {}
        /\ \A k \in moves : (\A j \in moves : j <= k) => r.lastAction = log[k].type
    BY DEF StatusMatches, moves
  <2>4. e.type = "start" \/ e.type \in {"like", "replay"}
    BY <1>7 DEF Event, EventTypes, Moves
  <2>5. (\A k \in 1..Len(longer) : longer[k].type \in {"like", "replay"})
           <=> e.type # "start" /\ \A k \in 1..Len(log) : log[k].type \in {"like", "replay"}
    <3>1. last \in 1..Len(longer) /\ \A k \in 1..Len(log) : k \in 1..Len(longer)
      BY <1>1
    <3>2. "start" \notin {"like", "replay"}
      OBVIOUS
    <3> QED
      BY <1>1, <1>4, <2>4, <3>1, <3>2
  <2>6. new.status = "ready" <=> e.type # "start" /\ r.status = "ready"
    BY <2>1
  <2>7. new.status = "ready" <=> \A k \in 1..Len(longer) : longer[k].type \in {"like", "replay"}
    BY <2>3, <2>5, <2>6
  <2>8. ASSUME NEW k \in all, \A j \in all : j <= k PROVE new.lastAction = longer[k].type
    BY <1>3, <2>1, <2>2, <2>3, <2>8
  <2>9. new.lastAction = None <=> all = {}
    BY <2>1, <2>2, <2>3
  <2> QED
    BY <1>5, <2>7, <2>8, <2>9 DEF StatusMatches, all, longer
<1> QED
  BY <1>6, <1>7
=============================================================================

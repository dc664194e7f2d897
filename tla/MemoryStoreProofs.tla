-------------------------- MODULE MemoryStoreProofs --------------------------
(***************************************************************************)
(* The invariant of MemoryStore, for every set of sessions, tracks, event  *)
(* IDs and workers and every bound on the revision.                        *)
(*                                                                         *)
(* An operation touches one session, so the invariant is carried as a      *)
(* statement about one session's values (SessionGood) and each action      *)
(* shows that the session it touches stays good and the others are left    *)
(* alone.  The client of ListeningClient is shown to be one of the callers *)
(* the store allows for.                                                   *)
(***************************************************************************)
EXTENDS ListeningClient, SessionRulesProofs

TypeStore ==
    /\ records \in [Sessions -> Record \cup {None}]
    /\ events \in [Sessions -> Seq(Event)]
    /\ checkIns \in [Sessions -> Seq(Moods)]
    /\ results \in [Sessions -> [EventIds -> Result \cup {None}]]

IssuedFirst == issued \subseteq Sessions /\ ExpiredWereIssued

RecordGood(r, log, list) ==
    /\ r.target # None /\ PositionOK(r) /\ Orderly(r.queue)
    /\ AuditMatches(r, log) /\ InRevisionOrder(r, log) /\ StatusMatches(r, log)
    /\ CheckInMatches(r, list)
    /\ ReachesTarget(r) /\ FutureFollows(r, StartMoods)

SessionGood(s) ==
    /\ records[s] # None => s \in issued /\ RecordGood(records[s], events[s], checkIns[s])
    /\ records[s] = None => events[s] = <<>> /\ checkIns[s] = <<>>
    /\ \A k \in 1..Len(events[s]) :
          Known(s, events[s][k].id) /\ EntryOf(s, events[s][k].id) = {k}

LEMMA IInvParts ==
    IInv <=> TypeOK /\ ExpiredWereIssued /\ \A s \in Sessions : SessionGood(s)
BY DEF IInv, RecordsSound, NoOrphans, QueueSound, CheckInAgrees, AuditMatchesQueue,
       AuditInRevisionOrder, RetriesRecognised, StatusAgrees, DestinationKept,
       FutureFollowsListener, SessionGood, RecordGood, Live

\* What a step owes to the caller: a well-typed response that shows nothing stale.
ReplyGood == reply' \in Reply /\ ReplyShowsStored

LEMMA ReplyType ==
    ASSUME NEW op \in Ops, NEW s \in Sessions \cup {None}, NEW status \in Nat,
           NEW cause \in Causes \cup {"notFound"}, NEW session \in Record \cup {None},
           NEW items \in Seq(Event) \cup Seq(Moods), NEW changed \in BOOLEAN,
           Respond(op, s, status, cause, session, items, changed),
           session # None => session = records'[s]
    PROVE  ReplyGood
<1>1. reply' \in Reply
  BY DEF Respond, Reply
<1>2. reply'.session = session /\ reply'.sid = s
  BY DEF Respond
<1> QED
  BY <1>1, <1>2 DEF ReplyGood, ReplyShowsStored

LEMMA ReplyUnchanged ==
    ASSUME reply \in Reply, reply' = reply
    PROVE  ReplyGood
BY DEF ReplyGood, ReplyShowsStored

LEMMA RefuseType ==
    ASSUME NEW op \in Ops, NEW s \in Sessions \cup {None}, NEW status \in Nat,
           NEW cause \in Causes \cup {"notFound"}, Refuse(op, s, status, cause)
    PROVE  ReplyGood
<1>1. <<>> \in Seq(Event) \cup Seq(Moods)
  OBVIOUS
<1> QED
  BY <1>1, ReplyType DEF Refuse

LEMMA ErrorStatusType ==
    ASSUME NEW op, NEW cause
    PROVE  ErrorStatus(op, cause) \in Nat
BY DEF ErrorStatus

LEMMA NotFoundType ==
    ASSUME NEW op \in Ops, NEW s \in Sessions, NotFound(op, s)
    PROVE  ReplyGood
BY RefuseType, ErrorStatusType DEF NotFound

LEMMA AnswerType ==
    ASSUME NEW op \in Ops, NEW s \in Sessions, NEW session \in Record,
           NEW changed \in BOOLEAN, Answer(op, s, session, changed),
           session = records'[s]
    PROVE  ReplyGood
<1>1. <<>> \in Seq(Event) \cup Seq(Moods) /\ "none" \in Causes
  BY DEF Causes
<1> QED
  BY <1>1, ReplyType DEF Answer
-----------------------------------------------------------------------------
\* A session whose values do not change stays good, even when more IDs are issued.
LEMMA Untouched ==
    ASSUME NEW s \in Sessions, SessionGood(s), issued \subseteq issued',
           records'[s] = records[s], events'[s] = events[s],
           checkIns'[s] = checkIns[s], results'[s] = results[s]
    PROVE  SessionGood(s)'
BY DEF SessionGood, RecordGood, Known, EntryOf

\* The step of the contract that an action takes, or none.
ContractStep == Contract!ContractNext \/ UNCHANGED <<records, events, checkIns>>

\* What an action owes: store types, every session good, locked slots fixed, expired
\* sessions left alone, the contract kept.
StepGood ==
    /\ TypeStore'
    /\ \A s \in Sessions : SessionGood(s)'
    /\ LockedSlotsFixed
    /\ ExpiredOnlyRemoved
    /\ ContractStep

LEMMA StoreUnchanged ==
    ASSUME TypeStore, \A s \in Sessions : SessionGood(s), issued \subseteq issued',
           UNCHANGED store
    PROVE  StepGood
<1>1. TypeStore'
  BY DEF TypeStore, store
<1>2. \A s \in Sessions : SessionGood(s)'
  BY Untouched DEF store
<1>3. ASSUME NEW s \in Sessions, records[s] # None, records'[s] # None
      PROVE  LockedKept(records[s], records'[s])
  <2>1. records'[s] = records[s] /\ records[s] \in Record
    BY <1>3 DEF store, TypeStore
  <2> QED
    BY <2>1 DEF LockedKept, Record
<1>4. ExpiredOnlyRemoved /\ ContractStep
  BY DEF ExpiredOnlyRemoved, ContractStep, store
<1> QED
  BY <1>1, <1>2, <1>3, <1>4 DEF StepGood, LockedSlotsFixed

\* One session's values change, to values that are good.
LEMMA OneSessionChanges ==
    ASSUME TypeStore, IssuedFirst, \A t \in Sessions : SessionGood(t),
           issued \subseteq issued', NEW s \in Sessions, s \notin expired, SessionGood(s)', TypeStore', Contract!ContractNext,
           \A t \in Sessions \ {s} :
              /\ records'[t] = records[t] /\ events'[t] = events[t]
              /\ checkIns'[t] = checkIns[t] /\ results'[t] = results[t],
           records[s] # None /\ records'[s] # None => LockedKept(records[s], records'[s])
    PROVE  StepGood
<1>1. \A t \in Sessions : SessionGood(t)'
  BY Untouched
<1>2. ASSUME NEW t \in Sessions, records[t] # None, records'[t] # None
      PROVE  LockedKept(records[t], records'[t])
  <2>1. CASE t = s
    BY <1>2, <2>1
  <2>2. CASE t # s
    <3>1. records'[t] = records[t] /\ records[t] \in Record
      BY <1>2, <2>2 DEF TypeStore
    <3> QED
      BY <3>1 DEF LockedKept, Record
  <2> QED
    BY <2>1, <2>2
<1>3. ExpiredOnlyRemoved
  <2> SUFFICES ASSUME NEW t \in expired
               PROVE  records'[t] = records[t] /\ events'[t] = events[t] /\ checkIns'[t] = checkIns[t]
    BY DEF ExpiredOnlyRemoved
  <2>1. t \in Sessions \ {s}
    BY DEF IssuedFirst, ExpiredWereIssued
  <2> QED
    BY <2>1
<1> QED
  BY <1>1, <1>2, <1>3 DEF StepGood, LockedSlotsFixed, ContractStep
-----------------------------------------------------------------------------
\* The record a session is stored with is ready for every rule lemma.
LEMMA StoredRecord ==
    ASSUME TypeStore, NEW s \in Sessions, SessionGood(s), ~ Hidden(s)
    PROVE  /\ records[s] \in Record /\ records[s] # None
           /\ records[s].target \in Moods
           /\ RecordGood(records[s], events[s], checkIns[s])
           /\ s \in issued
           /\ events[s] \in Seq(Event) /\ checkIns[s] \in Seq(Moods)
<1>1. records[s] # None /\ records[s] \in Record
  BY DEF Hidden, TypeStore
<1>2. RecordGood(records[s], events[s], checkIns[s]) /\ s \in issued
  BY <1>1 DEF SessionGood
<1>3. records[s].target \in Moods
  BY <1>1, <1>2 DEF RecordGood, Record
<1> QED
  BY <1>1, <1>2, <1>3 DEF TypeStore

\* An accepted event: record, trail and result move together.
LEMMA AcceptedEvent ==
    ASSUME TypeStore, IssuedFirst, \A t \in Sessions : SessionGood(t), issued' = issued,
           NEW s \in Sessions, NEW e \in Event, ~ Hidden(s), ~ Known(s, e.id),
           NEW out \in ApplyEvent(Tracks, playable, records[s], events[s], e),
           out.cause = "none",
           records' = [records EXCEPT ![s] = out.rec],
           events' = [events EXCEPT ![s] = Append(@, e)],
           results' = [results EXCEPT ![s][e.id] =
                          [changed |-> out.changed, replanned |-> out.replanned,
                           session |-> out.rec]],
           UNCHANGED checkIns
    PROVE  StepGood /\ out \in Outcome
<1> DEFINE r == records[s]
           log == events[s]
           new == out.rec
           last == Len(log) + 1
           res == [changed |-> out.changed, replanned |-> out.replanned, session |-> new]
<1>1. /\ r \in Record /\ r # None /\ r.target \in Moods
      /\ RecordGood(r, log, checkIns[s]) /\ s \in issued /\ log \in Seq(Event)
  BY StoredRecord
<1>2. /\ out \in Outcome /\ Succeeds(r, new) /\ e.rev = r.revision
      /\ new.index = IF e.type \in Moves THEN r.index + 1 ELSE r.index
      /\ new.checkIn = r.checkIn /\ Eligible(r, e) /\ SlotsOf(r, e.track) # {}
      /\ new.status = Played(r, e).status /\ new.lastAction = Played(r, e).lastAction
  BY <1>1, EventKeeps DEF RecordGood
<1>3. new \in Record /\ new # None /\ new.target # None
  BY <1>1, <1>2, StoreAssumption DEF Succeeds, RecordGood
<1>4. res \in Result /\ res # None
  BY <1>2, <1>3, StoreAssumption DEF Result, Outcome
<1>5. /\ Append(log, e) \in Seq(Event) /\ Len(Append(log, e)) = last /\ Len(log) \in Nat
      /\ \A k \in 1..Len(log) : Append(log, e)[k] = log[k]
      /\ Append(log, e)[last] = e
  BY <1>1
<1>6. /\ records'[s] = new /\ events'[s] = Append(log, e) /\ checkIns'[s] = checkIns[s]
      /\ results'[s][e.id] = res
      /\ \A id \in EventIds : id # e.id => results'[s][id] = results[s][id]
  <2>1. e.id \in EventIds
    BY DEF Event
  <2> QED
    BY <2>1 DEF TypeStore
<1>7. TypeStore'
  <2>1. results' \in [Sessions -> [EventIds -> Result \cup {None}]]
    BY <1>4 DEF TypeStore
  <2> QED
    BY <1>3, <1>5, <2>1 DEF TypeStore
<1>8. RecordGood(new, Append(log, e), checkIns[s])
  <2>1. AuditMatches(new, Append(log, e)) /\ InRevisionOrder(new, Append(log, e))
    BY <1>1, <1>2, TrailExtended DEF RecordGood
  <2>2. PositionOK(new) /\ Orderly(new.queue)
    BY <1>1, <1>2 DEF Succeeds, RecordGood
  <2>3. CheckInMatches(new, checkIns[s])
    BY <1>1, <1>2 DEF RecordGood, CheckInMatches
  <2>4. StatusMatches(new, Append(log, e))
    BY <1>1, <1>2, StatusExtended DEF RecordGood
  <2>5. ReachesTarget(new) /\ FutureFollows(new, StartMoods)
    BY <1>1, EventPath DEF RecordGood, PathKept
  <2> QED
    BY <1>3, <2>1, <2>2, <2>3, <2>4, <2>5 DEF RecordGood
<1>a. ASSUME NEW j \in 1..Len(log)
      PROVE  /\ log[j].id \in EventIds /\ log[j].id # e.id
             /\ results[s][log[j].id] # None /\ EntryOf(s, log[j].id) = {j}
  <2>1. Known(s, log[j].id) /\ EntryOf(s, log[j].id) = {j}
    BY <1>a DEF SessionGood
  <2>2. log[j] \in Event
    BY <1>1, <1>a
  <2> QED
    BY <2>1, <2>2 DEF Known, Event
<1>9. ASSUME NEW k \in 1..Len(events'[s])
      PROVE  /\ results'[s][events'[s][k].id] # None
             /\ {j \in 1..Len(events'[s]) : events'[s][j].id = events'[s][k].id} = {k}
  <2>1. \A j \in 1..Len(log) :
           /\ log[j].id \in EventIds /\ log[j].id # e.id
           /\ results[s][log[j].id] # None /\ EntryOf(s, log[j].id) = {j}
    BY <1>a
  <2>2. CASE k \in 1..Len(log)
    <3>1. events'[s][k].id = log[k].id
      BY <1>5, <1>6, <2>2
    <3>2. results'[s][log[k].id] # None
      BY <1>6, <2>1, <2>2
    <3>3. \A j \in 1..last : Append(log, e)[j].id = log[k].id <=> j = k
      <4> TAKE j \in 1..last
      <4>1. CASE j \in 1..Len(log)
        BY <1>5, <2>1, <2>2, <4>1 DEF EntryOf
      <4>2. CASE j = last
        BY <1>5, <2>1, <2>2, <4>2
      <4> QED
        BY <1>5, <4>1, <4>2
    <3> QED
      BY <1>5, <1>6, <2>2, <3>1, <3>2, <3>3
  <2>3. CASE k = last
    <3>1. events'[s][k].id = e.id
      BY <1>5, <1>6, <2>3
    <3>2. \A j \in 1..last : Append(log, e)[j].id = e.id <=> j = last
      <4> TAKE j \in 1..last
      <4>1. CASE j \in 1..Len(log)
        BY <1>5, <2>1, <4>1
      <4>2. CASE j = last
        BY <1>5, <4>2
      <4> QED
        BY <1>5, <4>1, <4>2
    <3> QED
      BY <1>4, <1>5, <1>6, <2>3, <3>1, <3>2
  <2> QED
    BY <1>5, <1>6, <2>2, <2>3
<1>10. SessionGood(s)'
  <2>1. \A k \in 1..Len(events'[s]) :
           (Known(s, events[s][k].id) /\ EntryOf(s, events[s][k].id) = {k})'
    BY <1>9 DEF Known, EntryOf
  <2> QED
    BY <1>1, <1>3, <1>6, <1>8, <2>1 DEF SessionGood
<1>11. LockedKept(r, new)
  BY <1>2, SucceedsKeepsLocked
<1>12. \A t \in Sessions \ {s} :
          /\ records'[t] = records[t] /\ events'[t] = events[t]
          /\ checkIns'[t] = checkIns[t] /\ results'[t] = results[t]
  BY DEF TypeStore
<1>13. Contract!EventAccepted(s)
  <2>1. /\ LockedKept(r, new) /\ Orderly(new.queue)
        /\ new.lastAction = IF e.type \in Moves THEN e.type ELSE r.lastAction
        /\ new.status = IF e.type \in Moves
                        THEN IF new.index = Len(r.queue) THEN "completed" ELSE "active"
                        ELSE IF e.type = "start" /\ r.status = "ready" THEN "active"
                        ELSE r.status
    BY <1>1, EventOutcome DEF RecordGood
  <2>2. Contract!OthersStay(s)
    BY <1>12 DEF Contract!OthersStay
  <2>3. Contract!Advanced(s)
    BY <1>1, <1>2, <1>3, <1>6, <2>1, <2>2
       DEF Contract!Advanced, Contract!LockedKept, LockedKept, Contract!Orderly, Orderly, Succeeds
  <2>4. Contract!Fits(s, e)
    <3>1. IF e.type = "like"
          THEN \E i \in 1..Len(r.queue) : i <= r.index + 1 /\ r.queue[i].track = e.track
          ELSE r.index < Len(r.queue) /\ r.queue[r.index + 1].track = e.track
      BY <1>1, <1>2, EventPlace DEF RecordGood
    <3> QED
      BY <1>2, <1>a, <3>1 DEF Contract!Fits
  <2>5. /\ Len(events'[s]) = Len(log) + 1 /\ events'[s][Len(events'[s])] = e
        /\ events'[s] = Append(log, e)
    BY <1>5, <1>6
  <2> QED
    BY <1>2, <1>6, <2>1, <2>3, <2>4, <2>5 DEF Contract!EventAccepted, Contract!Moves, Moves
<1>14. s \notin expired /\ Contract!ContractNext
  BY <1>13 DEF Hidden, Contract!ContractNext
<1> QED
  BY <1>2, <1>6, <1>7, <1>10, <1>11, <1>12, <1>14, OneSessionChanges

\* A check-in added or the check-ins cleared: record and list move together.
LEMMA AcceptedCheckInChange ==
    ASSUME TypeStore, IssuedFirst, \A t \in Sessions : SessionGood(t), issued' = issued,
           NEW s \in Sessions, ~ Hidden(s), NEW new, NEW list \in Seq(Moods),
           Succeeds(records[s], new), new.index = records[s].index,
           new.status = records[s].status, new.lastAction = records[s].lastAction,
           PathKept(records[s], new, StartMoods), CheckInMatches(new, list),
           \/ records[s].status # "completed" /\ new.checkIn # None
              /\ list = Append(checkIns[s], new.checkIn)
           \/ new.checkIn = None /\ list = <<>>,
           records' = [records EXCEPT ![s] = new],
           checkIns' = [checkIns EXCEPT ![s] = list],
           UNCHANGED <<events, results>>
    PROVE  StepGood
<1> DEFINE r == records[s]
           log == events[s]
<1>1. /\ r \in Record /\ r # None /\ r.target \in Moods
      /\ RecordGood(r, log, checkIns[s]) /\ s \in issued /\ log \in Seq(Event)
  BY StoredRecord
<1>2. new \in Record /\ new # None /\ new.target # None
  BY <1>1, StoreAssumption DEF Succeeds, RecordGood
<1>3. records'[s] = new /\ events'[s] = log /\ checkIns'[s] = list /\ results'[s] = results[s]
  BY DEF TypeStore
<1>4. TypeStore'
  BY <1>2 DEF TypeStore
<1>5. RecordGood(new, log, list)
  <2>1. AuditMatches(new, log) /\ InRevisionOrder(new, log)
    BY <1>1, TrailKept DEF RecordGood
  <2>2. StatusMatches(new, log)
    BY <1>1, StatusKept DEF RecordGood
  <2> QED
    BY <1>1, <1>2, <2>1, <2>2 DEF Succeeds, RecordGood, PathKept
<1>6. \A k \in 1..Len(events'[s]) :
         (Known(s, events[s][k].id) /\ EntryOf(s, events[s][k].id) = {k})'
  BY <1>3 DEF SessionGood, Known, EntryOf
<1>7. SessionGood(s)'
  BY <1>1, <1>2, <1>3, <1>5, <1>6 DEF SessionGood
<1>8. LockedKept(r, new)
  BY SucceedsKeepsLocked
<1>9. \A t \in Sessions \ {s} :
         /\ records'[t] = records[t] /\ events'[t] = events[t]
         /\ checkIns'[t] = checkIns[t] /\ results'[t] = results[t]
  BY DEF TypeStore
<1>10. Contract!CheckedIn(s) \/ Contract!CheckInsCleared(s)
  <2>1. Contract!OthersStay(s)
    BY <1>9 DEF Contract!OthersStay
  <2>2. Orderly(new.queue)
    BY <1>1 DEF Succeeds, RecordGood
  <2>3. Contract!Advanced(s)
    BY <1>1, <1>2, <1>3, <1>8, <2>1, <2>2
       DEF Contract!Advanced, Contract!LockedKept, LockedKept, Contract!Orderly, Orderly, Succeeds
  <2>4. Contract!PlaceKept(s)
    BY <1>3 DEF Contract!PlaceKept
  <2> QED
    BY <1>3, <2>3, <2>4 DEF Contract!CheckedIn, Contract!CheckInsCleared
<1>11. s \notin expired /\ Contract!ContractNext
  BY <1>10 DEF Hidden, Contract!ContractNext
<1> QED
  BY <1>3, <1>4, <1>7, <1>8, <1>9, <1>11, OneSessionChanges

\* Sessions forgotten by a delete or a purge leave nothing behind.
LEMMA Forgotten ==
    ASSUME TypeStore, IssuedFirst, \A t \in Sessions : SessionGood(t), issued' = issued,
           NEW gone \in SUBSET Sessions, Forget(gone)
    PROVE  StepGood
<1>1. TypeStore'
  BY DEF TypeStore, Forget
<1>2. ASSUME NEW t \in Sessions, t \in gone
      PROVE  records'[t] = None /\ SessionGood(t)'
  <2>1. records'[t] = None /\ events'[t] = <<>> /\ checkIns'[t] = <<>>
    BY <1>2 DEF Forget
  <2> QED
    BY <2>1 DEF SessionGood
<1>3. ASSUME NEW t \in Sessions, t \notin gone
      PROVE  records'[t] = records[t] /\ SessionGood(t)'
  <2>1. /\ records'[t] = records[t] /\ events'[t] = events[t]
        /\ checkIns'[t] = checkIns[t] /\ results'[t] = results[t]
    BY <1>3 DEF Forget
  <2> QED
    BY <2>1, Untouched
<1>4. ASSUME NEW t \in Sessions, records[t] # None, records'[t] # None
      PROVE  LockedKept(records[t], records'[t])
  <2>1. records'[t] = records[t] /\ records[t] \in Record
    BY <1>2, <1>3, <1>4 DEF TypeStore
  <2> QED
    BY <2>1 DEF LockedKept, Record
<1>5. ExpiredOnlyRemoved
  <2> SUFFICES ASSUME NEW t \in expired
               PROVE  \/ /\ records'[t] = records[t] /\ events'[t] = events[t]
                         /\ checkIns'[t] = checkIns[t]
                      \/ records'[t] = None
    BY DEF ExpiredOnlyRemoved
  <2>1. t \in Sessions
    BY DEF IssuedFirst, ExpiredWereIssued
  <2> QED
    BY <2>1 DEF Forget
<1>6. Contract!Closed(gone)
  BY DEF Forget, Contract!Closed
<1>7. ContractStep
  BY <1>6 DEF ContractStep, Contract!ContractNext
<1> QED
  BY <1>1, <1>2, <1>3, <1>4, <1>5, <1>7 DEF StepGood, LockedSlotsFixed
-----------------------------------------------------------------------------
(* One lemma per kind of action: it owes StepGood and a good reply.        *)

LEMMA StoreEventStep ==
    ASSUME TypeStore, IssuedFirst, \A t \in Sessions : SessionGood(t), issued' = issued,
           NEW op \in Ops, NEW s \in Sessions, NEW e \in Event, StoreEvent(op, s, e)
    PROVE  StepGood /\ ReplyGood
<1>1. CASE Hidden(s) /\ NotFound(op, s) /\ UNCHANGED store
  BY <1>1, StoreUnchanged, NotFoundType
<1>2. CASE ~ Hidden(s) /\ Known(s, e.id) /\ Retry(op, s, e)
  <2>1. StepGood
    BY <1>2, StoreUnchanged DEF Retry
  <2>2. e.id \in EventIds /\ results[s][e.id] \in Result
    BY <1>2 DEF Event, Known, TypeStore
  <2>3. results[s][e.id].changed \in BOOLEAN /\ records[s] \in Record
    BY <1>2, <2>2, StoredRecord DEF Result
  <2>4. "conflict" \in Causes
    BY DEF Causes
  <2>5. records'[s] = records[s]
    BY <1>2 DEF Retry, store
  <2> QED
    BY <1>2, <2>1, <2>3, <2>4, <2>5, AnswerType, RefuseType, ErrorStatusType DEF Retry
<1>3. ASSUME ~ Hidden(s), ~ Known(s, e.id),
             NEW out \in ApplyEvent(Tracks, playable, records[s], events[s], e),
             out.cause # "none",
             Refuse(op, s, ErrorStatus(op, out.cause), out.cause), UNCHANGED store
      PROVE  StepGood /\ ReplyGood
  <2>1. out \in Outcome
    BY <1>3, StoredRecord, EventKeeps DEF RecordGood
  <2>2. out.cause \in Causes
    BY <2>1 DEF Outcome
  <2> QED
    BY <1>3, <2>2, StoreUnchanged, RefuseType, ErrorStatusType
<1>4. ASSUME ~ Hidden(s), ~ Known(s, e.id),
             NEW out \in ApplyEvent(Tracks, playable, records[s], events[s], e),
             out.cause = "none", Accept(op, s, e, out)
      PROVE  StepGood /\ ReplyGood
  <2>1. StepGood /\ out \in Outcome
    BY <1>4, AcceptedEvent DEF Accept
  <2>2. out.rec \in Record /\ out.changed \in BOOLEAN
    BY <2>1 DEF Outcome
  <2>3. records'[s] = out.rec
    BY <1>4 DEF Accept, TypeStore
  <2> QED
    BY <1>4, <2>1, <2>2, <2>3, AnswerType DEF Accept
<1> QED
  BY <1>1, <1>2, <1>3, <1>4 DEF StoreEvent

LEMMA AddCheckInStep ==
    ASSUME TypeStore, IssuedFirst, \A t \in Sessions : SessionGood(t),
           NEW s \in Sessions, AddCheckIn(s)
    PROVE  StepGood /\ ReplyGood
<1>0. "checkIn" \in Ops /\ issued' = issued
  BY DEF Ops, AddCheckIn
<1>1. CASE Hidden(s)
  BY <1>0, <1>1, StoreUnchanged, NotFoundType DEF AddCheckIn
<1>2. CASE ~ Hidden(s)
  <2>1. PICK rev \in 1..MaxRevision, mood \in CheckInMoods, ok \in BOOLEAN :
        \E out \in ApplyCheckIn(Tracks, playable, records[s], events[s],
                                [rev |-> rev, mood |-> mood, wellFormed |-> ok]) :
               \/ /\ out.cause # "none"
                  /\ Refuse("checkIn", s, ErrorStatus("checkIn", out.cause), out.cause)
                  /\ UNCHANGED store
               \/ /\ out.cause = "none"
                  /\ records' = [records EXCEPT ![s] = out.rec]
                  /\ checkIns' = [checkIns EXCEPT ![s] = Append(@, out.rec.checkIn)]
                  /\ Answer("checkIn", s, out.rec, FALSE)
                  /\ UNCHANGED <<events, results>>
    BY <1>2 DEF AddCheckIn
  <2> DEFINE c == [rev |-> rev, mood |-> mood, wellFormed |-> ok]
  <2>2. c \in CheckInInput /\ c.mood \in Moods
    BY StoreAssumption DEF CheckInInput
  <2> HIDE DEF c
  <2>3. PICK out \in ApplyCheckIn(Tracks, playable, records[s], events[s], c) :
               \/ /\ out.cause # "none"
                  /\ Refuse("checkIn", s, ErrorStatus("checkIn", out.cause), out.cause)
                  /\ UNCHANGED store
               \/ /\ out.cause = "none"
                  /\ records' = [records EXCEPT ![s] = out.rec]
                  /\ checkIns' = [checkIns EXCEPT ![s] = Append(@, out.rec.checkIn)]
                  /\ Answer("checkIn", s, out.rec, FALSE)
                  /\ UNCHANGED <<events, results>>
    BY <2>1 DEF c
  <2>4. /\ out \in Outcome
        /\ out.cause = "none" => /\ Succeeds(records[s], out.rec)
                                 /\ out.rec.index = records[s].index
                                 /\ out.rec.checkIn = c.mood
                                 /\ out.rec.status = records[s].status
                                 /\ out.rec.lastAction = records[s].lastAction
                                 /\ records[s].status # "completed"
                                 /\ PathKept(records[s], out.rec, StartMoods)
    <3>1. /\ records[s] \in Record /\ records[s].target \in Moods
          /\ PositionOK(records[s]) /\ Tracks \in SUBSET Tracks
      BY <1>2, StoredRecord DEF RecordGood
    <3>2. /\ out \in Outcome
          /\ out.cause = "none" => /\ Succeeds(records[s], out.rec)
                                   /\ out.rec.index = records[s].index
                                   /\ out.rec.checkIn = c.mood
                                   /\ out.rec.status = records[s].status
                                   /\ out.rec.lastAction = records[s].lastAction
                                   /\ records[s].status # "completed"
      BY <2>2, <3>1, CheckInKeeps
    <3>3. out.cause = "none" => PathKept(records[s], out.rec, StartMoods)
      BY <2>2, <3>1, CheckInPath
    <3> QED
      BY <3>2, <3>3
  <2>5. out.cause \in Causes /\ out.rec \in Record
    BY <2>4 DEF Outcome
  <2>6. CASE out.cause # "none"
    BY <1>0, <2>3, <2>5, <2>6, StoreUnchanged, RefuseType, ErrorStatusType
  <2>7. CASE out.cause = "none"
    <3> DEFINE list == Append(checkIns[s], out.rec.checkIn)
    <3>1. list \in Seq(Moods) /\ list # <<>> /\ list[Len(list)] = out.rec.checkIn
      <4>1. out.rec.checkIn \in Moods /\ checkIns[s] \in Seq(Moods)
        BY <1>2, <2>2, <2>4, <2>7, StoredRecord
      <4> QED
        BY <4>1
    <3>2. CheckInMatches(out.rec, list)
      BY <3>1 DEF CheckInMatches
    <3>3. checkIns' = [checkIns EXCEPT ![s] = list]
      BY <2>3, <2>7
    <3>4. out.rec.checkIn # None
      BY <2>2, <2>4, <2>7, RulesAssumption
    <3>5. list = Append(checkIns[s], out.rec.checkIn)
      OBVIOUS
    <3> HIDE DEF list
    <3>6. StepGood
      BY <1>0, <1>2, <2>3, <2>4, <2>7, <3>1, <3>2, <3>3, <3>4, <3>5, AcceptedCheckInChange
    <3>7. records'[s] = out.rec
      BY <2>3, <2>7 DEF TypeStore
    <3> QED
      BY <1>0, <2>3, <2>5, <2>7, <3>6, <3>7, AnswerType
  <2> QED
    BY <2>6, <2>7
<1> QED
  BY <1>1, <1>2

LEMMA ClearStep ==
    ASSUME TypeStore, IssuedFirst, \A t \in Sessions : SessionGood(t),
           NEW s \in Sessions, ClearAllCheckIns(s)
    PROVE  StepGood /\ ReplyGood
<1>0. "clearCheckIns" \in Ops /\ issued' = issued
  BY DEF Ops, ClearAllCheckIns
<1>1. CASE Hidden(s)
  BY <1>0, <1>1, StoreUnchanged, NotFoundType DEF ClearAllCheckIns
<1>2. CASE ~ Hidden(s)
  <2>1. PICK rev \in 1..MaxRevision :
        \E out \in ClearCheckIns(Tracks, playable, records[s], events[s], rev) :
               \/ /\ out.cause # "none"
                  /\ Refuse("clearCheckIns", s, ErrorStatus("clearCheckIns", out.cause), out.cause)
                  /\ UNCHANGED store
               \/ /\ out.cause = "none"
                  /\ records' = [records EXCEPT ![s] = out.rec]
                  /\ checkIns' = [checkIns EXCEPT ![s] = <<>>]
                  /\ Answer("clearCheckIns", s, out.rec, FALSE)
                  /\ UNCHANGED <<events, results>>
    BY <1>2 DEF ClearAllCheckIns
  <2>2. PICK out \in ClearCheckIns(Tracks, playable, records[s], events[s], rev) :
               \/ /\ out.cause # "none"
                  /\ Refuse("clearCheckIns", s, ErrorStatus("clearCheckIns", out.cause), out.cause)
                  /\ UNCHANGED store
               \/ /\ out.cause = "none"
                  /\ records' = [records EXCEPT ![s] = out.rec]
                  /\ checkIns' = [checkIns EXCEPT ![s] = <<>>]
                  /\ Answer("clearCheckIns", s, out.rec, FALSE)
                  /\ UNCHANGED <<events, results>>
    BY <2>1
  <2>3. /\ out \in Outcome
        /\ out.cause = "none" => /\ Succeeds(records[s], out.rec)
                                 /\ out.rec.index = records[s].index
                                 /\ out.rec.checkIn = None
                                 /\ out.rec.status = records[s].status
                                 /\ out.rec.lastAction = records[s].lastAction
                                 /\ PathKept(records[s], out.rec, StartMoods)
    <3>1. /\ records[s] \in Record /\ records[s].target \in Moods
          /\ PositionOK(records[s]) /\ Tracks \in SUBSET Tracks
      BY <1>2, StoredRecord DEF RecordGood
    <3>2. /\ out \in Outcome
          /\ out.cause = "none" => /\ Succeeds(records[s], out.rec)
                                   /\ out.rec.index = records[s].index
                                   /\ out.rec.checkIn = None
                                   /\ out.rec.status = records[s].status
                                   /\ out.rec.lastAction = records[s].lastAction
      BY <3>1, ClearKeeps
    <3>3. out.cause = "none" => PathKept(records[s], out.rec, StartMoods)
      BY <3>1, ClearPath
    <3> QED
      BY <3>2, <3>3
  <2>4. out.cause \in Causes /\ out.rec \in Record
    BY <2>3 DEF Outcome
  <2>5. CASE out.cause # "none"
    BY <1>0, <2>2, <2>4, <2>5, StoreUnchanged, RefuseType, ErrorStatusType
  <2>6. CASE out.cause = "none"
    <3>1. <<>> \in Seq(Moods) /\ CheckInMatches(out.rec, <<>>)
      BY <2>3, <2>6 DEF CheckInMatches
    <3>2. StepGood
      BY <1>0, <1>2, <2>2, <2>3, <2>6, <3>1, AcceptedCheckInChange
    <3>3. records'[s] = out.rec
      BY <2>2, <2>6 DEF TypeStore
    <3> QED
      BY <1>0, <2>2, <2>4, <2>6, <3>2, <3>3, AnswerType
  <2> QED
    BY <2>5, <2>6
<1> QED
  BY <1>1, <1>2

LEMMA CreateStep ==
    ASSUME TypeStore, IssuedFirst, \A t \in Sessions : SessionGood(t),
           NEW s \in Sessions, Create(s)
    PROVE  StepGood /\ ReplyGood /\ issued' \subseteq Sessions /\ issued \subseteq issued'
<1>1. "create" \in Ops /\ {"build", "audio", "none"} \subseteq Causes
  BY DEF Ops, Causes
<1>2. PICK n \in QueueLengths, start \in StartMoods, target \in TargetMoods :
          \/ /\ ~ Buildable(Tracks, {}, <<>>, n)
             /\ Refuse("create", None, 422, "build")
             /\ UNCHANGED <<store, issued>>
          \/ /\ Buildable(Tracks, {}, <<>>, n)
             /\ \E sel \in Selections(Tracks, {}, n) :
                  \/ /\ \E i \in 1..n : sel[i] \notin playable
                     /\ Refuse("create", None, 503, "audio")
                     /\ UNCHANGED <<store, issued>>
                  \/ /\ \A i \in 1..n : sel[i] \in playable
                     /\ LET r == FirstRecord(start, target, sel, n)
                        IN  /\ records' = [records EXCEPT ![s] = r]
                            /\ Respond("create", s, 201, "none", r, <<>>, FALSE)
                     /\ issued' = issued \cup {s}
                     /\ UNCHANGED <<events, checkIns, results>>
  BY DEF Create
<1>3. n \in Nat \ {0} /\ start \in Moods /\ target \in Moods /\ target # None
  BY StoreAssumption, RulesAssumption
<1>4. CASE UNCHANGED <<store, issued>> /\ Refuse("create", None, 422, "build")
  BY <1>1, <1>4, StoreUnchanged, RefuseType DEF IssuedFirst
<1>5. CASE UNCHANGED <<store, issued>> /\ Refuse("create", None, 503, "audio")
  BY <1>1, <1>5, StoreUnchanged, RefuseType DEF IssuedFirst
<1>6. ASSUME NEW sel \in Selections(Tracks, {}, n),
             LET r == FirstRecord(start, target, sel, n)
             IN  /\ records' = [records EXCEPT ![s] = r]
                 /\ Respond("create", s, 201, "none", r, <<>>, FALSE),
             issued' = issued \cup {s}, UNCHANGED <<events, checkIns, results>>
      PROVE  StepGood /\ ReplyGood /\ issued' \subseteq Sessions /\ issued \subseteq issued'
  <2> DEFINE q == NewQueue(start, target, sel, n)
             r == [queue |-> q, index |-> 0, status |-> "ready", lastAction |-> None,
                   target |-> target, checkIn |-> None, revision |-> 1]
  <2>1. /\ sel \in [1..n -> Tracks]
        /\ \A i, j \in 1..n : sel[i] = sel[j] => i = j
    BY DEF Selections
  <2>2. q \in Seq(QueueItem) /\ Len(q) = n
    BY <1>3, <2>1, NewQueueType
  <2>3. Orderly(q)
    <3>1. \A i \in 1..n : q[i].position = i - 1 /\ q[i].track = sel[i]
      BY DEF NewQueue
    <3> HIDE DEF q
    <3> QED
      BY <2>1, <2>2, <3>1 DEF Orderly
  <2>a. ReachesTarget(r) /\ FutureFollows(r, StartMoods)
    BY <1>3, <2>2, FirstPath DEF FirstRecord
  <2> HIDE DEF q
  <2>4. r \in Record /\ r # None
    <3>1. r \in Record
      BY <1>3, <2>2 DEF Record, Statuses
    <3> QED
      BY <3>1, StoreAssumption
  <2>5. records' = [records EXCEPT ![s] = r] /\ Respond("create", s, 201, "none", r, <<>>, FALSE)
    BY <1>6 DEF q, FirstRecord
  <2>6. /\ r.queue = q /\ r.index = 0 /\ r.status = "ready" /\ r.target = target
        /\ r.checkIn = None /\ r.revision = 1 /\ r.lastAction = None
    OBVIOUS
  <2> HIDE DEF r
  <2>7. events[s] = <<>> /\ checkIns[s] = <<>>
    <3>1. s \notin issued
      BY DEF Create
    <3> QED
      BY <3>1 DEF SessionGood
  <2>8. RecordGood(r, <<>>, <<>>)
    <3>1. AuditMatches(r, <<>>)
      <4>1. MovesUpTo(<<>>, Len(<<>>)) = {}
        BY DEF MovesUpTo
      <4>2. Cardinality({}) = 0
        BY FS_EmptySet
      <4>3. Len(<<>>) = 0 /\ 1..Len(<<>>) = {}
        OBVIOUS
      <4>4. r.index = Cardinality(MovesUpTo(<<>>, Len(<<>>)))
        BY <2>6, <4>1, <4>2
      <4> QED
        BY <4>3, <4>4 DEF AuditMatches
    <3>2. InRevisionOrder(r, <<>>) /\ CheckInMatches(r, <<>>)
      BY <2>6 DEF InRevisionOrder, CheckInMatches
    <3>3. PositionOK(r)
      BY <1>3, <2>2, <2>6 DEF PositionOK
    <3>4. StatusMatches(r, <<>>)
      <4>1. MovesUpTo(<<>>, Len(<<>>)) = {} /\ 1..Len(<<>>) = {}
        BY DEF MovesUpTo
      <4> QED
        BY <2>6, <3>3, <4>1 DEF StatusMatches
    <3> QED
      BY <1>3, <2>3, <2>6, <2>a, <3>1, <3>2, <3>3, <3>4 DEF RecordGood
  <2>9. /\ records'[s] = r /\ events'[s] = <<>> /\ checkIns'[s] = <<>> /\ s \in issued'
        /\ issued \subseteq issued'
    BY <1>6, <2>5, <2>7 DEF TypeStore
  <2>10. SessionGood(s)'
    BY <2>4, <2>8, <2>9 DEF SessionGood
  <2>11. TypeStore'
    BY <1>6, <2>4, <2>5 DEF TypeStore
  <2>12. \A t \in Sessions \ {s} :
            /\ records'[t] = records[t] /\ events'[t] = events[t]
            /\ checkIns'[t] = checkIns[t] /\ results'[t] = results[t]
    BY <1>6, <2>5 DEF TypeStore
  <2>13. records[s] = None
    BY DEF Create, SessionGood
  <2>b. Contract!ContractNext
    <3>1. Contract!OthersStay(s)
      BY <2>12 DEF Contract!OthersStay
    <3>2. Contract!Opened(s)
      BY <2>3, <2>4, <2>6, <2>9, <2>13, <3>1
         DEF Contract!Opened, Contract!Orderly, Orderly
    <3> QED
      BY <3>2 DEF Contract!ContractNext
  <2>c. s \notin expired
    BY DEF Create, IssuedFirst, ExpiredWereIssued
  <2>14. StepGood
    BY <2>9, <2>10, <2>11, <2>12, <2>13, <2>b, <2>c, OneSessionChanges
  <2>15. ReplyGood
    <3>1. <<>> \in Seq(Event) \cup Seq(Moods)
      OBVIOUS
    <3> QED
      BY <1>1, <2>4, <2>5, <2>9, <3>1, ReplyType
  <2> QED
    BY <1>6, <2>14, <2>15 DEF IssuedFirst
<1> QED
  BY <1>2, <1>4, <1>5, <1>6

\* The first store call of an advance request prepares a well-typed event.
LEMMA AdvanceReadStep ==
    ASSUME TypeOK, \A t \in Sessions : SessionGood(t),
           NEW w \in Workers, NEW s \in Sessions, AdvanceRead(w, s)
    PROVE  workers' \in [Workers -> Pending \cup {None}] /\ ReplyGood
<1>0. "advance" \in Ops /\ "conflict" \in Causes
  BY DEF Ops, Causes
<1>1. CASE UNCHANGED workers /\ NotFound("advance", s)
  BY <1>0, <1>1, NotFoundType DEF TypeOK
<1>2. CASE UNCHANGED workers
           /\ Refuse("advance", s, ErrorStatus("advance", "conflict"), "conflict")
  BY <1>0, <1>2, RefuseType, ErrorStatusType DEF TypeOK
<1>3. ASSUME ~ Hidden(s), NEW rev \in 1..MaxRevision, NEW type \in Moves,
             records[s].status # "completed", NEW id \in FreshIds(s),
             workers' = [workers EXCEPT ![w] =
                 [sid |-> s,
                  event |-> [id |-> id, type |-> type, rev |-> rev, wellFormed |-> TRUE,
                             track |-> records[s].queue[records[s].index + 1].track]]],
             UNCHANGED reply
      PROVE  workers' \in [Workers -> Pending \cup {None}] /\ ReplyGood
  <2> DEFINE r == records[s]
             track == r.queue[r.index + 1].track
             e == [id |-> id, type |-> type, rev |-> rev, wellFormed |-> TRUE, track |-> track]
  <2>1. r \in Record /\ PositionOK(r)
    BY <1>3, StoredRecord DEF TypeOK, TypeStore, RecordGood
  <2>2. r.index + 1 \in 1..Len(r.queue)
    BY <1>3, <2>1 DEF PositionOK, Record
  <2>3. r.queue[r.index + 1] \in QueueItem
    BY <2>1, <2>2 DEF Record
  <2>4. track \in Tracks
    BY <2>3 DEF QueueItem
  <2>5. id \in EventIds /\ type \in EventTypes /\ rev \in Nat
    BY <1>3, StoreAssumption DEF FreshIds, Moves, EventTypes
  <2> HIDE DEF track
  <2>6. e \in Event
    BY <2>4, <2>5 DEF Event
  <2> HIDE DEF e
  <2>7. [sid |-> s, event |-> e] \in Pending
    BY <2>6 DEF Pending
  <2>8. workers' = [workers EXCEPT ![w] = [sid |-> s, event |-> e]]
    BY <1>3 DEF e, track
  <2> QED
    BY <1>3, <2>7, <2>8, ReplyUnchanged DEF TypeOK
<1> QED
  BY <1>1, <1>2, <1>3 DEF AdvanceRead
-----------------------------------------------------------------------------
\* Types of the variables outside the store.
TypeRest ==
    /\ IssuedFirst /\ playable \subseteq Tracks
    /\ workers \in [Workers -> Pending \cup {None}]

LEMMA InitGood == Init => TypeOK /\ ExpiredWereIssued /\ \A s \in Sessions : SessionGood(s)
<1> SUFFICES ASSUME Init PROVE TypeOK /\ ExpiredWereIssued /\ \A s \in Sessions : SessionGood(s)
  OBVIOUS
<1>1. <<>> \in Seq(Event) /\ <<>> \in Seq(Moods)
  OBVIOUS
<1>2. reply \in Reply
  BY <1>1 DEF Init, Reply, Ops, Causes
<1>3. TypeOK
  BY <1>1, <1>2 DEF Init, TypeOK
<1>4. ExpiredWereIssued /\ \A s \in Sessions : SessionGood(s)
  BY DEF Init, SessionGood, ExpiredWereIssued
<1> QED
  BY <1>3, <1>4

\* Every step keeps the types and every session good, moves no locked slot, leaves the
\* expired alone, keeps the contract and answers with what is stored.
LEMMA NextGood ==
    ASSUME TypeOK, ExpiredWereIssued, \A s \in Sessions : SessionGood(s), [Next]_vars
    PROVE  TypeOK' /\ ExpiredWereIssued' /\ StepGood /\ ReplyShowsStored
<1>0. TypeStore /\ TypeRest /\ reply \in Reply
  BY DEF TypeOK, TypeStore, TypeRest, IssuedFirst
<1> DEFINE Good == StepGood /\ ReplyGood /\ TypeRest'
<1> SUFFICES Good
  BY DEF TypeOK, TypeStore, TypeRest, IssuedFirst, ExpiredWereIssued, StepGood, ReplyGood
<1>1. ASSUME NEW s \in Sessions, Create(s) PROVE Good
  BY <1>0, <1>1, CreateStep DEF Create, TypeRest, IssuedFirst, ExpiredWereIssued
<1>2. ASSUME NEW s \in Sessions, Get(s) PROVE Good
  <2>1. "get" \in Ops
    BY DEF Ops
  <2>2. records'[s] = records[s]
    BY <1>2 DEF Get, store
  <2>3. ReplyGood
    BY <1>0, <1>2, <2>1, <2>2, StoredRecord, NotFoundType, AnswerType DEF Get
  <2> QED
    BY <1>0, <1>2, <2>3, StoreUnchanged DEF Get, TypeRest, IssuedFirst, ExpiredWereIssued
<1>3. ASSUME NEW s \in Sessions, PostEvent(s) PROVE Good
  <2>1. PICK e \in Event : StoreEvent("event", s, e)
    BY <1>3, StoreAssumption DEF PostEvent, Event
  <2>2. "event" \in Ops
    BY DEF Ops
  <2>3. TypeRest' /\ issued' = issued
    BY <1>0, <1>3 DEF PostEvent, TypeRest, IssuedFirst, ExpiredWereIssued
  <2> QED
    BY <1>0, <2>1, <2>2, <2>3, StoreEventStep DEF TypeRest
<1>4. ASSUME NEW s \in Sessions, ListEvents(s) PROVE Good
  <2>1. "listEvents" \in Ops /\ "none" \in Causes
    BY DEF Ops, Causes
  <2>2. ReplyGood
    BY <1>0, <1>4, <2>1, NotFoundType, ReplyType DEF ListEvents, TypeStore
  <2> QED
    BY <1>0, <1>4, <2>2, StoreUnchanged DEF ListEvents, TypeRest, IssuedFirst, ExpiredWereIssued
<1>5. ASSUME NEW s \in Sessions, AddCheckIn(s) PROVE Good
  <2>1. TypeRest'
    BY <1>0, <1>5 DEF AddCheckIn, TypeRest, IssuedFirst, ExpiredWereIssued
  <2> QED
    BY <1>0, <1>5, <2>1, AddCheckInStep DEF TypeRest
<1>6. ASSUME NEW s \in Sessions, ListCheckIns(s) PROVE Good
  <2>1. "listCheckIns" \in Ops /\ "none" \in Causes
    BY DEF Ops, Causes
  <2>2. ReplyGood
    BY <1>0, <1>6, <2>1, NotFoundType, ReplyType DEF ListCheckIns, TypeStore
  <2> QED
    BY <1>0, <1>6, <2>2, StoreUnchanged DEF ListCheckIns, TypeRest, IssuedFirst, ExpiredWereIssued
<1>7. ASSUME NEW s \in Sessions, ClearAllCheckIns(s) PROVE Good
  <2>1. TypeRest'
    BY <1>0, <1>7 DEF ClearAllCheckIns, TypeRest, IssuedFirst, ExpiredWereIssued
  <2> QED
    BY <1>0, <1>7, <2>1, ClearStep DEF TypeRest
<1>8. ASSUME NEW s \in Sessions, DeleteSession(s) PROVE Good
  <2>1. "delete" \in Ops /\ "none" \in Causes /\ <<>> \in Seq(Event)
    BY DEF Ops, Causes
  <2>2. ReplyGood
    BY <1>8, <2>1, NotFoundType, ReplyType DEF DeleteSession
  <2>3. TypeRest' /\ issued' = issued
    BY <1>0, <1>8 DEF DeleteSession, TypeRest, IssuedFirst, ExpiredWereIssued
  <2>4. StepGood
    BY <1>0, <1>8, <2>3, StoreUnchanged, Forgotten DEF DeleteSession, TypeRest
  <2> QED
    BY <2>2, <2>3, <2>4
<1>9. ASSUME NEW s \in Sessions, Expire(s) PROVE Good
  BY <1>0, <1>9, StoreUnchanged, ReplyUnchanged
     DEF Expire, TypeRest, IssuedFirst, ExpiredWereIssued
<1>10. ASSUME NEW w \in Workers, NEW s \in Sessions, AdvanceRead(w, s) PROVE Good
  BY <1>0, <1>10, AdvanceReadStep, StoreUnchanged
     DEF AdvanceRead, TypeRest, IssuedFirst, ExpiredWereIssued
<1>11. ASSUME NEW w \in Workers, AdvanceApply(w) PROVE Good
  <2>1. workers[w] \in Pending
    BY <1>0, <1>11 DEF AdvanceApply, TypeRest
  <2>2. workers[w].sid \in Sessions /\ workers[w].event \in Event /\ "advance" \in Ops
    BY <2>1 DEF Pending, Ops
  <2>3. TypeRest' /\ issued' = issued
    BY <1>0, <1>11 DEF AdvanceApply, TypeRest, IssuedFirst, ExpiredWereIssued
  <2> QED
    BY <1>0, <1>11, <2>2, <2>3, StoreEventStep DEF AdvanceApply, TypeRest
<1>12. CASE PurgeExpired
  <2>1. TypeRest' /\ issued' = issued /\ expired \in SUBSET Sessions
    BY <1>0, <1>12 DEF PurgeExpired, TypeRest, IssuedFirst, ExpiredWereIssued
  <2> QED
    BY <1>0, <1>12, <2>1, Forgotten, ReplyUnchanged DEF PurgeExpired, TypeRest
<1>13. CASE AudioChanges
  <2>1. playable' \subseteq Tracks
    BY <1>13, StoreAssumption DEF AudioChanges
  <2> QED
    BY <1>0, <1>13, <2>1, StoreUnchanged, ReplyUnchanged
       DEF AudioChanges, TypeRest, IssuedFirst, ExpiredWereIssued
<1>14. CASE UNCHANGED vars
  BY <1>0, <1>14, StoreUnchanged, ReplyUnchanged
     DEF vars, store, TypeRest, IssuedFirst, ExpiredWereIssued
<1> QED
  BY <1>1, <1>2, <1>3, <1>4, <1>5, <1>6, <1>7, <1>8, <1>9, <1>10, <1>11, <1>12, <1>13, <1>14
     DEF Next
-----------------------------------------------------------------------------
(* The theorems.                                                           *)

\* The inductive invariant holds in every reachable state of every instance.
THEOREM Invariance == Spec => []IInv
<1>1. Init => IInv
  BY InitGood, IInvParts
<1>2. IInv /\ [Next]_vars => IInv'
  <2> SUFFICES ASSUME IInv, [Next]_vars PROVE IInv'
    OBVIOUS
  <2>1. TypeOK' /\ ExpiredWereIssued' /\ \A s \in Sessions : SessionGood(s)'
    BY IInvParts, NextGood DEF StepGood
  <2> QED
    BY <2>1 DEF IInv, RecordsSound, NoOrphans, QueueSound, CheckInAgrees, AuditMatchesQueue,
                AuditInRevisionOrder, RetriesRecognised, StatusAgrees, DestinationKept,
                FutureFollowsListener, SessionGood, RecordGood, Live
<1> QED
  BY <1>1, <1>2, PTL DEF Spec

\* Every variable keeps its type, in the maps of the store and in the replies.
THEOREM TypeCorrect == Spec => []TypeOK
<1>1. IInv => TypeOK
  BY DEF IInv
<1> QED
  BY <1>1, Invariance, PTL

\* The audit trail and the queue tell the same story after any number of replans.
THEOREM AuditCorrect == Spec => []AuditMatchesQueue
<1>1. IInv => AuditMatchesQueue
  BY DEF IInv
<1> QED
  BY <1>1, Invariance, PTL

\* No revision is spent twice: concurrent requests for one revision cannot both win.
THEOREM RevisionOrderCorrect == Spec => []AuditInRevisionOrder
<1>1. IInv => AuditInRevisionOrder
  BY DEF IInv
<1> QED
  BY <1>1, Invariance, PTL

\* An event ID is applied at most once and recognised ever after.
THEOREM RetriesCorrect == Spec => []RetriesRecognised
<1>1. IInv => RetriesRecognised
  BY DEF IInv
<1> QED
  BY <1>1, Invariance, PTL

\* No queue ever holds a track twice or a slot out of order.
THEOREM QueueCorrect == Spec => []QueueSound
<1>1. IInv => QueueSound
  BY DEF IInv
<1> QED
  BY <1>1, Invariance, PTL

\* The check-in in force is the newest one not deleted.
THEOREM CheckInCorrect == Spec => []CheckInAgrees
<1>1. IInv => CheckInAgrees
  BY DEF IInv
<1> QED
  BY <1>1, Invariance, PTL

\* Nothing of a session is left in the audit once its record is gone.
THEOREM NoOrphansCorrect == Spec => []NoOrphans
<1>1. IInv => NoOrphans
  BY DEF IInv
<1> QED
  BY <1>1, Invariance, PTL

\* No step of any request changes a played or playing slot.
THEOREM LockedCorrect == Spec => LockedStaysLocked
<1>1. IInv /\ [Next]_vars => [LockedSlotsFixed]_vars
  BY IInvParts, NextGood DEF StepGood
<1> QED
  BY <1>1, Invariance, PTL DEF Spec, LockedStaysLocked

\* Status, position and last action never contradict the audit trail.
THEOREM StatusCorrect == Spec => []StatusAgrees
<1>1. IInv => StatusAgrees
  BY DEF IInv
<1> QED
  BY <1>1, Invariance, PTL

\* Whatever was replanned, the journey still ends at the mood asked for.
THEOREM DestinationCorrect == Spec => []DestinationKept
<1>1. IInv => DestinationKept
  BY DEF IInv
<1> QED
  BY <1>1, Invariance, PTL

\* The slots still to come start at the check-in in force, or else at the current track,
\* and no deleted check-in steers them.
THEOREM FutureCorrect == Spec => []FutureFollowsListener
<1>1. IInv => FutureFollowsListener
  BY DEF IInv
<1> QED
  BY <1>1, Invariance, PTL

\* No response ever shows a session other than as it is stored, retries included.
THEOREM RepliesCorrect == Spec => RepliesAreCurrent
<1>1. IInv /\ [Next]_vars => [ReplyShowsStored]_vars
  BY IInvParts, NextGood
<1> QED
  BY <1>1, Invariance, PTL DEF Spec, RepliesAreCurrent

\* An expired session is never changed again, only removed.
THEOREM ExpiryCorrect == Spec => ExpiredStaysFrozen
<1>1. IInv /\ [Next]_vars => [ExpiredOnlyRemoved]_vars
  BY IInvParts, NextGood DEF StepGood
<1> QED
  BY <1>1, Invariance, PTL DEF Spec, ExpiredStaysFrozen

\* The in-memory store implements the contract of session.Store.
THEOREM Refinement == Spec => KeepsContract
<1>1. Init => Contract!ContractInit
  BY DEF Init, Contract!ContractInit
<1>2. IInv /\ [Next]_vars => [Contract!ContractNext]_(Contract!contract)
  BY IInvParts, NextGood DEF StepGood, ContractStep, Contract!contract
<1> QED
  BY <1>1, <1>2, Invariance, PTL DEF Spec, KeepsContract, Contract!ContractSpec

-----------------------------------------------------------------------------
(* The client of ListeningClient and the other callers.                    *)

\* A client, a second tab and failing files ask nothing of the store that the store's own
\* specification does not allow: whatever is proved above holds while they run.
THEOREM ClientImplements == ClientSpec => Spec
<1>1. ClientInit => Init
  BY DEF ClientInit
<1>2. [ClientNext]_clientVars => [Next]_vars
  <2> SUFFICES ASSUME [ClientNext]_clientVars PROVE [Next]_vars
    OBVIOUS
  <2>0. Sid \in Sessions /\ Tab \in Workers
    BY ClientAssumption
  <2>1. CASE Open
    BY <2>0, <2>1 DEF Open, Next
  <2>2. CASE Refresh
    BY <2>0, <2>2 DEF Refresh, Next
  <2>3. CASE Advance
    BY <2>0, <2>3 DEF Advance, Next
  <2>4. CASE Answered
    BY <2>0, <2>4 DEF Answered, Next
  <2>5. CASE Others
    <3>1. CASE SecondTab
      BY <2>0, <3>1 DEF SecondTab, Next
    <3>2. CASE SecondAnswer
      BY <2>0, <3>2 DEF SecondAnswer, Next
    <3>3. CASE DeleteSession(Sid) \/ Expire(Sid) \/ PurgeExpired \/ AudioChanges
      BY <2>0, <3>3 DEF Next
    <3> QED BY <2>5, <3>1, <3>2, <3>3 DEF Others
  <2>6. CASE UNCHANGED clientVars
    BY <2>6 DEF clientVars
  <2> QED BY <2>1, <2>2, <2>3, <2>4, <2>5, <2>6 DEF ClientNext
<1> QED BY <1>1, <1>2, PTL DEF ClientSpec, Spec

\* Two tabs that advance at once spend no revision twice, and nothing they send changes a
\* session that has expired.
THEOREM ClientSafe == ClientSpec => []AuditInRevisionOrder /\ ExpiredStaysFrozen
<1> QED
  BY ClientImplements, RevisionOrderCorrect, ExpiryCorrect, PTL
=============================================================================

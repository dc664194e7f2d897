----------------------------- MODULE MemoryStore -----------------------------
(***************************************************************************)
(* The listening API (internal/session/http.go) over the in-memory store   *)
(* (internal/session/memory_store.go).  A store operation holds the        *)
(* store's mutex from its first read to its last write, so it is one       *)
(* action, reply included.  The advance handler is two store calls with    *)
(* nothing held between them, so it is two actions of a worker.            *)
(*                                                                         *)
(* Requests are not sent by modelled clients: any request may arrive with  *)
(* any revision at any time, which covers stale tabs, retries, duplicates  *)
(* and reordering on the way.                                              *)
(***************************************************************************)
EXTENDS SessionProperties

CONSTANTS
    Sessions,       \* session IDs the server may draw
    ClientIds,      \* event IDs chosen by clients
    Workers,        \* advance requests in flight at once
    QueueLengths,   \* trackCount of the create requests
    StartMoods,     \* start moods of the create requests
    TargetMoods,    \* their target moods
    CheckInMoods,   \* moods of the check-ins
    AudioStates,    \* sets of tracks whose audio file may be valid at once
    MaxRevision     \* bound: no request is accepted at this revision

\* An advance request between its two store calls: the session and the event to send.
Pending == [sid : Sessions, event : Event]

\* What is kept for a retry; in the code the whole EventResult.
Result == [changed : BOOLEAN, replanned : BOOLEAN, session : Record]

ASSUME StoreAssumption ==
    /\ ClientIds \subseteq EventIds
    /\ QueueLengths \subseteq Nat \ {0}
    /\ StartMoods \subseteq Moods
    /\ TargetMoods \subseteq Moods
    /\ CheckInMoods \subseteq Moods
    /\ AudioStates \subseteq SUBSET Tracks
    /\ MaxRevision \in Nat
    /\ None \notin Record \cup Result

VARIABLES
    records,    \* records[s]: the stored session, None when there is no entry
    events,     \* events[s]: the accepted events, oldest first
    checkIns,   \* checkIns[s]: the moods checked in and not deleted
    results,    \* results[s][id]: the outcome stored for a retry of event id
    issued,     \* session IDs already drawn; crypto/rand never repeats one
    expired,    \* sessions whose ExpiresAt has passed
    playable,   \* tracks whose audio file passes validateWAV
    workers,    \* workers[w]: an advance request between its two store calls
    reply       \* the last HTTP response

store == <<records, events, checkIns, results>>
vars  == <<records, events, checkIns, results, issued, expired, playable, workers, reply>>

Ops == {"none", "create", "get", "advance", "event", "listEvents", "checkIn",
        "listCheckIns", "clearCheckIns", "delete"}
Reply == [op : Ops, sid : Sessions \cup {None}, status : Nat,
          cause : Causes \cup {"notFound"}, session : Record \cup {None},
          items : Seq(Event) \cup Seq(Moods), changed : BOOLEAN]
-----------------------------------------------------------------------------
(* HTTP responses.                                                         *)

Respond(op, s, status, cause, session, items, changed) ==
    reply' = [op |-> op, sid |-> s, status |-> status, cause |-> cause,
              session |-> session, items |-> items, changed |-> changed]

Refuse(op, s, status, cause) == Respond(op, s, status, cause, None, <<>>, FALSE)
Answer(op, s, session, changed) == Respond(op, s, 200, "none", session, <<>>, changed)

\* ApplyEvent wraps every rule error but the conflict in ErrInvalid; AddCheckIn
\* and ClearCheckIns return theirs bare, and storeError calls those a failed store.
ErrorStatus(op, cause) ==
    IF cause = "notFound" THEN 404
    ELSE IF cause = "conflict" THEN 409
    ELSE IF op \in {"event", "advance"} THEN 400
    ELSE 503

NotFound(op, s) == Refuse(op, s, ErrorStatus(op, "notFound"), "notFound")
-----------------------------------------------------------------------------
(* The store's maps.                                                       *)

Live == {s \in Sessions : records[s] # None}

\* Mutant: an expired session is served until it is purged.
HiddenWhenGone(s) == records[s] = None

Hidden(s) == records[s] = None \/ s \in expired

EntryOf(s, id) == {k \in 1..Len(events[s]) : events[s][k].id = id}

\* A retry is recognised by its stored result AND its audit entry.
Known(s, id) == results[s][id] # None /\ EntryOf(s, id) # {}

\* Mutant: a retry gets the stored answer, session and all.
RetryWithSnapshot(op, s, e) ==
    /\ \E k \in EntryOf(s, e.id) :
          IF events[s][k] = e
          THEN Answer(op, s, results[s][e.id].session, results[s][e.id].changed)
          ELSE Refuse(op, s, ErrorStatus(op, "conflict"), "conflict")
    /\ UNCHANGED store

\* An event that was applied before: the stored flag with the record of today.
Retry(op, s, e) ==
    /\ \E k \in EntryOf(s, e.id) :
          IF events[s][k] = e
          THEN Answer(op, s, records[s], results[s][e.id].changed)
          ELSE Refuse(op, s, ErrorStatus(op, "conflict"), "conflict")
    /\ UNCHANGED store

\* Mutant: the result is kept only when the future changed.
AcceptForgetful(op, s, e, out) ==
    /\ records' = [records EXCEPT ![s] = out.rec]
    /\ events' = [events EXCEPT ![s] = Append(@, e)]
    /\ IF out.changed
       THEN results' = [results EXCEPT ![s][e.id] =
                          [changed |-> out.changed, replanned |-> out.replanned,
                           session |-> out.rec]]
       ELSE UNCHANGED results
    /\ Answer(op, s, out.rec, out.changed)
    /\ UNCHANGED checkIns

\* The three writes that make an accepted event durable, and its answer.
Accept(op, s, e, out) ==
    /\ records' = [records EXCEPT ![s] = out.rec]
    /\ events' = [events EXCEPT ![s] = Append(@, e)]
    /\ results' = [results EXCEPT ![s][e.id] =
                      [changed |-> out.changed, replanned |-> out.replanned,
                       session |-> out.rec]]
    /\ Answer(op, s, out.rec, out.changed)
    /\ UNCHANGED checkIns

\* MemoryStore.ApplyEvent, called by handler op.
StoreEvent(op, s, e) ==
    \/ /\ Hidden(s)
       /\ NotFound(op, s)
       /\ UNCHANGED store
    \/ /\ ~ Hidden(s)
       /\ Known(s, e.id)
       /\ Retry(op, s, e)
    \/ /\ ~ Hidden(s)
       /\ ~ Known(s, e.id)
       /\ records[s].revision < MaxRevision
       /\ \E out \in ApplyEvent(Tracks, playable, records[s], events[s], e) :
             \/ /\ out.cause # "none"
                /\ Refuse(op, s, ErrorStatus(op, out.cause), out.cause)
                /\ UNCHANGED store
             \/ /\ out.cause = "none"
                /\ Accept(op, s, e, out)
-----------------------------------------------------------------------------
(* One action per request.                                                 *)

\* POST /sessions: plan a queue, check its audio, store a new record.
Create(s) ==
    /\ s \notin issued
    /\ \E n \in QueueLengths, start \in StartMoods, target \in TargetMoods :
          \/ /\ ~ Buildable(Tracks, {}, <<>>, n)
             /\ Refuse("create", None, 422, "build")
             /\ UNCHANGED <<store, issued>>
          \/ /\ Buildable(Tracks, {}, <<>>, n)
             /\ \E sel \in Selections(Tracks, {}, n) :
                  \/ /\ \E i \in 1..n : sel[i] \notin playable
                     /\ Refuse("create", None, 503, "audio")
                     /\ UNCHANGED <<store, issued>>
                  \/ /\ \A i \in 1..n : sel[i] \in playable
                     /\ LET r == FirstRecord(start, target, sel, n)
                        IN  /\ records' = [records EXCEPT ![s] = r]
                            /\ Respond("create", s, 201, "none", r, <<>>, FALSE)
                     /\ issued' = issued \cup {s}
                     /\ UNCHANGED <<events, checkIns, results>>
    /\ UNCHANGED <<expired, playable, workers>>

Get(s) ==
    /\ IF Hidden(s) THEN NotFound("get", s) ELSE Answer("get", s, records[s], FALSE)
    /\ UNCHANGED <<store, issued, expired, playable, workers>>

\* POST /events with any client payload.
PostEvent(s) ==
    /\ \E id \in ClientIds, track \in Tracks, type \in EventTypes,
          rev \in 1..MaxRevision, ok \in BOOLEAN :
          StoreEvent("event", s, [id |-> id, track |-> track, type |-> type,
                                  rev |-> rev, wellFormed |-> ok])
    /\ UNCHANGED <<issued, expired, playable, workers>>

\* Event IDs drawn by advance are random: new to the store and to the other workers.
FreshIds(s) ==
    {id \in EventIds \ ClientIds :
        /\ results[s][id] = None
        /\ \A w \in Workers : workers[w] # None => workers[w].event.id # id}

\* POST /advance, first store call: Get, then the checks on the record it returned.
AdvanceRead(w, s) ==
    /\ workers[w] = None
    /\ \E rev \in 1..MaxRevision, type \in Moves :
          \/ /\ Hidden(s)
             /\ NotFound("advance", s)
             /\ UNCHANGED workers
          \/ /\ ~ Hidden(s)
             /\ rev # records[s].revision \/ records[s].status = "completed"
             /\ Refuse("advance", s, ErrorStatus("advance", "conflict"), "conflict")
             /\ UNCHANGED workers
          \/ /\ ~ Hidden(s)
             /\ rev = records[s].revision
             /\ records[s].status # "completed"
             /\ \E id \in FreshIds(s) :
                  workers' = [workers EXCEPT ![w] =
                     [sid |-> s,
                      event |-> [id |-> id, type |-> type, rev |-> rev, wellFormed |-> TRUE,
                                 track |-> records[s].queue[records[s].index + 1].track]]]
             /\ UNCHANGED reply
    /\ UNCHANGED <<store, issued, expired, playable>>

\* POST /advance, second store call: ApplyEvent on whatever the store holds by now.
AdvanceApply(w) ==
    /\ workers[w] # None
    /\ StoreEvent("advance", workers[w].sid, workers[w].event)
    /\ workers' = [workers EXCEPT ![w] = None]
    /\ UNCHANGED <<issued, expired, playable>>

\* The two list calls look for a record but not at its expiry.
ListEvents(s) ==
    /\ IF records[s] = None THEN NotFound("listEvents", s)
       ELSE Respond("listEvents", s, 200, "none", None, events[s], FALSE)
    /\ UNCHANGED <<store, issued, expired, playable, workers>>

ListCheckIns(s) ==
    /\ IF records[s] = None THEN NotFound("listCheckIns", s)
       ELSE Respond("listCheckIns", s, 200, "none", None, checkIns[s], FALSE)
    /\ UNCHANGED <<store, issued, expired, playable, workers>>

AddCheckIn(s) ==
    /\ \/ /\ Hidden(s)
          /\ NotFound("checkIn", s)
          /\ UNCHANGED store
       \/ /\ ~ Hidden(s)
          /\ records[s].revision < MaxRevision
          /\ \E rev \in 1..MaxRevision, mood \in CheckInMoods, ok \in BOOLEAN :
             \E out \in ApplyCheckIn(Tracks, playable, records[s], events[s],
                                     [rev |-> rev, mood |-> mood, wellFormed |-> ok]) :
               \/ /\ out.cause # "none"
                  /\ Refuse("checkIn", s, ErrorStatus("checkIn", out.cause), out.cause)
                  /\ UNCHANGED store
               \/ /\ out.cause = "none"
                  /\ records' = [records EXCEPT ![s] = out.rec]
                  /\ checkIns' = [checkIns EXCEPT ![s] = Append(@, out.rec.checkIn)]
                  /\ Answer("checkIn", s, out.rec, FALSE)
                  /\ UNCHANGED <<events, results>>
    /\ UNCHANGED <<issued, expired, playable, workers>>

ClearAllCheckIns(s) ==
    /\ \/ /\ Hidden(s)
          /\ NotFound("clearCheckIns", s)
          /\ UNCHANGED store
       \/ /\ ~ Hidden(s)
          /\ records[s].revision < MaxRevision
          /\ \E rev \in 1..MaxRevision :
             \E out \in ClearCheckIns(Tracks, playable, records[s], events[s], rev) :
               \/ /\ out.cause # "none"
                  /\ Refuse("clearCheckIns", s, ErrorStatus("clearCheckIns", out.cause), out.cause)
                  /\ UNCHANGED store
               \/ /\ out.cause = "none"
                  /\ records' = [records EXCEPT ![s] = out.rec]
                  /\ checkIns' = [checkIns EXCEPT ![s] = <<>>]
                  /\ Answer("clearCheckIns", s, out.rec, FALSE)
                  /\ UNCHANGED <<events, results>>
    /\ UNCHANGED <<issued, expired, playable, workers>>

\* Mutant: the audit and the check-ins of a removed session stay.
ForgetRecordOnly(gone) ==
    /\ records' = [s \in Sessions |-> IF s \in gone THEN None ELSE records[s]]
    /\ UNCHANGED <<events, checkIns, results>>

\* Drop the rows of the sessions in gone; the results map is not touched.
Forget(gone) ==
    /\ records'  = [s \in Sessions |-> IF s \in gone THEN None ELSE records[s]]
    /\ events'   = [s \in Sessions |-> IF s \in gone THEN <<>> ELSE events[s]]
    /\ checkIns' = [s \in Sessions |-> IF s \in gone THEN <<>> ELSE checkIns[s]]
    /\ UNCHANGED results

\* DELETE works on an expired session too.
DeleteSession(s) ==
    /\ IF records[s] = None
       THEN NotFound("delete", s) /\ UNCHANGED store
       ELSE Forget({s}) /\ Respond("delete", s, 204, "none", None, <<>>, FALSE)
    /\ UNCHANGED <<issued, expired, playable, workers>>
-----------------------------------------------------------------------------
(* What happens without a request.                                         *)

PurgeExpired ==
    /\ Forget(expired)
    /\ UNCHANGED <<issued, expired, playable, workers, reply>>

\* Time reaches the session's ExpiresAt.
Expire(s) ==
    /\ s \in issued \ expired
    /\ expired' = expired \cup {s}
    /\ UNCHANGED <<store, issued, playable, workers, reply>>

\* Audio files are removed, replaced or restored behind the server's back.
AudioChanges ==
    /\ playable' \in AudioStates
    /\ UNCHANGED <<store, issued, expired, workers, reply>>

Init ==
    /\ records = [s \in Sessions |-> None]
    /\ events = [s \in Sessions |-> <<>>]
    /\ checkIns = [s \in Sessions |-> <<>>]
    /\ results = [s \in Sessions |-> [id \in EventIds |-> None]]
    /\ issued = {}
    /\ expired = {}
    /\ playable = Tracks        \* LoadCatalog refuses a catalog with bad audio
    /\ workers = [w \in Workers |-> None]
    /\ reply = [op |-> "none", sid |-> None, status |-> 200, cause |-> "none",
                session |-> None, items |-> <<>>, changed |-> FALSE]

Next ==
    \/ \E s \in Sessions :
          \/ Create(s) \/ Get(s) \/ PostEvent(s) \/ ListEvents(s)
          \/ AddCheckIn(s) \/ ListCheckIns(s) \/ ClearAllCheckIns(s)
          \/ DeleteSession(s) \/ Expire(s)
    \/ \E w \in Workers, s \in Sessions : AdvanceRead(w, s)
    \/ \E w \in Workers : AdvanceApply(w)
    \/ PurgeExpired
    \/ AudioChanges

Spec == Init /\ [][Next]_vars
-----------------------------------------------------------------------------
(* Type invariant.                                                         *)

\* Every variable keeps its type; the maps are total with None for a missing key.
TypeOK ==
    /\ records \in [Sessions -> Record \cup {None}]
    /\ events \in [Sessions -> Seq(Event)]
    /\ checkIns \in [Sessions -> Seq(Moods)]
    /\ results \in [Sessions -> [EventIds -> Result \cup {None}]]
    /\ issued \subseteq Sessions
    /\ expired \subseteq Sessions
    /\ playable \subseteq Tracks
    /\ workers \in [Workers -> Pending \cup {None}]
    /\ reply \in Reply
-----------------------------------------------------------------------------
(* Safety: the record against its audit trail.                             *)

\* The audit trail tells the same story as the queue, slot by slot: what was audited is
\* what the queue shows as played, whatever was replanned since (applyEvent, replan).
AuditMatchesQueue == \A s \in Live : AuditMatches(records[s], events[s])

\* Accepted events are audited in the order of the revisions they were made for, no
\* revision is spent twice, and none is ahead of the record: two requests that read
\* the same revision cannot both be accepted (the check in applyEvent).
AuditInRevisionOrder == \A s \in Live : InRevisionOrder(records[s], events[s])

\* An event ID is applied at most once, and every applied one is recognised when it
\* is sent again: audit and results never disagree (ApplyEvent's retry branch).
RetriesRecognised ==
    \A s \in Sessions : \A k \in 1..Len(events[s]) :
        /\ Known(s, events[s][k].id)
        /\ EntryOf(s, events[s][k].id) = {k}

\* Status, position and last action agree with the trail: a session is completed
\* exactly when every track was passed, and ready only while nothing was started or
\* passed (applyEvent).
StatusAgrees == \A s \in Live : StatusMatches(records[s], events[s])

\* The check-in that steers the session is the newest one on its list, and there is
\* none when the list is empty (AddCheckIn, ClearCheckIns).
CheckInAgrees == \A s \in Live : CheckInMatches(records[s], checkIns[s])

\* No audit entry and no check-in outlives its session (DeleteSession, PurgeExpired).
NoOrphans == \A s \in Sessions \ Live : events[s] = <<>> /\ checkIns[s] = <<>>
-----------------------------------------------------------------------------
(* Safety: the queue.                                                      *)

\* A session never plays a track twice and its slots stay numbered in order, whatever
\* mix of played and replanned slots the queue consists of (replan).
QueueSound == \A s \in Live : Orderly(records[s].queue)

\* The journey keeps its destination: the last slot of a queue of two or more is
\* always planned for the mood asked for at creation (replan's one-track case).
DestinationKept == \A s \in Live : ReachesTarget(records[s])

\* The slots still to come follow one path, from where the listener is now: from the
\* last check-in if one is stored, otherwise from the track being played.  A deleted
\* check-in steers nothing (clearCheckIns); only a session whose future was never
\* replanned still follows its first plan.
FutureFollowsListener == \A s \in Live : FutureFollows(records[s], StartMoods)
-----------------------------------------------------------------------------
(* Safety: what a step may never do.                                       *)

\* Played tracks and the one being played never change, and the position moves by at
\* most one slot at a time: replanning touches later slots only (replan).
LockedSlotsFixed ==
    \A s \in Sessions :
        records[s] # None /\ records'[s] # None => LockedKept(records[s], records'[s])
LockedStaysLocked == [][LockedSlotsFixed]_vars

\* A reply that shows a session shows it as stored now, retries included: it cannot
\* disclose a check-in deleted since the original answer (ApplyEvent's retry branch).
ReplyShowsStored ==
    reply' # reply /\ reply'.session # None => reply'.session = records'[reply'.sid]
RepliesAreCurrent == [][ReplyShowsStored]_vars

\* Once a session has expired nothing changes it but its removal, even a request that
\* read it before it expired (the expiry check repeated in every mutation).
ExpiredOnlyRemoved ==
    \A s \in expired :
        \/ records'[s] = records[s] /\ events'[s] = events[s] /\ checkIns'[s] = checkIns[s]
        \/ records'[s] = None
ExpiredStaysFrozen == [][ExpiredOnlyRemoved]_vars
-----------------------------------------------------------------------------
(* The inductive invariant: the properties above that the proofs carry together. *)

\* A stored record was issued, has a target and stands inside its queue.
RecordsSound ==
    \A s \in Live : s \in issued /\ records[s].target # None /\ PositionOK(records[s])

\* Only sessions that were created expire, so a new one never starts out expired.
ExpiredWereIssued == expired \subseteq issued

IInv ==
    /\ TypeOK /\ RecordsSound /\ ExpiredWereIssued /\ NoOrphans /\ QueueSound
    /\ CheckInAgrees /\ AuditMatchesQueue /\ AuditInRevisionOrder /\ RetriesRecognised
    /\ StatusAgrees /\ DestinationKept /\ FutureFollowsListener
-----------------------------------------------------------------------------
(* Refinement.                                                             *)

\* The store keeps the contract of session.Store: every step of every request is one
\* accepted change, the end of some sessions, or nothing to its callers.
Contract == INSTANCE SessionContract WITH trail <- events, moods <- checkIns
KeepsContract == Contract!ContractSpec
=============================================================================

---------------------------- MODULE PostgresStore ----------------------------
(***************************************************************************)
(* The listening API (internal/session/http.go) over PostgreSQL            *)
(* (internal/session/store.go, feedback_store.go, schema.sql).             *)
(*                                                                         *)
(* A change of a session is a transaction: it begins, waits for the row    *)
(* (SELECT ... FOR UPDATE), reads, applies the rules and writes, and       *)
(* commits.  What it reads and writes between the lock and the commit      *)
(* belongs to the session, and whoever changes any of it holds the row, so *)
(* those statements are one action with the lock.  Between the actions     *)
(* other requests run, the client may go away, and the server may stop.    *)
(*                                                                         *)
(* now() is the time the transaction began; accepted_at and created_at     *)
(* default to it, and expires_at is compared with it.                      *)
(*                                                                         *)
(* A definition marked "Mutant" is a slip this code could have had; no     *)
(* other definition uses it.                                               *)
(***************************************************************************)
EXTENDS SessionProperties

CONSTANTS
    Sessions,       \* session IDs the server may draw
    ClientIds,      \* event IDs chosen by clients
    Handlers,       \* requests in flight at once
    PoolSize,       \* SetMaxOpenConns (8 in the code)
    QueueLengths,   \* trackCount of the create requests
    StartMoods,     \* start moods of the create requests
    TargetMoods,    \* their target moods
    CheckInMoods,   \* moods of the check-ins
    SentTypes,      \* types of the events clients send
    SentForms,      \* whether what they send is well formed
    Catalogs,       \* catalogs the server may find when it starts
    AudioStates,    \* sets of tracks whose audio file may be valid at once
    Retention,      \* ticks from creation to expires_at
    MaxRevision,    \* bound: no request is made for this revision
    MaxClock        \* bound: no request arrives at this time

\* A row of session_events: the payload, its accepted_at and the flag of its result.
AuditRow == [id : EventIds, track : Tracks, type : EventTypes, rev : Nat,
             wellFormed : BOOLEAN, at : Nat, changed : BOOLEAN]

\* A row of session_check_ins.
CheckInRow == [mood : Moods, at : Nat]

Mutations == {"event", "advance", "checkIn", "clearCheckIns"}
Lists     == {"listEvents", "listCheckIns"}
Phases    == {"read", "checked", "begun", "locked"}

Input == Event \cup CheckInInput \cup [rev : Nat] \cup {None}

\* A request between two statements.
Request == [op : Mutations \cup Lists \cup {"delete"}, sid : Sessions, phase : Phases,
            at : Nat, input : Input, out : Outcome \cup {None}]

ASSUME PostgresAssumption ==
    /\ ClientIds \subseteq EventIds
    /\ PoolSize \in Nat \ {0}
    /\ QueueLengths \subseteq Nat \ {0}
    /\ StartMoods \subseteq Moods
    /\ TargetMoods \subseteq Moods
    /\ CheckInMoods \subseteq Moods
    /\ SentTypes \subseteq EventTypes
    /\ SentForms \subseteq BOOLEAN
    /\ Catalogs \subseteq SUBSET Tracks
    /\ AudioStates \subseteq SUBSET Tracks
    /\ Retention \in Nat \ {0}
    /\ MaxRevision \in Nat
    /\ MaxClock \in Nat
    /\ None \notin Record \cup Request \cup Outcome \cup Handlers

VARIABLES
    rows,       \* rows[s]: the committed row of listening_sessions, None for no row
    expires,    \* expires[s]: its expires_at
    audit,      \* audit[s]: the committed rows of session_events, in commit order
    checkIns,   \* checkIns[s]: the committed rows of session_check_ins, likewise
    holder,     \* holder[s]: the request whose transaction has locked the row
    requests,   \* requests[h]: what request h is about to do, None when it is not there
    issued,     \* session IDs already drawn
    clock,      \* the database's clock
    catalog,    \* the tracks the server loaded when it started
    reply       \* the last HTTP response

tables == <<rows, expires, audit, checkIns>>
vars == <<rows, expires, audit, checkIns, holder, requests, issued, clock, catalog, reply>>

Ops == Mutations \cup Lists \cup {"none", "create", "get", "delete"}
Reply == [op : Ops, sid : Sessions \cup {None}, status : Nat,
          cause : Causes \cup {"notFound", "unavailable"}, session : Record \cup {None},
          items : Seq(AuditRow) \cup Seq(CheckInRow), changed : BOOLEAN]
-----------------------------------------------------------------------------
(* HTTP responses.                                                         *)

Respond(op, s, status, cause, session, items, changed) ==
    reply' = [op |-> op, sid |-> s, status |-> status, cause |-> cause,
              session |-> session, items |-> items, changed |-> changed]

Refuse(op, s, status, cause) == Respond(op, s, status, cause, None, <<>>, FALSE)
Answer(op, s, session, changed) == Respond(op, s, 200, "none", session, <<>>, changed)

\* ApplyEvent and AddCheckIn wrap the rules' errors in ErrInvalid, ClearCheckIns does
\* not; an error of the database or of a cancelled context is none of storeError's three.
ErrorStatus(op, cause) ==
    IF cause = "notFound" THEN 404
    ELSE IF cause = "conflict" THEN 409
    ELSE IF cause = "unavailable" \/ op = "clearCheckIns" THEN 503
    ELSE 400

Fault(op, s, cause) == Refuse(op, s, ErrorStatus(op, cause), cause)
-----------------------------------------------------------------------------
(* The tables, the row locks and the connections.                          *)

Live == {s \in Sessions : rows[s] # None}

\* Mutant: the condition on expires_at is missing.
VisibleWhileStored(s, at) == rows[s] # None

\* WHERE id=$1 AND expires_at>now(), in a statement or transaction begun at that time.
Visible(s, at) == rows[s] # None /\ expires[s] > at

EntryOf(s, id) == {k \in 1..Len(audit[s]) : audit[s][k].id = id}
Payload(row) == [id |-> row.id, track |-> row.track, type |-> row.type, rev |-> row.rev,
                 wellFormed |-> row.wellFormed]

\* Mutant: the rows of the first statement are never closed, and keep its connection.
TransactionsAndReads == {h \in Handlers : requests[h] # None}

Transactions == {h \in Handlers : requests[h] # None /\ requests[h].phase \in {"begun", "locked"}}
FreeConnection == Cardinality(Transactions) < PoolSize

Finish(h) == requests' = [requests EXCEPT ![h] = None]
Release(h) == holder' = [s \in Sessions |-> IF holder[s] = h THEN None ELSE holder[s]]

\* Mutant: the audit tables do not follow.
DropWithoutCascade(gone) ==
    /\ rows' = [s \in Sessions |-> IF s \in gone THEN None ELSE rows[s]]
    /\ UNCHANGED <<audit, checkIns, expires>>

\* DELETE FROM listening_sessions; both audit tables follow by ON DELETE CASCADE.
DropRows(gone) ==
    /\ rows'     = [s \in Sessions |-> IF s \in gone THEN None ELSE rows[s]]
    /\ audit'    = [s \in Sessions |-> IF s \in gone THEN <<>> ELSE audit[s]]
    /\ checkIns' = [s \in Sessions |-> IF s \in gone THEN <<>> ELSE checkIns[s]]
    /\ UNCHANGED expires
-----------------------------------------------------------------------------
(* Requests arrive.                                                        *)

\* POST /sessions: one INSERT.  Its answer may get lost on the way from the database; then
\* nobody knows of the session until it is purged.
Create(s) ==
    /\ s \notin issued
    /\ FreeConnection
    /\ clock < MaxClock
    /\ \E n \in QueueLengths, start \in StartMoods, target \in TargetMoods :
          \/ /\ ~ Buildable(catalog, {}, <<>>, n)
             /\ Refuse("create", None, 422, "build")
             /\ UNCHANGED <<tables, issued>>
          \/ /\ Buildable(catalog, {}, <<>>, n)
             /\ \E sel \in Selections(catalog, {}, n), playable \in AudioStates :
                  \/ /\ \E i \in 1..n : sel[i] \notin playable
                     /\ Refuse("create", None, 503, "audio")
                     /\ UNCHANGED <<tables, issued>>
                  \/ /\ \A i \in 1..n : sel[i] \in playable
                     /\ rows' = [rows EXCEPT ![s] = FirstRecord(start, target, sel, n)]
                     /\ expires' = [expires EXCEPT ![s] = clock + Retention]
                     /\ issued' = issued \cup {s}
                     /\ \/ Respond("create", s, 201, "none", rows'[s], <<>>, FALSE)
                        \/ Fault("create", s, "unavailable")
                     /\ UNCHANGED <<audit, checkIns>>
    /\ UNCHANGED <<holder, requests, clock, catalog>>

Get(s) ==
    /\ FreeConnection
    /\ IF Visible(s, clock) THEN Answer("get", s, rows[s], FALSE)
       ELSE Fault("get", s, "notFound")
    /\ UNCHANGED <<tables, holder, requests, issued, clock, catalog>>

\* A client names a session it has been told of (IDs are random and not guessed) and a
\* revision it has been shown: the current one or an earlier one.
Shown(s) == {rev \in 1..(MaxRevision - 1) : rows[s] # None => rev <= rows[s].revision}

\* The request starts a transaction, or the single statement of DeleteSession.
Begin(h, op, s, input) ==
    /\ FreeConnection
    /\ requests' = [requests EXCEPT ![h] =
          [op |-> op, sid |-> s, phase |-> "begun", at |-> clock, input |-> input, out |-> None]]
    /\ UNCHANGED <<tables, holder, issued, clock, catalog, reply>>

Arrive(h, op, s, input) ==
    /\ requests[h] = None
    /\ s \in issued
    /\ clock < MaxClock
    /\ Begin(h, op, s, input)

PostEvent(h, s) ==
    \E id \in ClientIds, track \in Tracks, type \in SentTypes, rev \in Shown(s),
       ok \in SentForms :
       Arrive(h, "event", s, [id |-> id, track |-> track, type |-> type, rev |-> rev,
                              wellFormed |-> ok])

AddCheckIn(h, s) ==
    \E rev \in Shown(s), mood \in CheckInMoods, ok \in SentForms :
        Arrive(h, "checkIn", s, [rev |-> rev, mood |-> mood, wellFormed |-> ok])

ClearAllCheckIns(h, s) ==
    \E rev \in Shown(s) : Arrive(h, "clearCheckIns", s, [rev |-> rev])

DeleteSession(h, s) == Arrive(h, "delete", s, None)

\* Event IDs drawn by advance are random: not in the table and not on their way to it.
FreshIds(s) ==
    {id \in EventIds \ ClientIds :
        /\ EntryOf(s, id) = {}
        /\ \A h \in Handlers : requests[h] # None /\ requests[h].op = "advance" =>
              requests[h].input.id # id}

\* POST /advance, first store call: Get, then the checks on the record it returned.
AdvanceRead(h, s) ==
    /\ requests[h] = None
    /\ s \in issued
    /\ FreeConnection
    /\ clock < MaxClock
    /\ \E rev \in Shown(s), type \in Moves :
          \/ /\ ~ Visible(s, clock)
             /\ Fault("advance", s, "notFound")
             /\ UNCHANGED requests
          \/ /\ Visible(s, clock)
             /\ rev # rows[s].revision \/ rows[s].status = "completed"
             /\ Fault("advance", s, "conflict")
             /\ UNCHANGED requests
          \/ /\ Visible(s, clock)
             /\ rev = rows[s].revision
             /\ rows[s].status # "completed"
             /\ \E id \in FreshIds(s) :
                  requests' = [requests EXCEPT ![h] =
                     [op |-> "advance", sid |-> s, phase |-> "read", at |-> 0, out |-> None,
                      input |-> [id |-> id, type |-> type, rev |-> rev, wellFormed |-> TRUE,
                                 track |-> rows[s].queue[rows[s].index + 1].track]]]
             /\ UNCHANGED reply
    /\ UNCHANGED <<tables, holder, issued, clock, catalog>>

\* POST /advance, second store call.
AdvanceBegin(h) ==
    /\ requests[h] # None
    /\ requests[h].phase = "read"
    /\ Begin(h, "advance", requests[h].sid, requests[h].input)

\* GET /events and GET /check-ins are a Get and a SELECT, with nothing around them.
ListCheck(h, s) ==
    /\ requests[h] = None
    /\ s \in issued
    /\ FreeConnection
    /\ clock < MaxClock
    /\ \E op \in Lists :
          IF Visible(s, clock)
          THEN /\ requests' = [requests EXCEPT ![h] =
                     [op |-> op, sid |-> s, phase |-> "checked", at |-> clock,
                      input |-> None, out |-> None]]
               /\ UNCHANGED reply
          ELSE Fault(op, s, "notFound") /\ UNCHANGED requests
    /\ UNCHANGED <<tables, holder, issued, clock, catalog>>

ListSelect(h) ==
    /\ requests[h] # None
    /\ requests[h].phase = "checked"
    /\ FreeConnection
    /\ LET s == requests[h].sid
           items == IF requests[h].op = "listEvents" THEN audit[s] ELSE checkIns[s]
       IN  Respond(requests[h].op, s, 200, "none", None, items, FALSE)
    /\ Finish(h)
    /\ UNCHANGED <<tables, holder, issued, clock, catalog>>
-----------------------------------------------------------------------------
(* The transaction gets the row.                                           *)

\* What the rules make of the locked row and the committed history.
Outcomes(t, playable) ==
    LET r == rows[t.sid]
        history == audit[t.sid]
    IN  CASE t.op = "checkIn" -> ApplyCheckIn(catalog, playable, r, history, t.input)
          [] t.op = "clearCheckIns" -> ClearCheckIns(catalog, playable, r, history, t.input.rev)
          [] OTHER -> ApplyEvent(catalog, playable, r, history, t.input)

\* Mutant: the table is not asked for the event ID.
IsRetryNever(t) == FALSE

IsRetry(t) == t.op \in {"event", "advance"} /\ EntryOf(t.sid, t.input.id) # {}

\* No such row, or no longer: the transaction is rolled back.
LockNothing(h) ==
    /\ ~ Visible(requests[h].sid, requests[h].at)
    /\ Fault(requests[h].op, requests[h].sid, "notFound")
    /\ Finish(h)
    /\ UNCHANGED holder

\* Mutant: the payload of the first attempt is not compared with this one.
LockRetryById(h) ==
    LET t == requests[h]
    IN  /\ Visible(t.sid, t.at)
        /\ IsRetry(t)
        /\ \E k \in EntryOf(t.sid, t.input.id) :
              Answer(t.op, t.sid, rows[t.sid], audit[t.sid][k].changed)
        /\ Finish(h)
        /\ UNCHANGED holder

\* The event ID is in the table: the stored flag with the row of today, or a conflict.
LockRetry(h) ==
    LET t == requests[h]
    IN  /\ Visible(t.sid, t.at)
        /\ IsRetry(t)
        /\ \E k \in EntryOf(t.sid, t.input.id) :
              IF Payload(audit[t.sid][k]) = t.input
              THEN Answer(t.op, t.sid, rows[t.sid], audit[t.sid][k].changed)
              ELSE Fault(t.op, t.sid, "conflict")
        /\ Finish(h)
        /\ UNCHANGED holder

\* The rules refuse, and the deferred Rollback gives the row back; or they accept, and
\* the statements are executed and wait for the commit.
LockApply(h) ==
    LET t == requests[h]
    IN  /\ Visible(t.sid, t.at)
        /\ ~ IsRetry(t)
        /\ \E playable \in AudioStates : \E out \in Outcomes(t, playable) :
              \/ /\ out.cause # "none"
                 /\ Fault(t.op, t.sid, out.cause)
                 /\ Finish(h)
                 /\ UNCHANGED holder
              \/ /\ out.cause = "none"
                 /\ holder' = [holder EXCEPT ![t.sid] = h]
                 /\ requests' = [requests EXCEPT ![h].phase = "locked", ![h].out = out]
                 /\ UNCHANGED reply

\* Mutant: SELECT without FOR UPDATE.
LockRowShared(h) ==
    /\ requests[h] # None
    /\ requests[h].phase = "begun"
    /\ requests[h].op \in Mutations
    /\ LockNothing(h) \/ LockRetry(h) \/ LockApply(h)
    /\ UNCHANGED <<tables, issued, clock, catalog>>

LockRow(h) ==
    /\ requests[h] # None
    /\ requests[h].phase = "begun"
    /\ requests[h].op \in Mutations
    /\ holder[requests[h].sid] = None
    /\ LockNothing(h) \/ LockRetry(h) \/ LockApply(h)
    /\ UNCHANGED <<tables, issued, clock, catalog>>

\* DELETE /sessions/{id} waits for the row too, and does not look at its expiry.
DeleteRow(h) ==
    /\ requests[h] # None
    /\ requests[h].phase = "begun"
    /\ requests[h].op = "delete"
    /\ LET s == requests[h].sid
       IN  /\ holder[s] = None
           /\ IF rows[s] = None
              THEN Fault("delete", s, "notFound") /\ UNCHANGED tables
              ELSE DropRows({s}) /\ Respond("delete", s, 204, "none", None, <<>>, FALSE)
    /\ Finish(h)
    /\ UNCHANGED <<holder, issued, clock, catalog>>
-----------------------------------------------------------------------------
(* The transaction ends.                                                   *)

\* Mutant: the row is stamped with the session's creation.
WriteEventStampedEarly(t) ==
    /\ audit' = [audit EXCEPT ![t.sid] = Append(@,
          [id |-> t.input.id, track |-> t.input.track, type |-> t.input.type,
           rev |-> t.input.rev, wellFormed |-> t.input.wellFormed,
           at |-> expires[t.sid] - Retention, changed |-> t.out.changed])]
    /\ UNCHANGED checkIns

WriteEvent(t) ==
    /\ audit' = [audit EXCEPT ![t.sid] = Append(@,
          [id |-> t.input.id, track |-> t.input.track, type |-> t.input.type,
           rev |-> t.input.rev, wellFormed |-> t.input.wellFormed,
           at |-> t.at, changed |-> t.out.changed])]
    /\ UNCHANGED checkIns

WriteCheckIn(t) ==
    /\ checkIns' = [checkIns EXCEPT ![t.sid] = Append(@, [mood |-> t.out.rec.checkIn, at |-> t.at])]
    /\ UNCHANGED audit

ClearRows(t) == checkIns' = [checkIns EXCEPT ![t.sid] = <<>>] /\ UNCHANGED audit

\* Everything the transaction wrote becomes visible, and the row is free.  The answer may
\* get lost on the way from the database.  A commit takes time.
Commit(h) ==
    /\ requests[h] # None
    /\ requests[h].phase = "locked"
    /\ LET t == requests[h]
       IN  /\ rows' = [rows EXCEPT ![t.sid] = t.out.rec]
           /\ CASE t.op = "checkIn" -> WriteCheckIn(t)
                [] t.op = "clearCheckIns" -> ClearRows(t)
                [] OTHER -> WriteEvent(t)
           /\ \/ Answer(t.op, t.sid, t.out.rec, t.out.changed)
              \/ Fault(t.op, t.sid, "unavailable")
    /\ clock' = IF clock < MaxClock THEN clock + 1 ELSE clock
    /\ Finish(h)
    /\ Release(h)
    /\ UNCHANGED <<expires, issued, catalog>>

\* Mutant: no deferred Rollback; the transaction stays open.
CancelLeavesOpen(h) ==
    /\ requests[h] # None
    /\ Fault(requests[h].op, requests[h].sid, "unavailable")
    /\ Finish(h)
    /\ UNCHANGED <<tables, holder, issued, clock, catalog>>

\* Mutant: the error of the commit is dropped, and the change is reported as made.
CancelReportsSuccess(h) ==
    /\ requests[h] # None
    /\ IF requests[h].phase = "locked"
       THEN Answer(requests[h].op, requests[h].sid, requests[h].out.rec, FALSE)
       ELSE Fault(requests[h].op, requests[h].sid, "unavailable")
    /\ Finish(h)
    /\ Release(h)
    /\ UNCHANGED <<tables, issued, clock, catalog>>

\* Mutant: the UPDATE runs outside the transaction and survives it.
CancelKeepsUpdate(h) ==
    /\ requests[h] # None
    /\ rows' = IF requests[h].phase = "locked"
               THEN [rows EXCEPT ![requests[h].sid] = requests[h].out.rec] ELSE rows
    /\ Fault(requests[h].op, requests[h].sid, "unavailable")
    /\ Finish(h)
    /\ Release(h)
    /\ UNCHANGED <<expires, audit, checkIns, issued, clock, catalog>>

\* The client goes away or the connection breaks: the context is cancelled, the deferred
\* Rollback undoes the statements, and the answer reaches nobody.
Cancel(h) ==
    /\ requests[h] # None
    /\ Fault(requests[h].op, requests[h].sid, "unavailable")
    /\ Finish(h)
    /\ Release(h)
    /\ UNCHANGED <<tables, issued, clock, catalog>>

\* PurgeExpired is one DELETE; it waits for locked rows.
PurgeExpired ==
    LET gone == {s \in Live : ~ Visible(s, clock)}
    IN  /\ gone # {}
        /\ \A s \in gone : holder[s] = None
        /\ FreeConnection
        /\ DropRows(gone)
        /\ UNCHANGED <<holder, requests, issued, clock, catalog, reply>>

\* The server stops and starts: open transactions are rolled back, the catalog is read
\* again, and Open purges.
Restart ==
    /\ requests' = [h \in Handlers |-> None]
    /\ holder' = [s \in Sessions |-> None]
    /\ catalog' \in Catalogs
    /\ DropRows({s \in Sessions : ~ Visible(s, clock)})
    /\ UNCHANGED <<issued, clock, reply>>

Tick ==
    /\ clock < MaxClock
    /\ clock' = clock + 1
    /\ UNCHANGED <<tables, holder, requests, issued, catalog, reply>>

Init ==
    /\ rows = [s \in Sessions |-> None]
    /\ expires = [s \in Sessions |-> 0]
    /\ audit = [s \in Sessions |-> <<>>]
    /\ checkIns = [s \in Sessions |-> <<>>]
    /\ holder = [s \in Sessions |-> None]
    /\ requests = [h \in Handlers |-> None]
    /\ issued = {}
    /\ clock = 0
    /\ catalog \in Catalogs
    /\ reply = [op |-> "none", sid |-> None, status |-> 200, cause |-> "none",
                session |-> None, items |-> <<>>, changed |-> FALSE]

Next ==
    \/ \E s \in Sessions : Create(s) \/ Get(s)
    \/ \E h \in Handlers, s \in Sessions :
          \/ PostEvent(h, s) \/ AddCheckIn(h, s) \/ ClearAllCheckIns(h, s)
          \/ DeleteSession(h, s) \/ AdvanceRead(h, s) \/ ListCheck(h, s)
    \/ \E h \in Handlers :
          \/ AdvanceBegin(h) \/ ListSelect(h) \/ LockRow(h) \/ DeleteRow(h)
          \/ Commit(h) \/ Cancel(h)
    \/ PurgeExpired
    \/ Restart
    \/ Tick

Spec == Init /\ [][Next]_vars
-----------------------------------------------------------------------------
(* Type invariant.                                                         *)

\* Every variable keeps its type; the tables are total with None for a missing row.
TypeOK ==
    /\ rows \in [Sessions -> Record \cup {None}]
    /\ expires \in [Sessions -> Nat]
    /\ audit \in [Sessions -> Seq(AuditRow)]
    /\ checkIns \in [Sessions -> Seq(CheckInRow)]
    /\ holder \in [Sessions -> Handlers \cup {None}]
    /\ requests \in [Handlers -> Request \cup {None}]
    /\ issued \subseteq Sessions
    /\ clock \in Nat
    /\ catalog \in Catalogs
    /\ reply \in Reply
-----------------------------------------------------------------------------
(* Safety: the transactions.                                               *)

\* No update is lost: what waits for its commit was computed from the row that is still
\* the committed one, by the only transaction that holds it (SELECT ... FOR UPDATE).
PreparedOnCurrentRow ==
    \A h \in Handlers : requests[h] # None /\ requests[h].phase = "locked" =>
        LET t == requests[h]
        IN  /\ holder[t.sid] = h
            /\ rows[t.sid] # None
            /\ t.out.rec.revision = rows[t.sid].revision + 1
            /\ LockedKept(rows[t.sid], t.out.rec)

\* A row is locked only by a transaction that will end it, so nobody waits for a request
\* that is no longer there (the deferred Rollback).
LocksAreHeld ==
    \A s \in Sessions : holder[s] # None =>
        LET t == requests[holder[s]] IN t # None /\ t.sid = s /\ t.phase = "locked"

\* The primary key (session_id, event_id) is never hit: an INSERT that waits for its
\* commit carries an ID that is not in the table (the retry branch of ApplyEvent).
KeyIsFree ==
    /\ \A s \in Sessions : \A j, k \in 1..Len(audit[s]) :
          audit[s][j].id = audit[s][k].id => j = k
    /\ \A h \in Handlers :
          requests[h] # None /\ requests[h].phase = "locked"
             /\ requests[h].op \in {"event", "advance"} =>
          EntryOf(requests[h].sid, requests[h].input.id) = {}

\* The listed order, by accepted_at and created_at, is the order in which the changes
\* were made, although both are the time a transaction began and not the time it got the
\* row: a client that names the revision it has been shown begins after that revision.
ListedInOrder ==
    \A s \in Sessions :
        /\ \A k \in 2..Len(audit[s]) : audit[s][k - 1].at < audit[s][k].at
        /\ \A k \in 2..Len(checkIns[s]) : checkIns[s][k - 1].at < checkIns[s][k].at
-----------------------------------------------------------------------------
(* Safety: the path of the row.                                            *)

\* The journey keeps its destination and the future follows the listener, whichever of
\* the waiting changes came last (replan, ClearCheckIns).
PathFollowsListener ==
    \A s \in Live : ReachesTarget(rows[s]) /\ FutureFollows(rows[s], StartMoods)
-----------------------------------------------------------------------------
(* Safety: what a step may never do.                                       *)

\* A reply that shows a session shows the committed one: never a change that is still
\* to be committed, and after a retry no check-in deleted since (ApplyEvent).
ReplyShowsCommitted ==
    reply' # reply /\ reply'.session # None => reply'.session = rows'[reply'.sid]
RepliesAreCommitted == [][ReplyShowsCommitted]_vars

Payloads(trail) == {Payload(trail[k]) : k \in 1..Len(trail)}

\* An event is accepted as it was sent or not at all: when its request is answered with the
\* session, the audit holds this very payload and no other under its ID, whichever request
\* with that ID got the row first (the payload comparison of ApplyEvent, its INSERT).
AnswersStandForTheirEvent ==
    \A h \in Handlers :
        LET t == requests[h]
        IN  /\ t # None /\ requests'[h] = None
            /\ t.op \in {"event", "advance"}
            /\ reply' # reply /\ reply'.session # None
            => {p \in Payloads(audit'[t.sid]) : p.id = t.input.id} = {t.input}
AcceptedAsSent == [][AnswersStandForTheirEvent]_vars

\* After expires_at a session is only removed, but for a transaction that began before.
LateChangesBeganEarlier ==
    \A s \in Live : rows'[s] # rows[s] /\ rows'[s] # None =>
        \E h \in Handlers : /\ requests[h] # None /\ requests'[h] = None
                            /\ requests[h].sid = s /\ requests[h].at < expires[s]
ExpiryHolds == [][LateChangesBeganEarlier]_vars
-----------------------------------------------------------------------------
(* The inductive invariant.                                                *)

\* A row belongs to an issued session, is in order and follows the listener; a session
\* without a row has nothing in the other tables either.
RowsSound ==
    \A s \in Sessions :
        IF rows[s] = None THEN audit[s] = <<>> /\ checkIns[s] = <<>>
        ELSE /\ s \in issued /\ rows[s].target # None
             /\ PositionOK(rows[s]) /\ Orderly(rows[s].queue)

\* What a request was sent with suits its operation, and its phase suits it too.
RequestsSound ==
    \A h \in Handlers : requests[h] # None =>
        LET t == requests[h]
        IN  /\ t.sid \in issued /\ t.at <= clock
            /\ t.op \in {"event", "advance"} => t.input \in Event
            /\ t.op = "checkIn" => t.input \in CheckInInput
            /\ t.op = "clearCheckIns" => t.input \in [rev : Nat]
            /\ t.phase = "read" => t.op = "advance"
            /\ t.phase = "checked" => t.op \in Lists

\* What waits for its commit is what the rules make of the row, the trail and the catalog
\* as they are at this moment, however long ago the row was locked.
PreparedByRules ==
    \A h \in Handlers : requests[h] # None /\ requests[h].phase = "locked" =>
        LET t == requests[h]
        IN  /\ t.op \in Mutations
            /\ holder[t.sid] = h
            /\ Visible(t.sid, t.at)
            /\ ~ IsRetry(t)
            /\ t.out.cause = "none"
            /\ \E playable \in AudioStates : t.out \in Outcomes(t, playable)

\* Every time in the tables of session s is before the given one.
AllBefore(s, at) ==
    /\ \A k \in 1..Len(audit[s]) : audit[s][k].at < at
    /\ \A k \in 1..Len(checkIns[s]) : checkIns[s][k].at < at

\* Nothing in the tables is stamped later than now, nor just now while requests arrive; a
\* request for the current revision began after all that is there.
TimesPassed ==
    /\ \A s \in Sessions : AllBefore(s, IF clock < MaxClock THEN clock ELSE clock + 1)
    /\ \A h \in Handlers : requests[h] # None /\ requests[h].op \in Mutations =>
          LET t == requests[h]
          IN  rows[t.sid] # None =>
                 /\ t.input.rev <= rows[t.sid].revision
                 /\ t.input.rev = rows[t.sid].revision =>
                       AllBefore(t.sid, IF t.phase = "read" THEN clock ELSE t.at)

IInv ==
    /\ TypeOK /\ RowsSound /\ RequestsSound /\ PreparedByRules /\ LocksAreHeld
    /\ KeyIsFree /\ ListedInOrder /\ TimesPassed /\ PathFollowsListener
-----------------------------------------------------------------------------
(* Refinement.                                                             *)

\* Transactions that wait, commit, vanish or are cut off by a restart keep the contract of
\* session.Store: a request takes effect in the one step of its commit, or never.
Trail == [s \in Sessions |-> [k \in 1..Len(audit[s]) |-> Payload(audit[s][k])]]
CheckedMoods == [s \in Sessions |-> [k \in 1..Len(checkIns[s]) |-> checkIns[s][k].mood]]

Contract == INSTANCE SessionContract WITH
    records <- rows, trail <- Trail, moods <- CheckedMoods
KeepsContract == Contract!ContractSpec
-----------------------------------------------------------------------------
(* Liveness.                                                               *)

\* database/sql hands connections out, and PostgreSQL row locks, first come first served:
\* a request that can get the one it waits for again and again gets it.  A statement ends.
Proceed(h) == AdvanceBegin(h) \/ ListSelect(h) \/ LockRow(h) \/ DeleteRow(h)
Fairness == \A h \in Handlers : SF_vars(Proceed(h)) /\ WF_vars(Commit(h))

FairSpec == Spec /\ Fairness

\* Every request ends: requests that wait for rows while they hold connections, and for
\* connections while others hold rows, never wait for each other in a circle.
EveryRequestEnds == \A h \in Handlers : requests[h] # None ~> requests[h] = None
-----------------------------------------------------------------------------
(* A statement of the documentation that the code does not keep.           *)

\* docs/contracts/API.md: an unknown session is answered with 404.
ListedSessionsExist ==
    [][reply' # reply /\ reply'.op = "listEvents" /\ reply'.status = 200
          => rows'[reply'.sid] # None]_vars
=============================================================================

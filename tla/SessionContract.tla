--------------------------- MODULE SessionContract ---------------------------
(***************************************************************************)
(* What session.Store (internal/session/store.go) promises its callers,    *)
(* whichever store it is: a session changes in single steps, each of them  *)
(* one accepted request, however many requests were running, and nothing   *)
(* a caller was told is ever taken back.                                   *)
(*                                                                         *)
(* The planner is left out: the queue behind the track being played may    *)
(* become anything that repeats no track.  So are retries and refusals,    *)
(* which change nothing.                                                   *)
(***************************************************************************)
EXTENDS SessionProperties

CONSTANT Sessions

VARIABLES
    records,    \* records[s]: the session, None before it is opened and after it is gone
    trail,      \* trail[s]: the accepted events, oldest first
    moods       \* moods[s]: the check-ins not deleted, oldest first

contract == <<records, trail, moods>>

\* Only session s changes.
OthersStay(s) ==
    \A t \in Sessions \ {s} :
        records'[t] = records[t] /\ trail'[t] = trail[t] /\ moods'[t] = moods[t]

\* A new session: at the start of a queue without repetitions, with nothing audited.
Opened(s) ==
    /\ records[s] = None
    /\ records'[s] # None
    /\ records'[s].index = 0 /\ records'[s].status = "ready"
    /\ records'[s].lastAction = None /\ records'[s].checkIn = None
    /\ records'[s].revision = 1
    /\ Orderly(records'[s].queue)
    /\ trail'[s] = <<>> /\ moods'[s] = <<>>
    /\ OthersStay(s)

\* One accepted change: the next revision, the same target, the played slots untouched.
Advanced(s) ==
    /\ records[s] # None /\ records'[s] # None
    /\ records'[s].revision = records[s].revision + 1
    /\ records'[s].target = records[s].target
    /\ LockedKept(records[s], records'[s])
    /\ Orderly(records'[s].queue)
    /\ OthersStay(s)

\* An event made for the current revision, new, and about the track being played; only a
\* like may be about an earlier one.
Fits(s, e) ==
    LET r == records[s]
    IN  /\ e.rev = r.revision
        /\ \A k \in 1..Len(trail[s]) : trail[s][k].id # e.id
        /\ IF e.type = "like"
           THEN \E i \in 1..Len(r.queue) : i <= r.index + 1 /\ r.queue[i].track = e.track
           ELSE r.index < Len(r.queue) /\ r.queue[r.index + 1].track = e.track

EventAccepted(s) ==
    LET r == records[s]
        new == records'[s]
        e == trail'[s][Len(trail'[s])]
    IN  /\ Advanced(s)
        /\ Len(trail'[s]) = Len(trail[s]) + 1
        /\ trail'[s] = Append(trail[s], e)
        /\ Fits(s, e)
        /\ new.index = IF e.type \in Moves THEN r.index + 1 ELSE r.index
        /\ new.lastAction = IF e.type \in Moves THEN e.type ELSE r.lastAction
        /\ new.status = IF e.type \in Moves
                        THEN IF new.index = Len(r.queue) THEN "completed" ELSE "active"
                        ELSE IF e.type = "start" /\ r.status = "ready" THEN "active"
                        ELSE r.status
        /\ new.checkIn = r.checkIn
        /\ moods'[s] = moods[s]

\* What stays when only the check-ins change.
PlaceKept(s) ==
    /\ records'[s].index = records[s].index
    /\ records'[s].status = records[s].status
    /\ records'[s].lastAction = records[s].lastAction
    /\ trail'[s] = trail[s]

CheckedIn(s) ==
    /\ Advanced(s)
    /\ PlaceKept(s)
    /\ records[s].status # "completed"
    /\ records'[s].checkIn # None
    /\ moods'[s] = Append(moods[s], records'[s].checkIn)

CheckInsCleared(s) ==
    /\ Advanced(s)
    /\ PlaceKept(s)
    /\ records'[s].checkIn = None
    /\ moods'[s] = <<>>

\* Sessions go as a whole: deleted one by one, purged many at a time.
Closed(gone) ==
    \A s \in Sessions :
        IF s \in gone
        THEN records'[s] = None /\ trail'[s] = <<>> /\ moods'[s] = <<>>
        ELSE records'[s] = records[s] /\ trail'[s] = trail[s] /\ moods'[s] = moods[s]

ContractInit ==
    /\ records = [s \in Sessions |-> None]
    /\ trail = [s \in Sessions |-> <<>>]
    /\ moods = [s \in Sessions |-> <<>>]

ContractNext ==
    \/ \E s \in Sessions :
          Opened(s) \/ EventAccepted(s) \/ CheckedIn(s) \/ CheckInsCleared(s)
    \/ \E gone \in SUBSET Sessions : Closed(gone)

ContractSpec == ContractInit /\ [][ContractNext]_contract
=============================================================================

--------------------------- MODULE ListeningClient ---------------------------
(***************************************************************************)
(* A client of the listening API, as docs/PHASE_5.md tells it to behave,   *)
(* against the in-memory store: it passes track after track with advance   *)
(* at the revision on its screen, and refreshes with GET after a refusal   *)
(* or an answer that got lost.  Meanwhile a second tab sends events and    *)
(* check-ins, audio files come and go, and the session may expire or be    *)
(* deleted.                                                                *)
(***************************************************************************)
EXTENDS MemoryStore

CONSTANTS
    Sid,            \* the client's session
    Tab,            \* the client's advance request
    OthersUntil     \* bound: the second tab changes nothing from this revision on

ASSUME ClientAssumption ==
    /\ Sid \in Sessions /\ Tab \in Workers
    /\ OthersUntil \in Nat
    /\ \A n \in QueueLengths : OthersUntil + n <= MaxRevision

VARIABLE screen     \* the revision the client shows, None when it has to refresh

clientVars == <<vars, screen>>

\* An answer with a session is shown, unless it is lost; anything else calls for a refresh.
Shows == screen' \in {None} \cup {r.revision : r \in {reply'.session} \ {None}}

Open == Create(Sid) /\ screen' = None

Refresh ==
    /\ screen = None
    /\ Get(Sid)
    /\ Shows

\* The client's revision is today's, and the session goes on.
UpToDate ==
    /\ ~ Hidden(Sid)
    /\ records[Sid].status # "completed"
    /\ screen = records[Sid].revision

\* Random IDs are interchangeable: any one that is not in use stands for all.
DrawsOne(w) == workers'[w] # None => workers'[w].event.id = CHOOSE id \in FreshIds(Sid) : TRUE

Advance ==
    /\ screen # None
    /\ AdvanceRead(Tab, Sid) /\ DrawsOne(Tab)
    /\ workers'[Tab] # None <=> UpToDate
    /\ screen' = None

Answered == AdvanceApply(Tab) /\ Shows

\* What others do to the session.
SecondTab ==
    /\ records[Sid] # None /\ records[Sid].revision < OthersUntil
    /\ \/ PostEvent(Sid) \/ AddCheckIn(Sid) \/ ClearAllCheckIns(Sid)
       \/ \E w \in Workers \ {Tab} : AdvanceRead(w, Sid) /\ DrawsOne(w)
SecondAnswer == \E w \in Workers \ {Tab} : AdvanceApply(w)

Others ==
    /\ SecondTab \/ SecondAnswer \/ DeleteSession(Sid) \/ Expire(Sid) \/ PurgeExpired \/ AudioChanges
    /\ UNCHANGED screen

ClientInit == Init /\ screen = None
ClientNext == Open \/ Refresh \/ Advance \/ Answered \/ Others

\* The client goes on, requests are handled, and not every answer to a refresh gets lost.
\* Nothing is asked of the others.
ClientSpec ==
    /\ ClientInit /\ [][ClientNext]_clientVars
    /\ WF_clientVars(Refresh /\ screen' # None)
    /\ WF_clientVars(Advance)
    /\ WF_clientVars(Answered)

-----------------------------------------------------------------------------
\* A session whose client goes on is completed in the end, unless it expires or is deleted:
\* however often an answer is lost or another tab comes first, no refused replan leaves the
\* session in a state that refuses every further one once the audio files are back.
JourneyCompletes ==
    <>[](playable = Tracks) =>
        (records[Sid] # None ~> Hidden(Sid) \/ records[Sid].status = "completed")
=============================================================================

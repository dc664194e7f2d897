-------------------------- MODULE PostgresStoreProofs --------------------------
(***************************************************************************)
(* The invariant of PostgresStore, for every set of sessions, tracks,      *)
(* requests in flight and every pool, retention and clock bound.           *)
(*                                                                         *)
(* The argument is about the request that holds a row: from the moment it  *)
(* gets the lock to its commit, nothing it read can change, so what it     *)
(* commits is what the rules make of the row as it is THEN.  Everything    *)
(* else about a commit follows from the lemmas on the rules.               *)
(***************************************************************************)
EXTENDS PostgresStore, SessionRulesProofs

\* The invariant, one session and one request at a time.
RowGood(s) ==
    /\ rows[s] = None => audit[s] = <<>> /\ checkIns[s] = <<>>
    /\ rows[s] # None =>
          /\ s \in issued /\ rows[s].target # None
          /\ PositionOK(rows[s]) /\ Orderly(rows[s].queue)
          /\ ReachesTarget(rows[s]) /\ FutureFollows(rows[s], StartMoods)

LockGood(s) ==
    holder[s] # None =>
        LET t == requests[holder[s]] IN t # None /\ t.sid = s /\ t.phase = "locked"

Bound == IF clock < MaxClock THEN clock ELSE clock + 1

TrailGood(s) ==
    /\ \A j, k \in 1..Len(audit[s]) : audit[s][j].id = audit[s][k].id => j = k
    /\ \A k \in 2..Len(audit[s]) : audit[s][k - 1].at < audit[s][k].at
    /\ \A k \in 2..Len(checkIns[s]) : checkIns[s][k - 1].at < checkIns[s][k].at
    /\ AllBefore(s, Bound)

SessionGood(s) == RowGood(s) /\ LockGood(s) /\ TrailGood(s)

SentRight(t) ==
    /\ t.sid \in issued /\ t.at <= clock
    /\ t.op \in {"event", "advance"} => t.input \in Event
    /\ t.op = "checkIn" => t.input \in CheckInInput
    /\ t.op = "clearCheckIns" => t.input \in [rev : Nat]
    /\ t.phase = "read" => t.op = "advance"
    /\ t.phase = "checked" => t.op \in Lists

Prepared(h, t) ==
    /\ t.op \in Mutations
    /\ holder[t.sid] = h
    /\ Visible(t.sid, t.at)
    /\ ~ IsRetry(t)
    /\ t.out.cause = "none"
    /\ \E playable \in AudioStates : t.out \in Outcomes(t, playable)

BeganAfter(t) ==
    t.op \in Mutations /\ rows[t.sid] # None =>
        /\ t.input.rev <= rows[t.sid].revision
        /\ t.input.rev = rows[t.sid].revision =>
              AllBefore(t.sid, IF t.phase = "read" THEN clock ELSE t.at)

RequestGood(h) ==
    requests[h] # None =>
        /\ SentRight(requests[h])
        /\ requests[h].phase = "locked" => Prepared(h, requests[h])
        /\ BeganAfter(requests[h])

AllGood == (\A s \in Sessions : SessionGood(s)) /\ (\A h \in Handlers : RequestGood(h))

LEMMA IInvImplies == IInv => TypeOK /\ AllGood
BY DEF IInv, RowsSound, RequestsSound, PreparedByRules, LocksAreHeld, KeyIsFree,
       ListedInOrder, TimesPassed, PathFollowsListener, AllGood, SessionGood, RequestGood,
       RowGood, LockGood, TrailGood, SentRight, Prepared, BeganAfter, Bound, Live

LEMMA IInvFollows == TypeOK /\ AllGood => IInv
<1> SUFFICES ASSUME TypeOK, AllGood PROVE IInv
  OBVIOUS
<1>1. KeyIsFree
  BY DEF KeyIsFree, AllGood, SessionGood, TrailGood, RequestGood, Prepared, IsRetry
<1>2. TimesPassed
  BY DEF TimesPassed, AllGood, SessionGood, TrailGood, RequestGood, BeganAfter, Bound
<1>3. RowsSound /\ PathFollowsListener /\ LocksAreHeld /\ ListedInOrder
  BY DEF RowsSound, PathFollowsListener, LocksAreHeld, ListedInOrder, AllGood, SessionGood,
         RowGood, LockGood, TrailGood, Live
<1>4. RequestsSound /\ PreparedByRules
  BY DEF RequestsSound, PreparedByRules, AllGood, RequestGood, SentRight, Prepared
<1> QED
  BY <1>1, <1>2, <1>3, <1>4 DEF IInv
-----------------------------------------------------------------------------
(* Responses.                                                              *)

\* What a step owes to the caller: a well-typed response that shows committed state.
ReplyGood == reply' \in Reply /\ ReplyShowsCommitted

LEMMA RespondGood ==
    ASSUME NEW op \in Ops, NEW s \in Sessions \cup {None}, NEW status \in Nat,
           NEW cause \in Causes \cup {"notFound", "unavailable"},
           NEW session \in Record \cup {None},
           NEW items \in Seq(AuditRow) \cup Seq(CheckInRow), NEW changed \in BOOLEAN,
           Respond(op, s, status, cause, session, items, changed),
           session # None => session = rows'[s]
    PROVE  ReplyGood
<1>1. reply' \in Reply
  BY DEF Respond, Reply
<1>2. reply'.session = session /\ reply'.sid = s
  BY DEF Respond
<1> QED
  BY <1>1, <1>2 DEF ReplyGood, ReplyShowsCommitted

LEMMA ReplyUnchanged ==
    ASSUME reply \in Reply, reply' = reply
    PROVE  ReplyGood
BY DEF ReplyGood, ReplyShowsCommitted

LEMMA RefuseGood ==
    ASSUME NEW op \in Ops, NEW s \in Sessions \cup {None}, NEW status \in Nat,
           NEW cause \in Causes \cup {"notFound", "unavailable"}, Refuse(op, s, status, cause)
    PROVE  ReplyGood
<1>1. <<>> \in Seq(AuditRow) \cup Seq(CheckInRow)
  OBVIOUS
<1> QED
  BY <1>1, RespondGood DEF Refuse

LEMMA FaultGood ==
    ASSUME NEW op \in Ops, NEW s \in Sessions,
           NEW cause \in Causes \cup {"notFound", "unavailable"}, Fault(op, s, cause)
    PROVE  ReplyGood
<1>1. ErrorStatus(op, cause) \in Nat
  BY DEF ErrorStatus
<1> QED
  BY <1>1, RefuseGood DEF Fault

LEMMA AnswerGood ==
    ASSUME NEW op \in Ops, NEW s \in Sessions, NEW session \in Record,
           NEW changed \in BOOLEAN, Answer(op, s, session, changed), session = rows'[s]
    PROVE  ReplyGood
<1>1. <<>> \in Seq(AuditRow) \cup Seq(CheckInRow) /\ "none" \in Causes
  BY DEF Causes
<1> QED
  BY <1>1, RespondGood DEF Answer
-----------------------------------------------------------------------------
(* What stays when a step is about something else.                         *)

\* Time only adds to the distance from what is stamped already.
LEMMA BeforeLater ==
    ASSUME TypeOK, NEW s \in Sessions, NEW at \in Nat, NEW later \in Nat, at <= later,
           AllBefore(s, at)
    PROVE  AllBefore(s, later)
<1>1. \A k \in 1..Len(audit[s]) : audit[s][k].at \in Nat
  <2>1. audit[s] \in Seq(AuditRow)
    BY DEF TypeOK
  <2>2. \A k \in 1..Len(audit[s]) : audit[s][k] \in AuditRow
    BY <2>1
  <2> QED
    BY <2>2 DEF AuditRow
<1>2. \A k \in 1..Len(checkIns[s]) : checkIns[s][k].at \in Nat
  <2>1. checkIns[s] \in Seq(CheckInRow)
    BY DEF TypeOK
  <2>2. \A k \in 1..Len(checkIns[s]) : checkIns[s][k] \in CheckInRow
    BY <2>1
  <2> QED
    BY <2>2 DEF CheckInRow
<1> QED
  BY <1>1, <1>2 DEF AllBefore

LEMMA BoundGrows ==
    ASSUME clock \in Nat, clock' \in {clock, clock + 1}
    PROVE  Bound \in Nat /\ Bound' \in Nat /\ Bound <= Bound'
<1>1. MaxClock \in Nat /\ clock' \in Nat
  BY PostgresAssumption
<1>2. Bound' = IF clock' < MaxClock THEN clock' ELSE clock' + 1
  BY DEF Bound
<1>3. CASE clock' = clock
  BY <1>1, <1>2, <1>3 DEF Bound
<1>4. CASE clock' = clock + 1
  BY <1>1, <1>2, <1>4 DEF Bound
<1> QED
  BY <1>3, <1>4

\* A session whose rows stay is still good, whatever time it is.
LEMMA SessionFrame ==
    ASSUME TypeOK, NEW s \in Sessions, SessionGood(s), LockGood(s)',
           clock' \in {clock, clock + 1}, issued \subseteq issued',
           rows'[s] = rows[s], audit'[s] = audit[s], checkIns'[s] = checkIns[s]
    PROVE  SessionGood(s)'
<1>1. RowGood(s)'
  BY DEF SessionGood, RowGood
<1>2. TrailGood(s)'
  <2>1. AllBefore(s, Bound')
    BY BoundGrows, BeforeLater DEF TypeOK, SessionGood, TrailGood
  <2>2. AllBefore(s, Bound)'
    BY <2>1 DEF AllBefore
  <2> QED
    BY <2>2 DEF SessionGood, TrailGood
<1> QED
  BY <1>1, <1>2 DEF SessionGood

\* A row is locked by one request only: the one its holder names.
LEMMA OneHolder ==
    ASSUME NEW h \in Handlers, RequestGood(h), requests[h] # None,
           requests[h].phase = "locked"
    PROVE  holder[requests[h].sid] = h
BY DEF RequestGood, Prepared

\* A request that holds nothing is not named by any lock.
LEMMA HoldsNothing ==
    ASSUME AllGood, NEW h \in Handlers, requests[h] = None \/ requests[h].phase # "locked",
           NEW s \in Sessions
    PROVE  holder[s] # h
<1> SUFFICES ASSUME holder[s] = h PROVE FALSE
  OBVIOUS
<1>1. holder[s] # None
  BY PostgresAssumption
<1> QED
  BY <1>1 DEF AllGood, SessionGood, LockGood

\* The tables of a session are as they were.
TablesStay(s) ==
    /\ rows'[s] = rows[s] /\ expires'[s] = expires[s]
    /\ audit'[s] = audit[s] /\ checkIns'[s] = checkIns[s]

\* A request that does not move is still good when its session stays as it was; a waiting
\* one also when the row went away or got a new revision, since it will then be refused.
LEMMA RequestFrame ==
    ASSUME TypeOK, NEW h \in Handlers, RequestGood(h), requests'[h] = requests[h],
           clock' \in {clock, clock + 1}, issued \subseteq issued',
           requests[h] # None =>
              LET s == requests[h].sid
              IN  \/ /\ TablesStay(s)
                     /\ holder[s] = h => holder'[s] = h /\ catalog' = catalog
                  \/ holder[s] # h /\ rows'[s] = None
                  \/ /\ holder[s] # h /\ rows[s] # None
                     /\ rows'[s].revision = rows[s].revision + 1
    PROVE  RequestGood(h)'
<1> SUFFICES ASSUME requests[h] # None PROVE RequestGood(h)'
  BY DEF RequestGood
<1> DEFINE t == requests[h]
           s == t.sid
<1>1. /\ t \in Request /\ s \in Sessions /\ clock \in Nat /\ clock' \in Nat /\ clock <= clock'
      /\ t.at \in Nat
  BY DEF TypeOK, Request
<1>2. /\ SentRight(t) /\ BeganAfter(t)
      /\ t.phase = "locked" => Prepared(h, t)
  BY DEF RequestGood
<1>3. t' = t
  OBVIOUS
<1>4. SentRight(t)'
  BY <1>1, <1>2, <1>3 DEF SentRight
<1>5. CASE /\ TablesStay(s)
           /\ holder[s] = h => holder'[s] = h /\ catalog' = catalog
  <2>1. BeganAfter(t)'
    <3> SUFFICES ASSUME t.op \in Mutations, rows[s] # None
                 PROVE  /\ t.input.rev <= rows[s].revision
                        /\ t.input.rev = rows[s].revision =>
                              AllBefore(s, IF t.phase = "read" THEN clock ELSE t.at)'
      BY <1>3, <1>5 DEF BeganAfter, TablesStay
    <3>1. /\ t.input.rev <= rows[s].revision
          /\ t.input.rev = rows[s].revision =>
                AllBefore(s, IF t.phase = "read" THEN clock ELSE t.at)
      BY <1>2 DEF BeganAfter
    <3>2. AllBefore(s, clock) => AllBefore(s, clock')
      BY <1>1, BeforeLater
    <3> QED
      BY <1>3, <1>5, <3>1, <3>2 DEF AllBefore, TablesStay
  <2>2. ASSUME t.phase = "locked" PROVE Prepared(h, t)'
    <3>1. Prepared(h, t)
      BY <1>2, <2>2
    <3>2. holder'[s] = h /\ catalog' = catalog
      BY <1>5, <3>1 DEF Prepared
    <3>3. rows'[s] = rows[s] /\ audit'[s] = audit[s] /\ expires'[s] = expires[s]
      BY <1>5 DEF TablesStay
    <3>4. \A playable \in AudioStates : Outcomes(t, playable)' = Outcomes(t, playable)
      BY <1>3, <3>2, <3>3 DEF Outcomes
    <3>5. Visible(s, t.at)' /\ ~ IsRetry(t)'
      BY <1>3, <3>1, <3>3 DEF Prepared, Visible, IsRetry, EntryOf
    <3> QED
      BY <1>3, <3>1, <3>2, <3>4, <3>5 DEF Prepared
  <2> QED
    BY <1>3, <1>4, <2>1, <2>2 DEF RequestGood
<1>6. CASE holder[s] # h
  <2>1. t.phase # "locked"
    BY <1>2, <1>6 DEF Prepared
  <2>2. CASE rows'[s] = None
    BY <1>3, <1>4, <2>1, <2>2 DEF RequestGood, BeganAfter
  <2>3. CASE rows[s] # None /\ rows'[s].revision = rows[s].revision + 1
    <3>1. rows[s].revision \in Nat
      BY <1>1, <2>3 DEF TypeOK, Record
    <3>2. t.op \in Mutations => t.input.rev \in Nat
      <4>1. t.op \in Mutations =>
               t.input \in Event \/ t.input \in CheckInInput \/ t.input \in [rev : Nat]
        BY <1>2 DEF SentRight, Mutations
      <4> QED
        BY <4>1 DEF Event, CheckInInput
    <3>3. t.op \in Mutations => t.input.rev <= rows[s].revision
      BY <1>2, <2>3 DEF BeganAfter
    <3>4. t.op \in Mutations =>
             t.input.rev <= rows'[s].revision /\ t.input.rev # rows'[s].revision
      BY <2>3, <3>1, <3>2, <3>3
    <3>5. BeganAfter(t)'
      BY <1>3, <3>4 DEF BeganAfter
    <3> QED
      BY <1>3, <1>4, <2>1, <3>5 DEF RequestGood
  <2>4. CASE TablesStay(s)
    BY <1>5, <1>6, <2>4
  <2> QED
    BY <1>6, <2>2, <2>3, <2>4
<1> QED
  BY <1>5, <1>6
-----------------------------------------------------------------------------
(* What a step owes.                                                       *)

\* The step of the contract that an action takes, or none.
ContractStep == Contract!ContractNext \/ UNCHANGED <<rows, Trail, CheckedMoods>>

StepGood ==
    /\ TypeOK' /\ AllGood' /\ ReplyShowsCommitted
    /\ LateChangesBeganEarlier /\ ContractStep

\* A step that leaves the tables alone changes no session late and nothing in the contract.
LEMMA QuietTables ==
    ASSUME UNCHANGED tables
    PROVE  LateChangesBeganEarlier /\ ContractStep
BY DEF tables, LateChangesBeganEarlier, ContractStep, Trail, CheckedMoods, Live

\* Nothing but the time and the response changes.
LEMMA IdleStep ==
    ASSUME TypeOK, AllGood, UNCHANGED <<tables, holder, requests, issued, catalog>>,
           clock' \in {clock, clock + 1}, ReplyGood
    PROVE  StepGood
<1>1. TypeOK'
  BY DEF TypeOK, tables, ReplyGood
<1>2. \A s \in Sessions : SessionGood(s)'
  <2> TAKE s \in Sessions
  <2>1. SessionGood(s)
    BY DEF AllGood
  <2>2. LockGood(s)'
    BY <2>1 DEF SessionGood, LockGood
  <2> QED
    BY <2>1, <2>2, SessionFrame DEF tables
<1>3. \A h \in Handlers : RequestGood(h)'
  <2> TAKE h \in Handlers
  <2>1. RequestGood(h)
    BY DEF AllGood
  <2>2. requests[h] # None => TablesStay(requests[h].sid)
    BY DEF tables, TablesStay
  <2> QED
    BY <2>1, <2>2, RequestFrame
<1> QED
  BY <1>1, <1>2, <1>3, QuietTables DEF StepGood, AllGood, ReplyGood

\* One request moves on or ends; at most it takes or frees a row, its own.
LEMMA OneRequestStep ==
    ASSUME TypeOK, AllGood, NEW h \in Handlers, NEW new \in Request \cup {None},
           requests' = [requests EXCEPT ![h] = new],
           UNCHANGED <<tables, issued, clock, catalog>>,
           holder' \in [Sessions -> Handlers \cup {None}],
           \A s \in Sessions :
              \/ holder'[s] = holder[s] /\ holder[s] # h
              \/ holder[s] = h /\ holder'[s] = None
              \/ /\ holder[s] = None /\ holder'[s] = h
                 /\ new # None /\ new.sid = s /\ new.phase = "locked",
           RequestGood(h)', ReplyGood
    PROVE  StepGood
<1>0. /\ requests'[h] = new /\ \A g \in Handlers : g # h => requests'[g] = requests[g]
      /\ requests' \in [Handlers -> Request \cup {None}]
  BY DEF TypeOK
<1>1. TypeOK'
  BY <1>0 DEF TypeOK, tables, ReplyGood
<1>2. \A s \in Sessions : SessionGood(s)'
  <2> TAKE s \in Sessions
  <2>1. SessionGood(s)
    BY DEF AllGood
  <2>2. LockGood(s)'
    <3> SUFFICES ASSUME holder'[s] # None
                 PROVE  LET t == requests'[holder'[s]]
                        IN  t # None /\ t.sid = s /\ t.phase = "locked"
      BY DEF LockGood
    <3>1. CASE holder'[s] = holder[s] /\ holder[s] # h
      <4>1. holder[s] \in Handlers
        BY <3>1 DEF TypeOK
      <4>2. requests'[holder'[s]] = requests[holder[s]]
        BY <1>0, <3>1, <4>1
      <4> QED
        BY <2>1, <3>1, <4>2 DEF SessionGood, LockGood
    <3>2. CASE holder'[s] = h /\ new # None /\ new.sid = s /\ new.phase = "locked"
      BY <1>0, <3>2
    <3> QED
      BY <3>1, <3>2
  <2> QED
    BY <2>1, <2>2, SessionFrame DEF tables, TypeOK
<1>3. \A g \in Handlers : RequestGood(g)'
  <2> TAKE g \in Handlers
  <2>1. CASE g = h
    BY <2>1
  <2>2. CASE g # h
    <3>1. RequestGood(g) /\ requests'[g] = requests[g]
      BY <1>0, <2>2 DEF AllGood
    <3>2. ASSUME requests[g] # None
          PROVE  LET s == requests[g].sid
                 IN  TablesStay(s) /\ (holder[s] = g => holder'[s] = g)
      <4>1. requests[g].sid \in Sessions
        BY <3>2 DEF TypeOK, Request
      <4>2. g # None
        BY PostgresAssumption
      <4> QED
        BY <2>2, <4>1, <4>2 DEF tables, TablesStay
    <3> QED
      BY <3>1, <3>2, RequestFrame DEF TypeOK
  <2> QED
    BY <2>1, <2>2
<1> QED
  BY <1>1, <1>2, <1>3, QuietTables DEF StepGood, AllGood, ReplyGood

\* A request that held nothing is over.
LEMMA FinishStep ==
    ASSUME TypeOK, AllGood, NEW h \in Handlers, Finish(h),
           requests[h] = None \/ requests[h].phase # "locked",
           UNCHANGED <<tables, holder, issued, clock, catalog>>, ReplyGood
    PROVE  StepGood
<1>1. requests' = [requests EXCEPT ![h] = None] /\ requests'[h] = None
  BY DEF Finish, TypeOK
<1>2. RequestGood(h)'
  BY <1>1 DEF RequestGood
<1>3. \A s \in Sessions : holder'[s] = holder[s] /\ holder[s] # h
  BY HoldsNothing
<1>4. holder' \in [Sessions -> Handlers \cup {None}]
  BY DEF TypeOK
<1> QED
  BY <1>1, <1>2, <1>3, <1>4, OneRequestStep

\* The context of a request is cancelled: whatever it held is free again.
LEMMA CancelStep ==
    ASSUME TypeOK, AllGood, NEW h \in Handlers, Cancel(h)
    PROVE  StepGood
<1>1. requests' = [requests EXCEPT ![h] = None] /\ requests'[h] = None
  BY DEF Cancel, Finish, TypeOK
<1>2. RequestGood(h)'
  BY <1>1 DEF RequestGood
<1>3. /\ holder' \in [Sessions -> Handlers \cup {None}]
      /\ \A s \in Sessions :
            \/ holder'[s] = holder[s] /\ holder[s] # h
            \/ holder[s] = h /\ holder'[s] = None
  BY DEF Cancel, Release, TypeOK
<1>4. requests[h].op \in Ops /\ requests[h].sid \in Sessions
  <2>1. requests[h] \in Request
    BY DEF Cancel, TypeOK
  <2> QED
    BY <2>1 DEF Request, Ops
<1>5. ReplyGood
  BY <1>4, FaultGood DEF Cancel
<1>6. UNCHANGED <<tables, issued, clock, catalog>>
  BY DEF Cancel
<1> QED
  BY <1>1, <1>2, <1>3, <1>5, <1>6, OneRequestStep

\* The second half of a list call: its SELECT.
LEMMA ListSelectStep ==
    ASSUME TypeOK, AllGood, NEW h \in Handlers, ListSelect(h)
    PROVE  StepGood
<1> DEFINE t == requests[h]
           items == IF t.op = "listEvents" THEN audit[t.sid] ELSE checkIns[t.sid]
<1>1. t.op \in Ops /\ t.sid \in Sessions
  <2>1. t \in Request
    BY DEF ListSelect, TypeOK
  <2> QED
    BY <2>1 DEF Request, Ops
<1>2. items \in Seq(AuditRow) \cup Seq(CheckInRow) /\ "none" \in Causes
  BY <1>1 DEF TypeOK, Causes
<1>3. Respond(t.op, t.sid, 200, "none", None, items, FALSE)
  BY DEF ListSelect
<1> HIDE DEF items, t
<1>4. ReplyGood
  BY <1>1, <1>2, <1>3, RespondGood
<1> QED
  BY <1>4, FinishStep DEF ListSelect, t
-----------------------------------------------------------------------------
(* Requests arrive.                                                        *)

\* A request is on its way: nothing is locked yet.
LEMMA SendStep ==
    ASSUME TypeOK, AllGood, NEW h \in Handlers, NEW t \in Request,
           requests[h] = None \/ requests[h].phase # "locked",
           t.phase # "locked", SentRight(t), BeganAfter(t),
           requests' = [requests EXCEPT ![h] = t],
           UNCHANGED <<tables, holder, issued, clock, catalog, reply>>
    PROVE  StepGood
<1>1. requests'[h] = t
  BY DEF TypeOK
<1>2. SentRight(t)' /\ BeganAfter(t)'
  BY DEF SentRight, BeganAfter, AllBefore, tables
<1>3. RequestGood(h)'
  BY <1>1, <1>2 DEF RequestGood
<1>4. \A s \in Sessions : holder'[s] = holder[s] /\ holder[s] # h
  BY HoldsNothing
<1>5. ReplyGood /\ holder' \in [Sessions -> Handlers \cup {None}]
  BY ReplyUnchanged DEF TypeOK
<1> QED
  BY <1>1, <1>3, <1>4, <1>5, OneRequestStep

\* A transaction begins.
LEMMA BeginStep ==
    ASSUME TypeOK, AllGood, NEW h \in Handlers, NEW op \in Mutations \cup {"delete"},
           NEW s \in issued, NEW input \in Input,
           requests[h] = None \/ requests[h].phase # "locked",
           op \in {"event", "advance"} => input \in Event,
           op = "checkIn" => input \in CheckInInput,
           op = "clearCheckIns" => input \in [rev : Nat],
           op \in Mutations /\ rows[s] # None =>
              /\ input.rev <= rows[s].revision
              /\ input.rev = rows[s].revision => AllBefore(s, clock),
           Begin(h, op, s, input)
    PROVE  StepGood
<1> DEFINE t == [op |-> op, sid |-> s, phase |-> "begun", at |-> clock, input |-> input,
                 out |-> None]
<1>1. t \in Request
  BY DEF Request, Phases, TypeOK
<1>2. SentRight(t)
  BY DEF SentRight, TypeOK
<1>3. BeganAfter(t)
  BY DEF BeganAfter
<1>4. requests' = [requests EXCEPT ![h] = t] /\ t.phase # "locked"
  BY DEF Begin
<1>5. UNCHANGED <<tables, holder, issued, clock, catalog, reply>>
  BY DEF Begin
<1> HIDE DEF t
<1> QED
  BY <1>1, <1>2, <1>3, <1>4, <1>5, SendStep

\* The first statement of a client's request.
LEMMA ArriveStep ==
    ASSUME TypeOK, AllGood, NEW h \in Handlers, NEW op \in Mutations \cup {"delete"},
           NEW s \in Sessions, NEW input \in Input,
           op \in {"event", "advance"} => input \in Event,
           op = "checkIn" => input \in CheckInInput,
           op = "clearCheckIns" => input \in [rev : Nat],
           op \in Mutations => input.rev \in Shown(s),
           Arrive(h, op, s, input)
    PROVE  StepGood
<1>1. s \in issued /\ requests[h] = None /\ clock < MaxClock /\ Begin(h, op, s, input)
  BY DEF Arrive
<1>2. AllBefore(s, clock)
  BY <1>1 DEF AllGood, SessionGood, TrailGood, Bound
<1>3. op \in Mutations /\ rows[s] # None => input.rev <= rows[s].revision
  BY DEF Shown
<1> QED
  BY <1>1, <1>2, <1>3, BeginStep

LEMMA ShownType ==
    ASSUME NEW s, NEW rev \in Shown(s)
    PROVE  rev \in Nat /\ (rows[s] # None => rev <= rows[s].revision)
BY DEF Shown

LEMMA SentStep ==
    ASSUME TypeOK, AllGood, NEW h \in Handlers, NEW s \in Sessions,
           PostEvent(h, s) \/ AddCheckIn(h, s) \/ ClearAllCheckIns(h, s) \/ DeleteSession(h, s)
    PROVE  StepGood
<1>1. CASE PostEvent(h, s)
  <2>1. PICK id \in ClientIds, track \in Tracks, type \in SentTypes, rev \in Shown(s),
             ok \in SentForms :
           Arrive(h, "event", s, [id |-> id, track |-> track, type |-> type, rev |-> rev,
                                  wellFormed |-> ok])
    BY <1>1 DEF PostEvent
  <2> DEFINE e == [id |-> id, track |-> track, type |-> type, rev |-> rev, wellFormed |-> ok]
  <2>2. e \in Event /\ e.rev = rev
    BY ShownType, PostgresAssumption DEF Event
  <2> HIDE DEF e
  <2>3. e \in Input
    BY <2>2 DEF Input
  <2>4. Arrive(h, "event", s, e)
    BY <2>1 DEF e
  <2> QED
    BY <2>2, <2>3, <2>4, ArriveStep DEF Mutations
<1>2. CASE AddCheckIn(h, s)
  <2>1. PICK rev \in Shown(s), mood \in CheckInMoods, ok \in SentForms :
           Arrive(h, "checkIn", s, [rev |-> rev, mood |-> mood, wellFormed |-> ok])
    BY <1>2 DEF AddCheckIn
  <2> DEFINE c == [rev |-> rev, mood |-> mood, wellFormed |-> ok]
  <2>2. c \in CheckInInput /\ c.rev = rev
    BY ShownType, PostgresAssumption DEF CheckInInput
  <2> HIDE DEF c
  <2>3. c \in Input
    BY <2>2 DEF Input
  <2>4. Arrive(h, "checkIn", s, c)
    BY <2>1 DEF c
  <2> QED
    BY <2>2, <2>3, <2>4, ArriveStep DEF Mutations
<1>3. CASE ClearAllCheckIns(h, s)
  <2>1. PICK rev \in Shown(s) : Arrive(h, "clearCheckIns", s, [rev |-> rev])
    BY <1>3 DEF ClearAllCheckIns
  <2> DEFINE c == [rev |-> rev]
  <2>2. c \in [rev : Nat] /\ c.rev = rev
    BY ShownType
  <2> HIDE DEF c
  <2>3. c \in Input
    BY <2>2 DEF Input
  <2>4. Arrive(h, "clearCheckIns", s, c)
    BY <2>1 DEF c
  <2> QED
    BY <2>2, <2>3, <2>4, ArriveStep DEF Mutations
<1>4. CASE DeleteSession(h, s)
  <2>1. Arrive(h, "delete", s, None) /\ None \in Input
    BY <1>4 DEF DeleteSession, Input
  <2> QED
    BY <2>1, ArriveStep DEF Mutations
<1> QED
  BY <1>1, <1>2, <1>3, <1>4

\* The second store call of an advance request: its transaction.
LEMMA AdvanceBeginStep ==
    ASSUME TypeOK, AllGood, NEW h \in Handlers, AdvanceBegin(h)
    PROVE  StepGood
<1> DEFINE t == requests[h]
<1>1. t # None /\ t.phase = "read" /\ Begin(h, "advance", t.sid, t.input)
  BY DEF AdvanceBegin
<1>2. SentRight(t) /\ BeganAfter(t)
  BY <1>1 DEF AllGood, RequestGood
<1>3. t.op = "advance" /\ t.sid \in issued /\ t.input \in Event /\ t.input \in Input
  BY <1>1, <1>2 DEF SentRight, Input
<1>4. rows[t.sid] # None => /\ t.input.rev <= rows[t.sid].revision
                            /\ t.input.rev = rows[t.sid].revision => AllBefore(t.sid, clock)
  BY <1>1, <1>2, <1>3 DEF BeganAfter, Mutations
<1> HIDE DEF t
<1>5. requests[h].phase # "locked"
  BY <1>1 DEF t
<1> QED
  BY <1>1, <1>3, <1>4, <1>5, BeginStep DEF Mutations
\* The row of a session is ready for every lemma on the rules.
LEMMA StoredRow ==
    ASSUME TypeOK, AllGood, NEW s \in Sessions, rows[s] # None
    PROVE  /\ rows[s] \in Record /\ rows[s].target \in Moods /\ s \in issued
           /\ PositionOK(rows[s]) /\ Orderly(rows[s].queue)
           /\ ReachesTarget(rows[s]) /\ FutureFollows(rows[s], StartMoods)
<1>1. rows[s] \in Record
  BY DEF TypeOK
<1>2. /\ s \in issued /\ rows[s].target # None
      /\ PositionOK(rows[s]) /\ Orderly(rows[s].queue)
      /\ ReachesTarget(rows[s]) /\ FutureFollows(rows[s], StartMoods)
  BY DEF AllGood, SessionGood, RowGood
<1> QED
  BY <1>1, <1>2 DEF Record

\* The first store call of an advance request prepares an event for the track being played.
LEMMA AdvanceReadStep ==
    ASSUME TypeOK, AllGood, NEW h \in Handlers, NEW s \in Sessions, AdvanceRead(h, s)
    PROVE  StepGood
<1>1. /\ requests[h] = None /\ s \in issued /\ clock < MaxClock
      /\ UNCHANGED <<tables, holder, issued, clock, catalog>>
  BY DEF AdvanceRead
<1>2. ASSUME UNCHANGED requests, NEW cause \in {"notFound", "conflict"},
             Fault("advance", s, cause)
      PROVE  StepGood
  <2>1. ReplyGood
    BY <1>2, FaultGood DEF Ops, Mutations, Causes
  <2> QED
    BY <1>1, <1>2, <2>1, IdleStep
<1>3. ASSUME NEW rev \in Shown(s), NEW type \in Moves, Visible(s, clock),
             rev = rows[s].revision, rows[s].status # "completed", NEW id \in FreshIds(s),
             requests' = [requests EXCEPT ![h] =
                     [op |-> "advance", sid |-> s, phase |-> "read", at |-> 0, out |-> None,
                      input |-> [id |-> id, type |-> type, rev |-> rev, wellFormed |-> TRUE,
                                 track |-> rows[s].queue[rows[s].index + 1].track]]],
             UNCHANGED reply
      PROVE  StepGood
  <2> DEFINE r == rows[s]
             track == r.queue[r.index + 1].track
             e == [id |-> id, type |-> type, rev |-> rev, wellFormed |-> TRUE, track |-> track]
             t == [op |-> "advance", sid |-> s, phase |-> "read", at |-> 0, out |-> None,
                   input |-> e]
  <2>1. r \in Record /\ PositionOK(r)
    BY <1>3, StoredRow DEF Visible
  <2>2. r.index + 1 \in 1..Len(r.queue)
    BY <1>3, <2>1 DEF PositionOK, Record
  <2>3. r.queue[r.index + 1] \in QueueItem
    BY <2>1, <2>2 DEF Record
  <2>4. track \in Tracks
    BY <2>3 DEF QueueItem
  <2>5. id \in EventIds /\ type \in EventTypes /\ rev \in Nat
    BY <1>3, ShownType DEF FreshIds, Moves, EventTypes
  <2>6. requests' = [requests EXCEPT ![h] = t]
    BY <1>3
  <2> HIDE DEF track
  <2>7. e \in Event /\ e.rev = rev
    BY <2>4, <2>5 DEF Event
  <2> HIDE DEF e
  <2>8. t \in Request
    BY <2>7 DEF Request, Input, Mutations, Phases
  <2>9. clock \in Nat /\ AllBefore(s, clock)
    BY <1>1 DEF AllGood, SessionGood, TrailGood, Bound, TypeOK
  <2>10. SentRight(t)
    BY <1>1, <2>7, <2>9 DEF SentRight
  <2>11. BeganAfter(t)
    <3>1. rev <= r.revision
      BY <1>3, ShownType DEF Visible
    <3> QED
      BY <2>7, <2>9, <3>1 DEF BeganAfter
  <2>12. t.phase # "locked"
    OBVIOUS
  <2> HIDE DEF t
  <2>13. UNCHANGED <<tables, holder, issued, clock, catalog, reply>>
    BY <1>1, <1>3
  <2> QED
    BY <1>1, <2>6, <2>8, <2>10, <2>11, <2>12, <2>13, SendStep
<1> QED
  BY <1>2, <1>3 DEF AdvanceRead

\* The first half of a list call: its Get.
LEMMA ListCheckStep ==
    ASSUME TypeOK, AllGood, NEW h \in Handlers, NEW s \in Sessions, ListCheck(h, s)
    PROVE  StepGood
<1>1. /\ requests[h] = None /\ s \in issued /\ clock \in Nat
      /\ UNCHANGED <<tables, holder, issued, clock, catalog>>
  BY DEF ListCheck, TypeOK
<1>2. PICK op \in Lists :
         IF Visible(s, clock)
         THEN /\ requests' = [requests EXCEPT ![h] =
                     [op |-> op, sid |-> s, phase |-> "checked", at |-> clock,
                      input |-> None, out |-> None]]
              /\ UNCHANGED reply
         ELSE Fault(op, s, "notFound") /\ UNCHANGED requests
  BY DEF ListCheck
<1>3. CASE ~ Visible(s, clock)
  <2>1. ReplyGood
    BY <1>2, <1>3, FaultGood DEF Ops
  <2> QED
    BY <1>1, <1>2, <1>3, <2>1, IdleStep
<1>4. CASE Visible(s, clock)
  <2> DEFINE t == [op |-> op, sid |-> s, phase |-> "checked", at |-> clock,
                   input |-> None, out |-> None]
  <2>1. t \in Request /\ t.phase # "locked"
    BY <1>1 DEF Request, Input, Phases
  <2>2. SentRight(t) /\ BeganAfter(t)
    BY <1>1 DEF SentRight, BeganAfter, Lists, Mutations
  <2>3. requests' = [requests EXCEPT ![h] = t] /\ UNCHANGED reply
    BY <1>2, <1>4
  <2> HIDE DEF t
  <2> QED
    BY <1>1, <2>1, <2>2, <2>3, SendStep
<1> QED
  BY <1>3, <1>4

LEMMA GetStep ==
    ASSUME TypeOK, AllGood, NEW s \in Sessions, Get(s)
    PROVE  StepGood
<1>1. UNCHANGED <<tables, holder, requests, issued, clock, catalog>> /\ "get" \in Ops
  BY DEF Get, Ops
<1>2. rows'[s] = rows[s]
  BY <1>1 DEF tables
<1>3. CASE Visible(s, clock)
  <2>1. Answer("get", s, rows[s], FALSE) /\ rows[s] \in Record
    BY <1>3, StoredRow DEF Get, Visible
  <2>2. ReplyGood
    BY <1>1, <1>2, <2>1, AnswerGood
  <2> QED
    BY <1>1, <2>2, IdleStep
<1>4. CASE ~ Visible(s, clock)
  <2>1. ReplyGood
    BY <1>1, <1>4, FaultGood DEF Get
  <2> QED
    BY <1>1, <2>1, IdleStep
<1> QED
  BY <1>3, <1>4
-----------------------------------------------------------------------------
(* What the rules make of a locked row.                                    *)

\* Everything a commit needs to know of an accepted change of row r to new.
Accepted(t, r, new) ==
    /\ Succeeds(r, new) /\ LockedKept(r, new) /\ PathKept(r, new, StartMoods)
    /\ t.input.rev = r.revision
    /\ t.op = "checkIn" =>
          /\ new.index = r.index /\ new.status = r.status /\ new.lastAction = r.lastAction
          /\ r.status # "completed" /\ new.checkIn \in Moods
    /\ t.op = "clearCheckIns" =>
          /\ new.index = r.index /\ new.status = r.status /\ new.lastAction = r.lastAction
          /\ new.checkIn = None
    /\ t.op \in {"event", "advance"} =>
          /\ new.index = IF t.input.type \in Moves THEN r.index + 1 ELSE r.index
          /\ new.lastAction = IF t.input.type \in Moves THEN t.input.type ELSE r.lastAction
          /\ new.status = IF t.input.type \in Moves
                          THEN IF new.index = Len(r.queue) THEN "completed" ELSE "active"
                          ELSE IF t.input.type = "start" /\ r.status = "ready" THEN "active"
                          ELSE r.status
          /\ new.checkIn = r.checkIn
          /\ IF t.input.type = "like"
             THEN \E i \in 1..Len(r.queue) :
                     i <= r.index + 1 /\ r.queue[i].track = t.input.track
             ELSE r.index < Len(r.queue) /\ r.queue[r.index + 1].track = t.input.track

LEMMA OutcomeGood ==
    ASSUME TypeOK, AllGood, NEW t \in Request, SentRight(t), t.op \in Mutations,
           rows[t.sid] # None, NEW playable, NEW out \in Outcomes(t, playable)
    PROVE  /\ out \in Outcome
           /\ out.cause = "none" => Accepted(t, rows[t.sid], out.rec)
<1> DEFINE r == rows[t.sid]
           history == audit[t.sid]
           new == out.rec
<1>1. t.sid \in Sessions
  BY DEF Request
<1>2. r \in Record /\ r.target \in Moods /\ PositionOK(r) /\ Orderly(r.queue)
  BY <1>1, StoredRow
<1>3. catalog \in SUBSET Tracks
  BY PostgresAssumption DEF TypeOK
<1>4. CASE t.op = "checkIn"
  <2>1. t.input \in CheckInInput
    BY <1>4 DEF SentRight
  <2>2. out \in ApplyCheckIn(catalog, playable, r, history, t.input)
    BY <1>4 DEF Outcomes
  <2> HIDE DEF r, history
  <2>3. /\ out \in Outcome
        /\ out.cause = "none" =>
             /\ Succeeds(r, new) /\ new.index = r.index /\ new.checkIn = t.input.mood
             /\ new.status = r.status /\ new.lastAction = r.lastAction
             /\ t.input.rev = r.revision /\ r.status # "completed"
    BY <1>2, <1>3, <2>1, <2>2, CheckInKeeps
  <2>4. out.cause = "none" => PathKept(r, new, StartMoods)
    BY <1>2, <1>3, <2>1, <2>2, CheckInPath
  <2>5. out.cause = "none" => LockedKept(r, new)
    BY <2>3, SucceedsKeepsLocked
  <2>6. t.input.mood \in Moods
    BY <2>1 DEF CheckInInput
  <2>7. out.cause = "none" => Accepted(t, r, new)
    BY <1>4, <2>3, <2>4, <2>5, <2>6 DEF Accepted
  <2> QED
    BY <2>3, <2>7 DEF r
<1>5. CASE t.op = "clearCheckIns"
  <2>2. out \in ClearCheckIns(catalog, playable, r, history, t.input.rev)
    BY <1>5 DEF Outcomes
  <2> HIDE DEF r, history
  <2>3. /\ out \in Outcome
        /\ out.cause = "none" =>
             /\ Succeeds(r, new) /\ new.index = r.index /\ new.checkIn = None
             /\ new.status = r.status /\ new.lastAction = r.lastAction
             /\ t.input.rev = r.revision
    BY <1>2, <1>3, <2>2, ClearKeeps
  <2>4. out.cause = "none" => PathKept(r, new, StartMoods)
    BY <1>2, <1>3, <2>2, ClearPath
  <2>5. out.cause = "none" => LockedKept(r, new)
    BY <2>3, SucceedsKeepsLocked
  <2>7. out.cause = "none" => Accepted(t, r, new)
    BY <1>5, <2>3, <2>4, <2>5 DEF Accepted
  <2> QED
    BY <2>3, <2>7 DEF r
<1>6. CASE t.op \in {"event", "advance"}
  <2>1. t.input \in Event
    BY <1>6 DEF SentRight
  <2>2. out \in ApplyEvent(catalog, playable, r, history, t.input)
    BY <1>6 DEF Outcomes
  <2> HIDE DEF r, history
  <2>3. /\ out \in Outcome
        /\ out.cause = "none" =>
             /\ Succeeds(r, new) /\ t.input.rev = r.revision /\ new.checkIn = r.checkIn
             /\ Eligible(r, t.input) /\ SlotsOf(r, t.input.track) # {}
    BY <1>2, <1>3, <2>1, <2>2, EventKeeps
  <2>4. out.cause = "none" => PathKept(r, new, StartMoods)
    BY <1>2, <1>3, <2>1, <2>2, EventPath
  <2>5. out.cause = "none" =>
          /\ LockedKept(r, new)
          /\ new.index = IF t.input.type \in Moves THEN r.index + 1 ELSE r.index
          /\ new.lastAction = IF t.input.type \in Moves THEN t.input.type ELSE r.lastAction
          /\ new.status = IF t.input.type \in Moves
                          THEN IF new.index = Len(r.queue) THEN "completed" ELSE "active"
                          ELSE IF t.input.type = "start" /\ r.status = "ready" THEN "active"
                          ELSE r.status
    BY <1>2, <1>3, <2>1, <2>2, EventOutcome
  <2>6. out.cause = "none" =>
          IF t.input.type = "like"
          THEN \E i \in 1..Len(r.queue) :
                  i <= r.index + 1 /\ r.queue[i].track = t.input.track
          ELSE r.index < Len(r.queue) /\ r.queue[r.index + 1].track = t.input.track
    BY <1>2, <2>3, EventPlace
  <2>7. out.cause = "none" => Accepted(t, r, new)
    BY <1>6, <2>3, <2>4, <2>5, <2>6 DEF Accepted
  <2> QED
    BY <2>3, <2>7 DEF r
<1> QED
  BY <1>4, <1>5, <1>6 DEF Mutations
\* A transaction gets its row: it ends with an answer or a refusal, or it holds the row
\* from now on.
LEMMA LockRowStep ==
    ASSUME TypeOK, AllGood, NEW h \in Handlers, LockRow(h)
    PROVE  StepGood
<1> DEFINE t == requests[h]
           s == t.sid
<1>1. /\ t # None /\ t.phase = "begun" /\ t.op \in Mutations /\ holder[s] = None
      /\ UNCHANGED <<tables, issued, clock, catalog>>
  BY DEF LockRow
<1>2. t \in Request /\ s \in Sessions /\ t.op \in Ops /\ SentRight(t) /\ BeganAfter(t)
  <2>1. t \in Request
    BY <1>1 DEF TypeOK
  <2> QED
    BY <1>1, <2>1 DEF Request, AllGood, RequestGood, Ops
<1>3. rows'[s] = rows[s]
  BY <1>1 DEF tables
<1>4. ASSUME Finish(h), UNCHANGED holder, ReplyGood PROVE StepGood
  BY <1>1, <1>4, FinishStep
<1>5. CASE LockNothing(h)
  <2>1. ReplyGood
    BY <1>2, <1>5, FaultGood DEF LockNothing
  <2> QED
    BY <1>4, <1>5, <2>1 DEF LockNothing
<1>6. CASE LockRetry(h)
  <2>1. rows[s] \in Record
    BY <1>2, <1>6, StoredRow DEF LockRetry, Visible
  <2>2. PICK k \in EntryOf(s, t.input.id) :
           IF Payload(audit[s][k]) = t.input
           THEN Answer(t.op, s, rows[s], audit[s][k].changed)
           ELSE Fault(t.op, s, "conflict")
    BY <1>6 DEF LockRetry
  <2>3. audit[s][k].changed \in BOOLEAN
    <3>1. audit[s] \in Seq(AuditRow) /\ k \in 1..Len(audit[s])
      BY <1>2 DEF TypeOK, EntryOf
    <3>2. audit[s][k] \in AuditRow
      BY <3>1
    <3> QED
      BY <3>2 DEF AuditRow
  <2>4. ReplyGood
    <3>1. CASE Payload(audit[s][k]) = t.input
      BY <1>2, <1>3, <2>1, <2>2, <2>3, <3>1, AnswerGood
    <3>2. CASE Payload(audit[s][k]) # t.input
      BY <1>2, <2>2, <3>2, FaultGood DEF Causes
    <3> QED
      BY <3>1, <3>2
  <2> QED
    BY <1>4, <1>6, <2>4 DEF LockRetry
<1>7. CASE LockApply(h)
  <2>1. Visible(s, t.at) /\ ~ IsRetry(t) /\ rows[s] # None
    BY <1>7 DEF LockApply, Visible
  <2>2. PICK playable \in AudioStates : \E out \in Outcomes(t, playable) :
           \/ /\ out.cause # "none"
              /\ Fault(t.op, s, out.cause)
              /\ Finish(h)
              /\ UNCHANGED holder
           \/ /\ out.cause = "none"
              /\ holder' = [holder EXCEPT ![s] = h]
              /\ requests' = [requests EXCEPT ![h].phase = "locked", ![h].out = out]
              /\ UNCHANGED reply
    BY <1>7 DEF LockApply
  <2>a. PICK out \in Outcomes(t, playable) :
           \/ /\ out.cause # "none"
              /\ Fault(t.op, s, out.cause)
              /\ Finish(h)
              /\ UNCHANGED holder
           \/ /\ out.cause = "none"
              /\ holder' = [holder EXCEPT ![s] = h]
              /\ requests' = [requests EXCEPT ![h].phase = "locked", ![h].out = out]
              /\ UNCHANGED reply
    BY <2>2
  <2>3. out \in Outcome
    BY <1>1, <1>2, <2>1, OutcomeGood
  <2>4. CASE out.cause # "none"
    <3>1. Fault(t.op, s, out.cause) /\ Finish(h) /\ UNCHANGED holder
      BY <2>a, <2>4
    <3>2. out.cause \in Causes
      BY <2>3 DEF Outcome
    <3>3. ReplyGood
      BY <1>2, <3>1, <3>2, FaultGood
    <3> QED
      BY <1>4, <3>1, <3>3
  <2>5. CASE out.cause = "none"
    <3>0. PICK new : new = [t EXCEPT !.phase = "locked", !.out = out]
      OBVIOUS
    <3>1. /\ holder' = [holder EXCEPT ![s] = h] /\ UNCHANGED reply
          /\ requests' = [requests EXCEPT ![h] = new]
      BY <1>2, <2>a, <2>5, <3>0 DEF TypeOK
    <3>2. /\ new \in Request /\ new # None /\ new.sid = s /\ new.phase = "locked"
          /\ new.op = t.op /\ new.at = t.at /\ new.input = t.input /\ new.out = out
      <4>1. new \in Request
        BY <1>2, <2>3, <3>0 DEF Request, Phases
      <4> QED
        BY <1>2, <3>0, <4>1, PostgresAssumption DEF Request
    <3>3. /\ requests'[h] = new /\ holder'[s] = h
          /\ holder' \in [Sessions -> Handlers \cup {None}]
      BY <1>2, <3>1 DEF TypeOK
    <3>4. \A r \in Sessions :
             \/ holder'[r] = holder[r] /\ holder[r] # h
             \/ /\ holder[r] = None /\ holder'[r] = h
                /\ new # None /\ new.sid = r /\ new.phase = "locked"
      <4> TAKE r \in Sessions
      <4>1. holder[r] # h
        BY <1>1, HoldsNothing
      <4> QED
        BY <1>1, <1>2, <3>1, <3>2, <4>1 DEF TypeOK
    <3>5. RequestGood(h)'
      <4>0. rows' = rows /\ expires' = expires /\ audit' = audit /\ catalog' = catalog
        BY <1>1 DEF tables
      <4>1. SentRight(new)'
        BY <1>1, <1>2, <3>2 DEF SentRight
      <4>2. BeganAfter(new)'
        BY <1>1, <1>2, <3>2 DEF BeganAfter, AllBefore, tables
      <4>3. Prepared(h, new)'
        <5>1. Visible(new.sid, new.at)' /\ ~ IsRetry(new)'
          BY <2>1, <3>2, <4>0 DEF Visible, IsRetry, EntryOf
        <5>2. new.out \in Outcomes(new, playable)'
          BY <3>2, <4>0 DEF Outcomes
        <5> QED
          BY <1>1, <2>5, <3>2, <3>3, <5>1, <5>2 DEF Prepared
      <4> QED
        BY <3>3, <4>1, <4>2, <4>3 DEF RequestGood
    <3>6. ReplyGood
      BY <3>1, ReplyUnchanged DEF TypeOK
    <3> QED
      BY <1>1, <3>1, <3>2, <3>3, <3>4, <3>5, <3>6, OneRequestStep
  <2> QED
    BY <2>4, <2>5
<1> QED
  BY <1>5, <1>6, <1>7 DEF LockRow
-----------------------------------------------------------------------------
(* The trail of the contract.                                              *)

LEMMA TrailStays ==
    ASSUME NEW s \in Sessions, audit'[s] = audit[s], checkIns'[s] = checkIns[s]
    PROVE  Trail'[s] = Trail[s] /\ CheckedMoods'[s] = CheckedMoods[s]
BY DEF Trail, CheckedMoods

LEMMA TrailEmptied ==
    ASSUME NEW s \in Sessions, audit'[s] = <<>>, checkIns'[s] = <<>>
    PROVE  Trail'[s] = <<>> /\ CheckedMoods'[s] = <<>>
<1>1. Len(<<>>) = 0 /\ 1..0 = {}
  OBVIOUS
<1>2. /\ Trail'[s] = [k \in 1..Len(audit'[s]) |-> Payload(audit'[s][k])]
      /\ CheckedMoods'[s] = [k \in 1..Len(checkIns'[s]) |-> checkIns'[s][k].mood]
  BY DEF Trail, CheckedMoods
<1>3. /\ Trail'[s] \in Seq(Event) /\ Len(Trail'[s]) = 0
      /\ CheckedMoods'[s] \in Seq(Moods) /\ Len(CheckedMoods'[s]) = 0
  <2>1. /\ Trail'[s] \in [1..0 -> Event]
        /\ CheckedMoods'[s] \in [1..0 -> Moods]
    BY <1>1, <1>2
  <2> QED
    BY <2>1
<1> QED
  BY <1>3

LEMMA TrailType ==
    ASSUME TypeOK, NEW s \in Sessions
    PROVE  /\ Trail[s] \in Seq(Event) /\ Len(Trail[s]) = Len(audit[s])
           /\ \A k \in 1..Len(audit[s]) :
                 audit[s][k] \in AuditRow /\ Trail[s][k] = Payload(audit[s][k])
           /\ CheckedMoods[s] \in Seq(Moods) /\ Len(CheckedMoods[s]) = Len(checkIns[s])
           /\ \A k \in 1..Len(checkIns[s]) :
                 checkIns[s][k] \in CheckInRow /\ CheckedMoods[s][k] = checkIns[s][k].mood
<1>1. audit[s] \in Seq(AuditRow) /\ checkIns[s] \in Seq(CheckInRow)
  BY DEF TypeOK
<1>2. /\ Len(audit[s]) \in Nat /\ \A k \in 1..Len(audit[s]) : audit[s][k] \in AuditRow
      /\ Len(checkIns[s]) \in Nat /\ \A k \in 1..Len(checkIns[s]) : checkIns[s][k] \in CheckInRow
  BY <1>1
<1>3. /\ Trail[s] = [k \in 1..Len(audit[s]) |-> Payload(audit[s][k])]
      /\ CheckedMoods[s] = [k \in 1..Len(checkIns[s]) |-> checkIns[s][k].mood]
  BY DEF Trail, CheckedMoods
<1>4. \A k \in 1..Len(audit[s]) : Payload(audit[s][k]) \in Event
  BY <1>2 DEF AuditRow, Payload, Event
<1>5. \A k \in 1..Len(checkIns[s]) : checkIns[s][k].mood \in Moods
  BY <1>2 DEF CheckInRow
<1>6. Trail[s] \in Seq(Event) /\ Len(Trail[s]) = Len(audit[s])
  <2>1. Trail[s] \in [1..Len(audit[s]) -> Event]
    BY <1>3, <1>4
  <2> QED
    BY <1>2, <2>1
<1>7. CheckedMoods[s] \in Seq(Moods) /\ Len(CheckedMoods[s]) = Len(checkIns[s])
  <2>1. CheckedMoods[s] \in [1..Len(checkIns[s]) -> Moods]
    BY <1>3, <1>5
  <2> QED
    BY <1>2, <2>1
<1> QED
  BY <1>2, <1>3, <1>6, <1>7

LEMMA TrailAppended ==
    ASSUME TypeOK, NEW s \in Sessions, NEW row \in AuditRow,
           audit'[s] = Append(audit[s], row)
    PROVE  Trail'[s] = Append(Trail[s], Payload(row))
<1> DEFINE n == Len(audit[s])
<1>1. /\ audit[s] \in Seq(AuditRow) /\ n \in Nat /\ Len(audit'[s]) = n + 1
      /\ \A k \in 1..n : audit'[s][k] = audit[s][k]
      /\ audit'[s][n + 1] = row
  BY DEF TypeOK
<1>2. /\ Trail[s] \in Seq(Event) /\ Len(Trail[s]) = n
      /\ \A k \in 1..n : Trail[s][k] = Payload(audit[s][k])
  BY TrailType
<1>3. Trail'[s] = [k \in 1..(n + 1) |-> Payload(audit'[s][k])]
  BY <1>1 DEF Trail, Payload
<1>4. Payload(row) \in Event
  BY DEF Payload, AuditRow, Event
<1>5. Append(Trail[s], Payload(row)) = [k \in 1..(n + 1) |->
          IF k \in 1..n THEN Trail[s][k] ELSE Payload(row)]
  BY <1>1, <1>2, <1>4
<1>6. \A k \in 1..(n + 1) : k \in 1..n \/ k = n + 1
  BY <1>1
<1>7. \A k \in 1..(n + 1) :
         Payload(audit'[s][k]) = IF k \in 1..n THEN Trail[s][k] ELSE Payload(row)
  BY <1>1, <1>2, <1>6
<1> QED
  BY <1>3, <1>5, <1>7

LEMMA CheckInAppended ==
    ASSUME TypeOK, NEW s \in Sessions, NEW row \in CheckInRow,
           checkIns'[s] = Append(checkIns[s], row)
    PROVE  CheckedMoods'[s] = Append(CheckedMoods[s], row.mood)
<1> DEFINE n == Len(checkIns[s])
<1>1. /\ checkIns[s] \in Seq(CheckInRow) /\ n \in Nat /\ Len(checkIns'[s]) = n + 1
      /\ \A k \in 1..n : checkIns'[s][k] = checkIns[s][k]
      /\ checkIns'[s][n + 1] = row
  BY DEF TypeOK
<1>2. /\ CheckedMoods[s] \in Seq(Moods) /\ Len(CheckedMoods[s]) = n
      /\ \A k \in 1..n : CheckedMoods[s][k] = checkIns[s][k].mood
  BY TrailType
<1>3. CheckedMoods'[s] = [k \in 1..(n + 1) |-> checkIns'[s][k].mood]
  BY <1>1 DEF CheckedMoods
<1>4. row.mood \in Moods
  BY DEF CheckInRow
<1>5. Append(CheckedMoods[s], row.mood) = [k \in 1..(n + 1) |->
          IF k \in 1..n THEN CheckedMoods[s][k] ELSE row.mood]
  BY <1>1, <1>2, <1>4
<1>6. \A k \in 1..(n + 1) : k \in 1..n \/ k = n + 1
  BY <1>1
<1>7. \A k \in 1..(n + 1) :
         checkIns'[s][k].mood = IF k \in 1..n THEN CheckedMoods[s][k] ELSE row.mood
  BY <1>1, <1>2, <1>6
<1> QED
  BY <1>3, <1>5, <1>7
-----------------------------------------------------------------------------
(* Rows go.                                                                *)

\* Rows are deleted with everything that refers to them.
LEMMA DropStep ==
    ASSUME TypeOK, AllGood, NEW gone \in SUBSET Sessions, DropRows(gone),
           UNCHANGED <<issued, clock>>, catalog' \in Catalogs,
           holder' \in [Sessions -> Handlers \cup {None}],
           requests' \in [Handlers -> Request \cup {None}],
           \A s \in Sessions : LockGood(s)', \A h \in Handlers : RequestGood(h)', ReplyGood
    PROVE  StepGood
<1>1. \A s \in gone : rows'[s] = None /\ audit'[s] = <<>> /\ checkIns'[s] = <<>>
  BY DEF DropRows
<1>2. \A s \in Sessions \ gone :
         rows'[s] = rows[s] /\ audit'[s] = audit[s] /\ checkIns'[s] = checkIns[s]
  BY DEF DropRows
<1>3. TypeOK'
  <2>1. \A s \in Sessions : /\ rows[s] \in Record \cup {None}
                            /\ audit[s] \in Seq(AuditRow) /\ checkIns[s] \in Seq(CheckInRow)
    BY DEF TypeOK
  <2>2. <<>> \in Seq(AuditRow) /\ <<>> \in Seq(CheckInRow)
    OBVIOUS
  <2>3. /\ rows' \in [Sessions -> Record \cup {None}]
        /\ audit' \in [Sessions -> Seq(AuditRow)]
        /\ checkIns' \in [Sessions -> Seq(CheckInRow)]
    BY <2>1, <2>2 DEF DropRows
  <2>4. expires' = expires
    BY DEF DropRows
  <2> QED
    BY <2>3, <2>4 DEF TypeOK, ReplyGood
<1>4. \A s \in Sessions : SessionGood(s)'
  <2> TAKE s \in Sessions
  <2>1. CASE s \in gone
    <3>1. RowGood(s)'
      BY <1>1, <2>1 DEF RowGood
    <3>2. 1..Len(<<>>) = {} /\ 2..Len(<<>>) = {}
      OBVIOUS
    <3>3. TrailGood(s)'
      BY <1>1, <2>1, <3>2 DEF TrailGood, AllBefore
    <3> QED
      BY <3>1, <3>3 DEF SessionGood
  <2>2. CASE s \notin gone
    BY <1>2, <2>2, SessionFrame DEF AllGood, TypeOK
  <2> QED
    BY <2>1, <2>2
<1>5. LateChangesBeganEarlier
  BY <1>1, <1>2 DEF LateChangesBeganEarlier, Live
<1>6. Contract!Closed(gone)
  BY <1>1, <1>2, TrailStays, TrailEmptied DEF Contract!Closed
<1>7. ContractStep
  BY <1>6 DEF ContractStep, Contract!ContractNext
<1> QED
  BY <1>3, <1>4, <1>5, <1>7 DEF StepGood, AllGood, ReplyGood

\* What a waiting request finds when free rows went away.
LEMMA OthersWhenDropped ==
    ASSUME TypeOK, AllGood, NEW gone \in SUBSET Sessions, DropRows(gone),
           \A s \in gone : holder[s] = None,
           UNCHANGED <<holder, issued, clock, catalog>>,
           NEW h \in Handlers, requests'[h] = requests[h]
    PROVE  RequestGood(h)'
<1>1. RequestGood(h)
  BY DEF AllGood
<1>2. ASSUME requests[h] # None
      PROVE  LET s == requests[h].sid
             IN  \/ TablesStay(s) /\ (holder[s] = h => holder'[s] = h /\ catalog' = catalog)
                 \/ holder[s] # h /\ rows'[s] = None
  <2>1. requests[h].sid \in Sessions /\ h # None
    BY <1>2, PostgresAssumption DEF TypeOK, Request
  <2> QED
    BY <2>1 DEF DropRows, TablesStay
<1> QED
  BY <1>1, <1>2, RequestFrame DEF TypeOK

LEMMA DeleteRowStep ==
    ASSUME TypeOK, AllGood, NEW h \in Handlers, DeleteRow(h)
    PROVE  StepGood
<1> DEFINE t == requests[h]
           s == t.sid
<1>1. /\ t # None /\ t.phase = "begun" /\ holder[s] = None /\ Finish(h)
      /\ UNCHANGED <<holder, issued, clock, catalog>>
  BY DEF DeleteRow
<1>2. s \in Sessions /\ "delete" \in Ops /\ "none" \in Causes
  BY <1>1 DEF TypeOK, Request, Ops, Causes
<1>3. CASE rows[s] = None
  <2>1. Fault("delete", s, "notFound") /\ UNCHANGED tables
    BY <1>3 DEF DeleteRow
  <2>2. ReplyGood
    BY <1>2, <2>1, FaultGood
  <2> QED
    BY <1>1, <2>1, <2>2, FinishStep
<1>4. CASE rows[s] # None
  <2>1. DropRows({s}) /\ Respond("delete", s, 204, "none", None, <<>>, FALSE)
    BY <1>4 DEF DeleteRow
  <2>2. ReplyGood
    <3>1. <<>> \in Seq(AuditRow) \cup Seq(CheckInRow)
      OBVIOUS
    <3> QED
      BY <1>2, <2>1, <3>1, RespondGood
  <2>3. /\ requests' \in [Handlers -> Request \cup {None}] /\ requests'[h] = None
        /\ \A g \in Handlers : g # h => requests'[g] = requests[g]
    BY <1>1 DEF Finish, TypeOK
  <2>4. \A g \in Handlers : RequestGood(g)'
    <3> TAKE g \in Handlers
    <3>1. CASE g = h
      BY <2>3, <3>1 DEF RequestGood
    <3>2. CASE g # h
      <4>1. {s} \in SUBSET Sessions /\ \A r \in {s} : holder[r] = None
        BY <1>1, <1>2
      <4> HIDE DEF s
      <4> QED
        BY <1>1, <2>1, <2>3, <3>2, <4>1, OthersWhenDropped
    <3> QED
      BY <3>1, <3>2
  <2>5. \A r \in Sessions : LockGood(r)'
    <3> TAKE r \in Sessions
    <3>1. LockGood(r) /\ holder[r] # h
      BY <1>1, HoldsNothing DEF AllGood, SessionGood
    <3>2. holder'[r] = holder[r] /\ holder[r] \in Handlers \cup {None}
      BY <1>1 DEF TypeOK
    <3> QED
      BY <2>3, <3>1, <3>2 DEF LockGood
  <2>6. {s} \in SUBSET Sessions /\ catalog' \in Catalogs
        /\ holder' \in [Sessions -> Handlers \cup {None}]
    BY <1>1, <1>2 DEF TypeOK
  <2> HIDE DEF s
  <2> QED
    BY <1>1, <2>1, <2>2, <2>3, <2>4, <2>5, <2>6, DropStep
<1> QED
  BY <1>3, <1>4

LEMMA PurgeStep ==
    ASSUME TypeOK, AllGood, PurgeExpired
    PROVE  StepGood
<1>1. PICK gone \in SUBSET Sessions : DropRows(gone) /\ \A s \in gone : holder[s] = None
  BY DEF PurgeExpired, Live
<1>2. UNCHANGED <<holder, requests, issued, clock, catalog, reply>>
  BY DEF PurgeExpired
<1>3. \A h \in Handlers : RequestGood(h)'
  BY <1>1, <1>2, OthersWhenDropped
<1>4. \A s \in Sessions : LockGood(s)'
  BY <1>2 DEF AllGood, SessionGood, LockGood
<1>5. /\ catalog' \in Catalogs /\ holder' \in [Sessions -> Handlers \cup {None}]
      /\ requests' \in [Handlers -> Request \cup {None}] /\ ReplyGood
  BY <1>2, ReplyUnchanged DEF TypeOK
<1> QED
  BY <1>1, <1>2, <1>3, <1>4, <1>5, DropStep

LEMMA RestartStep ==
    ASSUME TypeOK, AllGood, Restart
    PROVE  StepGood
<1>1. PICK gone \in SUBSET Sessions : DropRows(gone)
  BY DEF Restart
<1>2. /\ requests' = [h \in Handlers |-> None] /\ holder' = [s \in Sessions |-> None]
      /\ catalog' \in Catalogs /\ UNCHANGED <<issued, clock, reply>>
  BY DEF Restart
<1>3. /\ \A h \in Handlers : RequestGood(h)'
      /\ \A s \in Sessions : LockGood(s)'
  BY <1>2 DEF RequestGood, LockGood
<1>4. /\ holder' \in [Sessions -> Handlers \cup {None}] /\ ReplyGood
      /\ requests' \in [Handlers -> Request \cup {None}]
  BY <1>2, ReplyUnchanged DEF TypeOK
<1> QED
  BY <1>1, <1>2, <1>3, <1>4, DropStep
-----------------------------------------------------------------------------
(* A session is created.                                                   *)

\* The first record is one every rule can work with.
LEMMA FirstRecordGood ==
    ASSUME NEW places \in SUBSET Tracks, NEW start \in StartMoods, NEW target \in TargetMoods,
           NEW n \in QueueLengths, NEW sel \in Selections(places, {}, n)
    PROVE  LET r == FirstRecord(start, target, sel, n)
           IN  /\ r \in Record /\ r # None /\ r.target # None
               /\ PositionOK(r) /\ Orderly(r.queue)
               /\ ReachesTarget(r) /\ FutureFollows(r, StartMoods)
               /\ r.index = 0 /\ r.status = "ready" /\ r.lastAction = None
               /\ r.checkIn = None /\ r.revision = 1
<1> DEFINE q == NewQueue(start, target, sel, n)
           r == FirstRecord(start, target, sel, n)
<1>1. /\ n \in Nat \ {0} /\ start \in Moods /\ target \in Moods /\ target # None
  BY PostgresAssumption, RulesAssumption
<1>2. /\ sel \in [1..n -> Tracks]
      /\ \A i, j \in 1..n : sel[i] = sel[j] => i = j
  BY DEF Selections
<1>3. q \in Seq(QueueItem) /\ Len(q) = n
  BY <1>1, <1>2, NewQueueType
<1>4. Orderly(q)
  <2>1. \A i \in 1..n : q[i].position = i - 1 /\ q[i].track = sel[i]
    BY DEF NewQueue
  <2> HIDE DEF q
  <2> QED
    BY <1>2, <1>3, <2>1 DEF Orderly
<1>5. ReachesTarget(r) /\ FutureFollows(r, StartMoods)
  BY <1>1, <1>3, FirstPath
<1>6. /\ r.queue = q /\ r.index = 0 /\ r.status = "ready" /\ r.target = target
      /\ r.checkIn = None /\ r.revision = 1 /\ r.lastAction = None
  BY DEF FirstRecord
<1>7. r \in Record
  <2> HIDE DEF q
  <2>1. r = [queue |-> q, index |-> 0, status |-> "ready", lastAction |-> None,
             target |-> target, checkIn |-> None, revision |-> 1]
    BY DEF FirstRecord, q
  <2> QED
    BY <1>1, <1>3, <2>1 DEF Record, Statuses
<1>8. r # None
  BY <1>7, PostgresAssumption
<1> HIDE DEF q, r
<1>9. PositionOK(r)
  BY <1>1, <1>3, <1>6 DEF PositionOK
<1> QED
  BY <1>1, <1>4, <1>5, <1>6, <1>7, <1>8, <1>9 DEF r

\* The INSERT of a new session.
LEMMA InsertStep ==
    ASSUME TypeOK, AllGood, NEW s \in Sessions, s \notin issued, NEW r \in Record,
           r # None, r.target # None, PositionOK(r), Orderly(r.queue),
           ReachesTarget(r), FutureFollows(r, StartMoods),
           r.index = 0, r.status = "ready", r.lastAction = None, r.checkIn = None,
           r.revision = 1,
           rows' = [rows EXCEPT ![s] = r],
           expires' = [expires EXCEPT ![s] = clock + Retention],
           issued' = issued \cup {s},
           UNCHANGED <<audit, checkIns, holder, requests, clock, catalog>>, ReplyGood
    PROVE  StepGood
<1>1. rows[s] = None /\ audit[s] = <<>> /\ checkIns[s] = <<>>
  BY DEF AllGood, SessionGood, RowGood
<1>2. /\ rows'[s] = r
      /\ \A o \in Sessions \ {s} : rows'[o] = rows[o] /\ expires'[o] = expires[o]
  BY DEF TypeOK
<1>3. TypeOK'
  <2>1. clock + Retention \in Nat
    BY PostgresAssumption DEF TypeOK
  <2> QED
    BY <2>1 DEF TypeOK, ReplyGood
<1>4. \A o \in Sessions : SessionGood(o)'
  <2> TAKE o \in Sessions
  <2>1. SessionGood(o)
    BY DEF AllGood
  <2>2. LockGood(o)'
    BY <2>1 DEF SessionGood, LockGood
  <2>3. CASE o = s
    <3>1. RowGood(s)'
      BY <1>1, <1>2 DEF RowGood
    <3>2. TrailGood(s)'
      <4>1. TrailGood(s)
        BY <2>1, <2>3 DEF SessionGood
      <4> QED
        BY <4>1 DEF TrailGood, AllBefore, Bound
    <3> QED
      BY <2>2, <2>3, <3>1, <3>2 DEF SessionGood
  <2>4. CASE o # s
    BY <1>2, <2>1, <2>2, <2>4, SessionFrame
  <2> QED
    BY <2>3, <2>4
<1>5. \A h \in Handlers : RequestGood(h)'
  <2> TAKE h \in Handlers
  <2>1. RequestGood(h)
    BY DEF AllGood
  <2>2. ASSUME requests[h] # None PROVE TablesStay(requests[h].sid)
    <3>1. requests[h].sid \in issued /\ issued \subseteq Sessions
      BY <2>1, <2>2 DEF RequestGood, SentRight, TypeOK
    <3>2. requests[h].sid \in Sessions \ {s}
      BY <3>1
    <3> QED
      BY <1>2, <3>2 DEF TablesStay
  <2> QED
    BY <2>1, <2>2, RequestFrame
<1>6. LateChangesBeganEarlier
  BY <1>1, <1>2 DEF LateChangesBeganEarlier, Live
<1>7. Contract!Opened(s)
  <2>1. Contract!OthersStay(s)
    BY <1>2, TrailStays DEF Contract!OthersStay
  <2>2. Trail'[s] = <<>> /\ CheckedMoods'[s] = <<>>
    BY <1>1, TrailEmptied
  <2> QED
    BY <1>1, <1>2, <2>1, <2>2 DEF Contract!Opened, Contract!Orderly, Orderly
<1>8. ContractStep
  BY <1>7 DEF ContractStep, Contract!ContractNext
<1> QED
  BY <1>3, <1>4, <1>5, <1>6, <1>8 DEF StepGood, AllGood, ReplyGood

LEMMA CreateStep ==
    ASSUME TypeOK, AllGood, NEW s \in Sessions, Create(s)
    PROVE  StepGood
<1>1. s \notin issued /\ UNCHANGED <<holder, requests, clock, catalog>>
  BY DEF Create
<1>2. "create" \in Ops /\ {"build", "audio", "none"} \subseteq Causes
  BY DEF Ops, Causes
<1>3. ASSUME NEW status \in Nat, NEW cause \in Causes, Refuse("create", None, status, cause),
             UNCHANGED <<tables, issued>>
      PROVE  StepGood
  <2>1. ReplyGood
    BY <1>2, <1>3, RefuseGood
  <2> QED
    BY <1>1, <1>3, <2>1, IdleStep
<1>4. ASSUME NEW n \in QueueLengths, NEW start \in StartMoods, NEW target \in TargetMoods,
             NEW sel \in Selections(catalog, {}, n),
             rows' = [rows EXCEPT ![s] = FirstRecord(start, target, sel, n)],
             expires' = [expires EXCEPT ![s] = clock + Retention],
             issued' = issued \cup {s},
             Respond("create", s, 201, "none", rows'[s], <<>>, FALSE)
                \/ Fault("create", s, "unavailable"),
             UNCHANGED <<audit, checkIns>>
      PROVE  StepGood
  <2>1. catalog \in SUBSET Tracks
    BY PostgresAssumption DEF TypeOK
  <2>2. PICK r : r = FirstRecord(start, target, sel, n)
    OBVIOUS
  <2>3. /\ r \in Record /\ r # None /\ r.target # None
        /\ PositionOK(r) /\ Orderly(r.queue)
        /\ ReachesTarget(r) /\ FutureFollows(r, StartMoods)
        /\ r.index = 0 /\ r.status = "ready" /\ r.lastAction = None
        /\ r.checkIn = None /\ r.revision = 1
    BY <2>1, <2>2, FirstRecordGood
  <2>4. rows'[s] = r /\ rows' = [rows EXCEPT ![s] = r]
    BY <1>4, <2>2 DEF TypeOK
  <2>5. ReplyGood
    <3>1. <<>> \in Seq(AuditRow) \cup Seq(CheckInRow)
      OBVIOUS
    <3>2. CASE Respond("create", s, 201, "none", rows'[s], <<>>, FALSE)
      BY <1>2, <2>3, <2>4, <3>1, <3>2, RespondGood
    <3>3. CASE Fault("create", s, "unavailable")
      BY <1>2, <3>3, FaultGood
    <3> QED
      BY <1>4, <3>2, <3>3
  <2> QED
    BY <1>1, <1>4, <2>3, <2>4, <2>5, InsertStep
<1>5. PICK n \in QueueLengths, start \in StartMoods, target \in TargetMoods :
         \/ Refuse("create", None, 422, "build") /\ UNCHANGED <<tables, issued>>
         \/ \E sel \in Selections(catalog, {}, n) :
               \/ Refuse("create", None, 503, "audio") /\ UNCHANGED <<tables, issued>>
               \/ /\ rows' = [rows EXCEPT ![s] = FirstRecord(start, target, sel, n)]
                  /\ expires' = [expires EXCEPT ![s] = clock + Retention]
                  /\ issued' = issued \cup {s}
                  /\ \/ Respond("create", s, 201, "none", rows'[s], <<>>, FALSE)
                     \/ Fault("create", s, "unavailable")
                  /\ UNCHANGED <<audit, checkIns>>
  BY DEF Create
<1>6. CASE Refuse("create", None, 422, "build") /\ UNCHANGED <<tables, issued>>
  BY <1>2, <1>3, <1>6
<1>7. CASE Refuse("create", None, 503, "audio") /\ UNCHANGED <<tables, issued>>
  BY <1>2, <1>3, <1>7
<1>8. ASSUME NEW sel \in Selections(catalog, {}, n),
             /\ rows' = [rows EXCEPT ![s] = FirstRecord(start, target, sel, n)]
             /\ expires' = [expires EXCEPT ![s] = clock + Retention]
             /\ issued' = issued \cup {s}
             /\ \/ Respond("create", s, 201, "none", rows'[s], <<>>, FALSE)
                \/ Fault("create", s, "unavailable")
             /\ UNCHANGED <<audit, checkIns>>
      PROVE  StepGood
  BY <1>4, <1>8
<1> QED
  BY <1>5, <1>6, <1>7, <1>8
-----------------------------------------------------------------------------
(* A change is committed.                                                  *)

\* What is known of a request that holds its row: the row has not moved since the lock,
\* and the request began after everything that is in the tables of its session.
LEMMA CommitFacts ==
    ASSUME TypeOK, AllGood, NEW h \in Handlers, requests[h] # None,
           requests[h].phase = "locked"
    PROVE  LET t == requests[h]
               s == t.sid
           IN  /\ t \in Request /\ s \in Sessions /\ t.op \in Mutations
               /\ SentRight(t) /\ holder[s] = h /\ Visible(s, t.at) /\ ~ IsRetry(t)
               /\ rows[s] \in Record /\ rows[s] # None
               /\ t.out \in Outcome /\ Accepted(t, rows[s], t.out.rec)
               /\ AllBefore(s, t.at)
<1> DEFINE t == requests[h]
           s == t.sid
<1>1. t \in Request /\ s \in Sessions
  BY DEF TypeOK, Request
<1>2. SentRight(t) /\ Prepared(h, t) /\ BeganAfter(t)
  BY DEF AllGood, RequestGood
<1>3. /\ t.op \in Mutations /\ holder[s] = h /\ Visible(s, t.at) /\ ~ IsRetry(t)
      /\ t.out.cause = "none"
  BY <1>2 DEF Prepared
<1>4. PICK playable \in AudioStates : t.out \in Outcomes(t, playable)
  BY <1>2 DEF Prepared
<1>5. rows[s] # None /\ rows[s] \in Record
  BY <1>1, <1>3 DEF Visible, TypeOK
<1>6. t.out \in Outcome /\ Accepted(t, rows[s], t.out.rec)
  BY <1>1, <1>2, <1>3, <1>4, <1>5, OutcomeGood
<1>7. AllBefore(s, t.at)
  BY <1>2, <1>3, <1>5, <1>6 DEF BeganAfter, Accepted
<1> QED
  BY <1>1, <1>2, <1>3, <1>5, <1>6, <1>7

\* A commit lifts the bound above the time its transaction began.
LEMMA CommitTimes ==
    ASSUME TypeOK, NEW at \in Nat, at <= clock,
           clock' = IF clock < MaxClock THEN clock + 1 ELSE clock
    PROVE  at < Bound' /\ clock' \in {clock, clock + 1} /\ clock' \in Nat
<1>1. MaxClock \in Nat /\ clock \in Nat
  BY PostgresAssumption DEF TypeOK
<1>2. Bound' = IF clock' < MaxClock THEN clock' ELSE clock' + 1
  BY DEF Bound
<1>3. CASE clock < MaxClock
  <2>1. clock' = clock + 1
    BY <1>3
  <2> QED
    BY <1>1, <1>2, <2>1
<1>4. CASE ~(clock < MaxClock)
  <2>1. clock' = clock
    BY <1>4
  <2> QED
    BY <1>1, <1>2, <1>4, <2>1
<1> QED
  BY <1>3, <1>4

\* What all commits have in common.
CommitBase(h) ==
    /\ requests[h] # None /\ requests[h].phase = "locked"
    /\ rows' = [rows EXCEPT ![requests[h].sid] = requests[h].out.rec]
    /\ clock' = IF clock < MaxClock THEN clock + 1 ELSE clock
    /\ Finish(h) /\ Release(h)
    /\ UNCHANGED <<expires, issued, catalog>>
    /\ \A o \in Sessions \ {requests[h].sid} :
          audit'[o] = audit[o] /\ checkIns'[o] = checkIns[o]

LEMMA CommitOwes ==
    ASSUME TypeOK, AllGood, NEW h \in Handlers, CommitBase(h),
           audit' \in [Sessions -> Seq(AuditRow)],
           checkIns' \in [Sessions -> Seq(CheckInRow)],
           NEW s, s = requests[h].sid, TrailGood(s)', ReplyGood, Contract!ContractNext
    PROVE  StepGood
<1> DEFINE t == requests[h]
<1>0. s = t.sid
  OBVIOUS
<1>1. PICK new : new = t.out.rec
  OBVIOUS
<1>2. /\ t \in Request /\ s \in Sessions /\ holder[s] = h /\ Visible(s, t.at)
      /\ rows[s] \in Record /\ rows[s] # None /\ t.out \in Outcome
      /\ Accepted(t, rows[s], new)
  BY <1>0, <1>1, CommitFacts DEF CommitBase
<1>3. /\ Succeeds(rows[s], new) /\ PathKept(rows[s], new, StartMoods)
      /\ new \in Record /\ new # None
  <2>1. Succeeds(rows[s], new) /\ PathKept(rows[s], new, StartMoods)
    BY <1>2 DEF Accepted
  <2>2. new \in Record
    BY <2>1 DEF Succeeds
  <2> QED
    BY <2>1, <2>2, PostgresAssumption
<1>4. /\ rows'[s] = new /\ \A o \in Sessions \ {s} : TablesStay(o)
      /\ rows' \in [Sessions -> Record \cup {None}]
  BY <1>0, <1>1, <1>2, <1>3 DEF CommitBase, TablesStay, TypeOK
<1>5. t.at \in Nat /\ t.at <= clock
  <2>1. SentRight(t)
    BY CommitFacts DEF CommitBase
  <2> QED
    BY <1>2, <2>1 DEF SentRight, Request
<1>6. clock' \in {clock, clock + 1} /\ clock' \in Nat
  BY <1>5, CommitTimes DEF CommitBase
<1>7. /\ requests' \in [Handlers -> Request \cup {None}] /\ requests'[h] = None
      /\ \A g \in Handlers : g # h => requests'[g] = requests[g]
      /\ holder' \in [Sessions -> Handlers \cup {None}]
      /\ \A o \in Sessions : holder'[o] = IF holder[o] = h THEN None ELSE holder[o]
  BY DEF CommitBase, Finish, Release, TypeOK
<1>8. TypeOK'
  BY <1>4, <1>6, <1>7 DEF TypeOK, CommitBase, ReplyGood
<1>9. \A o \in Sessions : LockGood(o)'
  <2> TAKE o \in Sessions
  <2>1. LockGood(o)
    BY DEF AllGood, SessionGood
  <2>2. CASE holder[o] = h
    BY <1>7, <2>2 DEF LockGood
  <2>3. CASE holder[o] # h
    <3>1. holder'[o] = holder[o] /\ holder[o] \in Handlers \cup {None}
      BY <1>7, <2>3 DEF TypeOK
    <3> QED
      BY <1>7, <2>1, <2>3, <3>1 DEF LockGood
  <2> QED
    BY <2>2, <2>3
<1>10. \A o \in Sessions : SessionGood(o)'
  <2> TAKE o \in Sessions
  <2>1. CASE o = s
    <3>1. RowGood(s)'
      <4>1. RowGood(s)
        BY <1>2 DEF AllGood, SessionGood
      <4>2. /\ s \in issued' /\ new.target # None /\ PositionOK(new) /\ Orderly(new.queue)
            /\ ReachesTarget(new) /\ FutureFollows(new, StartMoods)
        BY <1>2, <1>3, <4>1 DEF RowGood, Succeeds, PathKept, CommitBase
      <4> QED
        BY <1>3, <1>4, <4>2 DEF RowGood
    <3>2. TrailGood(s)'
      BY <1>0
    <3> QED
      BY <1>9, <2>1, <3>1, <3>2 DEF SessionGood
  <2>2. CASE o # s
    <3>1. /\ rows'[o] = rows[o] /\ audit'[o] = audit[o] /\ checkIns'[o] = checkIns[o]
          /\ issued' = issued
      BY <1>4, <2>2 DEF TablesStay, CommitBase
    <3> QED
      BY <1>6, <1>9, <3>1, SessionFrame DEF AllGood
  <2> QED
    BY <2>1, <2>2
<1>11. \A g \in Handlers : RequestGood(g)'
  <2> TAKE g \in Handlers
  <2>1. CASE g = h
    BY <1>7, <2>1 DEF RequestGood
  <2>2. CASE g # h
    <3>1. RequestGood(g) /\ requests'[g] = requests[g] /\ issued' = issued /\ catalog' = catalog
      BY <1>7, <2>2 DEF AllGood, CommitBase
    <3>2. ASSUME requests[g] # None
          PROVE  LET o == requests[g].sid
                 IN  \/ TablesStay(o) /\ (holder[o] = g => holder'[o] = g)
                     \/ /\ holder[o] # g /\ rows[o] # None
                        /\ rows'[o].revision = rows[o].revision + 1
      <4>1. requests[g].sid \in Sessions
        BY <3>2 DEF TypeOK, Request
      <4>2. CASE requests[g].sid = s
        BY <1>2, <1>3, <1>4, <2>2, <4>2 DEF Succeeds
      <4>3. CASE requests[g].sid # s
        BY <1>4, <1>7, <2>2, <4>1, <4>3
      <4> QED
        BY <4>2, <4>3
    <3> QED
      BY <1>6, <3>1, <3>2, RequestFrame
  <2> QED
    BY <2>1, <2>2
<1>12. LateChangesBeganEarlier
  <2> SUFFICES ASSUME NEW o \in Live, rows'[o] # rows[o]
               PROVE  \E g \in Handlers : /\ requests[g] # None /\ requests'[g] = None
                                          /\ requests[g].sid = o /\ requests[g].at < expires[o]
    BY DEF LateChangesBeganEarlier
  <2>1. o = s
    BY <1>4 DEF Live, TablesStay
  <2>2. t.at < expires[s]
    <3>1. expires[s] \in Nat
      BY <1>2 DEF TypeOK
    <3> QED
      BY <1>2, <1>5, <3>1 DEF Visible
  <2> QED
    BY <1>0, <1>7, <2>1, <2>2 DEF CommitBase
<1> QED
  BY <1>8, <1>10, <1>11, <1>12 DEF StepGood, AllGood, ReplyGood, ContractStep
\* Every commit advances its session by one revision, as the contract has it.
LEMMA CommitAdvances ==
    ASSUME TypeOK, AllGood, NEW h \in Handlers, CommitBase(h), NEW s, s = requests[h].sid
    PROVE  Contract!Advanced(s)
<1>1. PICK new : new = requests[h].out.rec
  OBVIOUS
<1>2. /\ s \in Sessions /\ rows[s] \in Record /\ rows[s] # None
      /\ Accepted(requests[h], rows[s], new)
  BY <1>1, CommitFacts DEF CommitBase
<1>3. /\ Succeeds(rows[s], new) /\ LockedKept(rows[s], new)
      /\ new \in Record /\ new # None
  <2>1. Succeeds(rows[s], new) /\ LockedKept(rows[s], new)
    BY <1>2 DEF Accepted
  <2>2. new \in Record
    BY <2>1 DEF Succeeds
  <2> QED
    BY <2>1, <2>2, PostgresAssumption
<1>4. rows'[s] = new /\ \A o \in Sessions \ {s} : rows'[o] = rows[o]
  BY <1>1, <1>2 DEF CommitBase, TypeOK
<1>5. Orderly(new.queue)
  <2>1. Orderly(rows[s].queue)
    BY <1>2, StoredRow
  <2> QED
    BY <1>3, <2>1 DEF Succeeds
<1>6. Contract!OthersStay(s)
  <2>1. \A o \in Sessions \ {s} : audit'[o] = audit[o] /\ checkIns'[o] = checkIns[o]
    BY DEF CommitBase
  <2> QED
    BY <1>4, <2>1, TrailStays DEF Contract!OthersStay
<1> QED
  BY <1>2, <1>3, <1>4, <1>5, <1>6
     DEF Contract!Advanced, Contract!LockedKept, LockedKept, Contract!Orderly, Orderly, Succeeds

\* An event is committed: its row is the newest, and its ID was free.
LEMMA CommitEvent ==
    ASSUME TypeOK, AllGood, NEW h \in Handlers, CommitBase(h),
           requests[h].op \in {"event", "advance"}, WriteEvent(requests[h]), ReplyGood
    PROVE  StepGood
<1>0. PICK t : t = requests[h]
  OBVIOUS
<1>1. PICK s : s = t.sid
  OBVIOUS
<1> DEFINE e == t.input
           new == t.out.rec
           n == Len(audit[s])
<1>2. /\ t \in Request /\ s \in Sessions /\ SentRight(t) /\ ~ IsRetry(t)
      /\ rows[s] \in Record /\ rows[s] # None /\ t.out \in Outcome
      /\ Accepted(t, rows[s], new) /\ AllBefore(s, t.at)
  BY <1>0, <1>1, CommitFacts DEF CommitBase
<1>3. e \in Event /\ t.at \in Nat /\ t.at <= clock
  BY <1>0, <1>2 DEF SentRight, Request
<1>4. PICK row \in AuditRow :
         /\ row = [id |-> e.id, track |-> e.track, type |-> e.type, rev |-> e.rev,
                   wellFormed |-> e.wellFormed, at |-> t.at, changed |-> t.out.changed]
         /\ row.id = e.id /\ row.at = t.at /\ Payload(row) = e
  <2> DEFINE row == [id |-> e.id, track |-> e.track, type |-> e.type, rev |-> e.rev,
                     wellFormed |-> e.wellFormed, at |-> t.at, changed |-> t.out.changed]
  <2>1. t.out.changed \in BOOLEAN
    BY <1>2 DEF Outcome
  <2>2. row \in AuditRow
    BY <1>3, <2>1 DEF AuditRow, Event
  <2>3. Payload(row) = e
    BY <1>3 DEF Payload, Event
  <2> QED
    BY <2>2, <2>3
<1>5. /\ audit' = [audit EXCEPT ![s] = Append(@, row)] /\ checkIns' = checkIns
  BY <1>0, <1>1, <1>4 DEF WriteEvent
<1>6. /\ audit[s] \in Seq(AuditRow) /\ n \in Nat /\ audit'[s] = Append(audit[s], row)
      /\ audit' \in [Sessions -> Seq(AuditRow)]
      /\ Len(audit'[s]) = n + 1
      /\ \A k \in 1..n : audit'[s][k] = audit[s][k] /\ audit[s][k] \in AuditRow
      /\ audit'[s][n + 1] = row
      /\ checkIns' \in [Sessions -> Seq(CheckInRow)] /\ checkIns'[s] = checkIns[s]
  <2>1. /\ audit[s] \in Seq(AuditRow) /\ audit'[s] = Append(audit[s], row)
        /\ audit' \in [Sessions -> Seq(AuditRow)]
        /\ checkIns' \in [Sessions -> Seq(CheckInRow)]
    BY <1>2, <1>4, <1>5 DEF TypeOK
  <2> QED
    BY <1>5, <2>1
<1>7. \A k \in 1..n : audit[s][k].id # e.id
  <2>1. EntryOf(s, e.id) = {}
    BY <1>0, <1>1, <1>2 DEF IsRetry
  <2> QED
    BY <2>1 DEF EntryOf
<1>8. TrailGood(s)'
  <2>1. TrailGood(s)
    BY <1>2 DEF AllGood, SessionGood
  <2>2. \A k \in 1..(n + 1) : k \in 1..n \/ k = n + 1
    BY <1>6
  <2>3. \A j, k \in 1..(n + 1) : audit'[s][j].id = audit'[s][k].id => j = k
    BY <1>4, <1>6, <1>7, <2>1, <2>2 DEF TrailGood
  <2>4. ASSUME NEW k \in 2..(n + 1) PROVE audit'[s][k - 1].at < audit'[s][k].at
    <3>1. CASE k \in 2..n
      <4>1. k \in 1..n /\ k - 1 \in 1..n
        BY <1>6, <3>1
      <4> QED
        BY <1>6, <2>1, <3>1, <4>1 DEF TrailGood
    <3>2. CASE k = n + 1
      <4>1. k - 1 \in 1..n /\ k - 1 = n
        BY <1>6, <3>2
      <4> QED
        BY <1>2, <1>4, <1>6, <3>2, <4>1 DEF AllBefore
    <3> QED
      BY <1>6, <3>1, <3>2
  <2>5. t.at < Bound' /\ Bound' \in Nat
    BY <1>3, CommitTimes, BoundGrows DEF CommitBase, TypeOK
  <2>6. /\ \A k \in 1..n : audit[s][k].at < Bound'
        /\ \A k \in 1..Len(checkIns[s]) : checkIns[s][k].at < Bound'
    BY <1>2, <1>3, <2>5, BeforeLater DEF AllBefore
  <2>7. \A k \in 1..(n + 1) : audit'[s][k].at < Bound'
    BY <1>4, <1>6, <2>2, <2>5, <2>6
  <2>8. AllBefore(s, Bound)'
    BY <1>6, <2>6, <2>7 DEF AllBefore
  <2>9. \A k \in 2..Len(checkIns'[s]) : checkIns'[s][k - 1].at < checkIns'[s][k].at
    BY <1>6, <2>1 DEF TrailGood
  <2> QED
    BY <1>6, <2>3, <2>4, <2>8, <2>9 DEF TrailGood
<1>9. Contract!EventAccepted(s)
  <2>1. Contract!Advanced(s)
    BY <1>0, <1>1, CommitAdvances
  <2>2. /\ Trail'[s] = Append(Trail[s], e) /\ Trail[s] \in Seq(Event) /\ Len(Trail[s]) = n
        /\ \A k \in 1..n : Trail[s][k] = Payload(audit[s][k])
    BY <1>2, <1>4, <1>6, TrailAppended, TrailType
  <2>3. /\ Len(Trail'[s]) = Len(Trail[s]) + 1 /\ Trail'[s][Len(Trail'[s])] = e
    BY <1>3, <2>2
  <2>4. CheckedMoods'[s] = CheckedMoods[s]
    BY <1>2, <1>6 DEF CheckedMoods
  <2>5. rows'[s] = new
    BY <1>0, <1>1, <1>2 DEF CommitBase, TypeOK
  <2>6. Contract!Fits(s, e)
    <3>1. \A k \in 1..Len(Trail[s]) : Trail[s][k].id # e.id
      <4>1. \A k \in 1..n : Trail[s][k].id = audit[s][k].id
        <5>1. \A k \in 1..n : Trail[s][k] = Payload(audit[s][k])
          BY <2>2
        <5>2. \A k \in 1..n : Payload(audit[s][k]).id = audit[s][k].id
          BY DEF Payload
        <5> HIDE DEF n
        <5> QED
          BY <5>1, <5>2
      <4>2. Len(Trail[s]) = n
        BY <2>2
      <4> HIDE DEF n, e
      <4> QED
        BY <1>7, <4>1, <4>2
    <3> QED
      BY <1>0, <1>2, <3>1 DEF Contract!Fits, Accepted
  <2> HIDE DEF new, e
  <2>7. /\ new.index = IF e.type \in Moves THEN rows[s].index + 1 ELSE rows[s].index
        /\ new.lastAction = IF e.type \in Moves THEN e.type ELSE rows[s].lastAction
        /\ new.status = IF e.type \in Moves
                        THEN IF new.index = Len(rows[s].queue) THEN "completed" ELSE "active"
                        ELSE IF e.type = "start" /\ rows[s].status = "ready" THEN "active"
                        ELSE rows[s].status
        /\ new.checkIn = rows[s].checkIn
    BY <1>0, <1>2 DEF Accepted, e
  <2> QED
    BY <2>1, <2>2, <2>3, <2>4, <2>5, <2>6, <2>7 DEF Contract!EventAccepted, Contract!Moves, Moves
<1>10. Contract!ContractNext
  BY <1>2, <1>9 DEF Contract!ContractNext
<1> QED
  BY <1>0, <1>1, <1>6, <1>8, <1>10, CommitOwes
\* A check-in is committed: it is the newest on the list.
LEMMA CommitCheckIn ==
    ASSUME TypeOK, AllGood, NEW h \in Handlers, CommitBase(h),
           requests[h].op = "checkIn", WriteCheckIn(requests[h]), ReplyGood
    PROVE  StepGood
<1>0. PICK t : t = requests[h]
  OBVIOUS
<1>1. PICK s : s = t.sid
  OBVIOUS
<1> DEFINE new == t.out.rec
           n == Len(checkIns[s])
<1>2. /\ t \in Request /\ s \in Sessions /\ SentRight(t)
      /\ rows[s] \in Record /\ rows[s] # None
      /\ Accepted(t, rows[s], new) /\ AllBefore(s, t.at)
  BY <1>0, <1>1, CommitFacts DEF CommitBase
<1>3. t.at \in Nat /\ t.at <= clock
  BY <1>2 DEF SentRight, Request
<1>4. /\ new.checkIn \in Moods /\ new.checkIn # None /\ rows[s].status # "completed"
      /\ new.index = rows[s].index /\ new.status = rows[s].status
      /\ new.lastAction = rows[s].lastAction
  BY <1>0, <1>2, RulesAssumption DEF Accepted
<1>5. PICK row \in CheckInRow :
         row = [mood |-> new.checkIn, at |-> t.at] /\ row.mood = new.checkIn /\ row.at = t.at
  <2> DEFINE row == [mood |-> new.checkIn, at |-> t.at]
  <2>1. row \in CheckInRow
    BY <1>3, <1>4 DEF CheckInRow
  <2>2. row.mood = new.checkIn /\ row.at = t.at
    OBVIOUS
  <2> QED
    BY <2>1, <2>2
<1>6. /\ checkIns' = [checkIns EXCEPT ![s] = Append(@, row)] /\ audit' = audit
  BY <1>0, <1>1, <1>5 DEF WriteCheckIn
<1>7. /\ n \in Nat /\ checkIns'[s] = Append(checkIns[s], row)
      /\ checkIns' \in [Sessions -> Seq(CheckInRow)]
      /\ Len(checkIns'[s]) = n + 1
      /\ \A k \in 1..n : checkIns'[s][k] = checkIns[s][k]
      /\ checkIns'[s][n + 1] = row
      /\ audit' \in [Sessions -> Seq(AuditRow)] /\ audit'[s] = audit[s]
  <2>1. /\ checkIns[s] \in Seq(CheckInRow) /\ checkIns'[s] = Append(checkIns[s], row)
        /\ checkIns' \in [Sessions -> Seq(CheckInRow)]
        /\ audit' \in [Sessions -> Seq(AuditRow)]
    BY <1>2, <1>5, <1>6 DEF TypeOK
  <2> QED
    BY <1>6, <2>1
<1>8. TrailGood(s)'
  <2>1. TrailGood(s)
    BY <1>2 DEF AllGood, SessionGood
  <2>2. \A k \in 1..(n + 1) : k \in 1..n \/ k = n + 1
    BY <1>7
  <2>3. ASSUME NEW k \in 2..(n + 1) PROVE checkIns'[s][k - 1].at < checkIns'[s][k].at
    <3>1. CASE k \in 2..n
      <4>1. k \in 1..n /\ k - 1 \in 1..n
        BY <1>7, <3>1
      <4> QED
        BY <1>7, <2>1, <3>1, <4>1 DEF TrailGood
    <3>2. CASE k = n + 1
      <4>1. k - 1 \in 1..n /\ k - 1 = n
        BY <1>7, <3>2
      <4> QED
        BY <1>2, <1>5, <1>7, <3>2, <4>1 DEF AllBefore
    <3> QED
      BY <1>7, <3>1, <3>2
  <2>4. t.at < Bound' /\ Bound' \in Nat
    BY <1>3, CommitTimes, BoundGrows DEF CommitBase, TypeOK
  <2>5. /\ \A k \in 1..Len(audit[s]) : audit[s][k].at < Bound'
        /\ \A k \in 1..n : checkIns[s][k].at < Bound'
    BY <1>2, <1>3, <2>4, BeforeLater DEF AllBefore
  <2>6. \A k \in 1..(n + 1) : checkIns'[s][k].at < Bound'
    BY <1>5, <1>7, <2>2, <2>4, <2>5
  <2>7. AllBefore(s, Bound)'
    BY <1>7, <2>5, <2>6 DEF AllBefore
  <2> QED
    BY <1>7, <2>1, <2>3, <2>7 DEF TrailGood
<1>9. Contract!CheckedIn(s)
  <2>1. Contract!Advanced(s)
    BY <1>0, <1>1, CommitAdvances
  <2>2. CheckedMoods'[s] = Append(CheckedMoods[s], new.checkIn)
    BY <1>2, <1>5, <1>7, CheckInAppended
  <2>3. Trail'[s] = Trail[s]
    BY <1>2, <1>7 DEF Trail
  <2>4. rows'[s] = new
    BY <1>0, <1>1, <1>2 DEF CommitBase, TypeOK
  <2>5. Contract!PlaceKept(s)
    BY <1>4, <2>3, <2>4 DEF Contract!PlaceKept
  <2> QED
    BY <1>4, <2>1, <2>2, <2>4, <2>5 DEF Contract!CheckedIn
<1>10. Contract!ContractNext
  BY <1>2, <1>9 DEF Contract!ContractNext
<1> QED
  BY <1>0, <1>1, <1>7, <1>8, <1>10, CommitOwes

\* The check-ins are deleted, and the one in force with them.
LEMMA CommitClear ==
    ASSUME TypeOK, AllGood, NEW h \in Handlers, CommitBase(h),
           requests[h].op = "clearCheckIns", ClearRows(requests[h]), ReplyGood
    PROVE  StepGood
<1>0. PICK t : t = requests[h]
  OBVIOUS
<1>1. PICK s : s = t.sid
  OBVIOUS
<1> DEFINE new == t.out.rec
<1>2. /\ t \in Request /\ s \in Sessions /\ SentRight(t)
      /\ rows[s] \in Record /\ rows[s] # None
      /\ Accepted(t, rows[s], new) /\ AllBefore(s, t.at)
  BY <1>0, <1>1, CommitFacts DEF CommitBase
<1>3. t.at \in Nat /\ t.at <= clock
  BY <1>2 DEF SentRight, Request
<1>4. /\ new.checkIn = None
      /\ new.index = rows[s].index /\ new.status = rows[s].status
      /\ new.lastAction = rows[s].lastAction
  BY <1>0, <1>2 DEF Accepted
<1>5. checkIns' = [checkIns EXCEPT ![s] = <<>>] /\ audit' = audit
  BY <1>0, <1>1 DEF ClearRows
<1>6. /\ checkIns'[s] = <<>> /\ checkIns' \in [Sessions -> Seq(CheckInRow)]
      /\ audit' \in [Sessions -> Seq(AuditRow)] /\ audit'[s] = audit[s]
  <2>1. <<>> \in Seq(CheckInRow)
    OBVIOUS
  <2> QED
    BY <1>2, <1>5, <2>1 DEF TypeOK
<1>7. TrailGood(s)'
  <2>1. TrailGood(s)
    BY <1>2 DEF AllGood, SessionGood
  <2>2. 1..Len(<<>>) = {} /\ 2..Len(<<>>) = {}
    OBVIOUS
  <2>3. t.at < Bound' /\ Bound' \in Nat
    BY <1>3, CommitTimes, BoundGrows DEF CommitBase, TypeOK
  <2>4. \A k \in 1..Len(audit[s]) : audit[s][k].at < Bound'
    <3>1. t.at <= Bound'
      BY <1>3, <2>3
    <3>2. AllBefore(s, Bound')
      BY <1>2, <1>3, <2>3, <3>1, BeforeLater
    <3> QED
      BY <3>2 DEF AllBefore
  <2>5. AllBefore(s, Bound)'
    BY <1>6, <2>2, <2>4 DEF AllBefore
  <2> QED
    BY <1>6, <2>1, <2>2, <2>5 DEF TrailGood
<1>8. Contract!CheckInsCleared(s)
  <2>1. Contract!Advanced(s)
    BY <1>0, <1>1, CommitAdvances
  <2>2. CheckedMoods'[s] = <<>>
    <3>1. CheckedMoods'[s] = [k \in 1..Len(checkIns'[s]) |-> checkIns'[s][k].mood]
      BY <1>2 DEF CheckedMoods
    <3>2. CheckedMoods'[s] \in [1..0 -> Moods]
      BY <1>6, <3>1
    <3>3. CheckedMoods'[s] \in Seq(Moods) /\ Len(CheckedMoods'[s]) = 0
      BY <3>2
    <3> QED
      BY <3>3
  <2>3. Trail'[s] = Trail[s]
    BY <1>2, <1>6 DEF Trail
  <2>4. rows'[s] = new
    BY <1>0, <1>1, <1>2 DEF CommitBase, TypeOK
  <2>5. Contract!PlaceKept(s)
    BY <1>4, <2>3, <2>4 DEF Contract!PlaceKept
  <2> QED
    BY <1>4, <2>1, <2>2, <2>4, <2>5 DEF Contract!CheckInsCleared
<1>9. Contract!ContractNext
  BY <1>2, <1>8 DEF Contract!ContractNext
<1> QED
  BY <1>0, <1>1, <1>6, <1>7, <1>9, CommitOwes

LEMMA CommitStep ==
    ASSUME TypeOK, AllGood, NEW h \in Handlers, Commit(h)
    PROVE  StepGood
<1>0. PICK t : t = requests[h]
  OBVIOUS
<1>1. requests[h] # None /\ requests[h].phase = "locked"
  BY DEF Commit
<1>2. /\ t.sid \in Sessions /\ t.op \in Mutations /\ t.op \in Ops
      /\ t.out.rec \in Record /\ t.out.changed \in BOOLEAN
  BY <1>0, <1>1, CommitFacts DEF Outcome, Ops
<1>3. /\ rows' = [rows EXCEPT ![t.sid] = t.out.rec]
      /\ CASE t.op = "checkIn" -> WriteCheckIn(t)
           [] t.op = "clearCheckIns" -> ClearRows(t)
           [] OTHER -> WriteEvent(t)
      /\ \/ Answer(t.op, t.sid, t.out.rec, t.out.changed)
         \/ Fault(t.op, t.sid, "unavailable")
  BY <1>0 DEF Commit
<1>4. \/ t.op = "checkIn" /\ WriteCheckIn(t)
      \/ t.op = "clearCheckIns" /\ ClearRows(t)
      \/ t.op \in {"event", "advance"} /\ WriteEvent(t)
  BY <1>2, <1>3 DEF Mutations
<1>5. \A o \in Sessions \ {t.sid} : audit'[o] = audit[o] /\ checkIns'[o] = checkIns[o]
  BY <1>4 DEF WriteCheckIn, ClearRows, WriteEvent, TypeOK
<1>6. CommitBase(h)
  BY <1>0, <1>1, <1>3, <1>5 DEF CommitBase, Commit
<1>7. ReplyGood
  <2>1. rows'[t.sid] = t.out.rec
    BY <1>2, <1>3 DEF TypeOK
  <2>2. CASE Answer(t.op, t.sid, t.out.rec, t.out.changed)
    BY <1>2, <2>1, <2>2, AnswerGood
  <2>3. CASE Fault(t.op, t.sid, "unavailable")
    BY <1>2, <2>3, FaultGood
  <2> QED
    BY <1>3, <2>2, <2>3
<1> QED
  BY <1>0, <1>4, <1>6, <1>7, CommitEvent, CommitCheckIn, CommitClear
-----------------------------------------------------------------------------
(* What an answer to an event stands for.                                  *)

LEMMA FaultShowsNothing ==
    ASSUME NEW op, NEW s, NEW cause, Fault(op, s, cause)
    PROVE  reply'.session = None
BY DEF Fault, Refuse, Respond

\* A retry that gets an answer has its own payload in the audit, and it is the only one.
LEMMA RetryStands ==
    ASSUME TypeOK, AllGood, NEW h \in Handlers, LockRow(h), LockRetry(h),
           reply'.session # None
    PROVE  LET t == requests[h]
           IN  {p \in Payloads(audit'[t.sid]) : p.id = t.input.id} = {t.input}
<1> DEFINE t == requests[h]
           s == t.sid
<1>1. t \in Request /\ s \in Sessions /\ audit'[s] = audit[s]
  BY DEF LockRow, TypeOK, Request, tables
<1>2. PICK k \in EntryOf(s, t.input.id) :
         IF Payload(audit[s][k]) = t.input
         THEN Answer(t.op, s, rows[s], audit[s][k].changed)
         ELSE Fault(t.op, s, "conflict")
  BY DEF LockRetry
<1>3. Payload(audit[s][k]) = t.input
  BY <1>2, FaultShowsNothing
<1>4. \A j \in 1..Len(audit[s]) : audit[s][j].id = t.input.id => j = k
  BY <1>1, <1>2 DEF AllGood, SessionGood, TrailGood, EntryOf
<1>5. \A j \in 1..Len(audit[s]) : Payload(audit[s][j]).id = audit[s][j].id
  BY DEF Payload
<1>6. k \in 1..Len(audit[s]) /\ audit[s][k].id = t.input.id
  BY <1>2 DEF EntryOf
<1> QED
  BY <1>1, <1>3, <1>4, <1>5, <1>6 DEF Payloads

\* A commit adds the payload of its request, whose ID was not in the audit.
LEMMA CommitStands ==
    ASSUME TypeOK, AllGood, NEW h \in Handlers, Commit(h),
           requests[h].op \in {"event", "advance"}
    PROVE  LET t == requests[h]
           IN  {p \in Payloads(audit'[t.sid]) : p.id = t.input.id} = {t.input}
<1>0. PICK t : t = requests[h]
  OBVIOUS
<1>1. PICK s : s = t.sid
  OBVIOUS
<1> DEFINE e == t.input
           n == Len(audit[s])
<1>2. /\ t \in Request /\ s \in Sessions /\ SentRight(t) /\ ~ IsRetry(t)
      /\ t.op \in {"event", "advance"}
  BY <1>0, <1>1, CommitFacts DEF Commit
<1>3. WriteEvent(t)
  BY <1>0, <1>2 DEF Commit
<1>4. PICK row :
         /\ row = [id |-> e.id, track |-> e.track, type |-> e.type, rev |-> e.rev,
                   wellFormed |-> e.wellFormed, at |-> t.at, changed |-> t.out.changed]
         /\ Payload(row) = e
  <2> DEFINE row == [id |-> e.id, track |-> e.track, type |-> e.type, rev |-> e.rev,
                     wellFormed |-> e.wellFormed, at |-> t.at, changed |-> t.out.changed]
  <2>1. e \in Event
    BY <1>2 DEF SentRight
  <2>2. Payload(row) = e
    BY <2>1 DEF Payload, Event
  <2> QED
    BY <2>2
<1>5. audit' = [audit EXCEPT ![s] = Append(@, row)] /\ audit[s] \in Seq(AuditRow)
  BY <1>1, <1>2, <1>3, <1>4 DEF WriteEvent, TypeOK
<1>6. /\ audit'[s] = Append(audit[s], row) /\ n \in Nat
      /\ Len(audit'[s]) = n + 1 /\ audit'[s][n + 1] = row
      /\ \A k \in 1..n : audit'[s][k] = audit[s][k]
  <2>1. audit'[s] = Append(audit[s], row)
    BY <1>2, <1>5 DEF TypeOK
  <2> QED
    BY <1>5, <2>1
<1>7. \A k \in 1..n : audit[s][k].id # e.id
  BY <1>1, <1>2 DEF IsRetry, EntryOf
<1>8. \A k \in 1..n : Payload(audit'[s][k]).id # e.id
  BY <1>6, <1>7 DEF Payload
<1>9. {p \in Payloads(audit'[s]) : p.id = e.id} = {e}
  <2>1. \A k \in 1..Len(audit'[s]) : k \in 1..n \/ k = n + 1
    BY <1>6
  <2>2. n + 1 \in 1..Len(audit'[s]) /\ Payload(audit'[s][n + 1]) = e
    BY <1>4, <1>6
  <2> QED
    BY <1>8, <2>1, <2>2 DEF Payloads
<1> QED
  BY <1>0, <1>1, <1>9

\* Only the lock and the commit answer an event with the session.
LEMMA AnswerStands ==
    ASSUME TypeOK, AllGood, [Next]_vars
    PROVE  AnswersStandForTheirEvent
<1> SUFFICES ASSUME NEW h \in Handlers, requests[h] # None, requests'[h] = None,
                    requests[h].op \in {"event", "advance"},
                    reply' # reply, reply'.session # None
             PROVE  LET t == requests[h]
                    IN  {p \in Payloads(audit'[t.sid]) : p.id = t.input.id} = {t.input}
  BY DEF AnswersStandForTheirEvent
<1>0. \A g \in Handlers : Finish(g) => g = h
  BY DEF Finish, TypeOK
<1>1. ASSUME NEW s \in Sessions, Create(s) \/ Get(s) PROVE FALSE
  BY <1>1 DEF Create, Get
<1>2. ASSUME NEW g \in Handlers, NEW s \in Sessions,
             \/ PostEvent(g, s) \/ AddCheckIn(g, s) \/ ClearAllCheckIns(g, s)
             \/ DeleteSession(g, s) \/ AdvanceRead(g, s) \/ ListCheck(g, s)
      PROVE  FALSE
  <2>1. CASE PostEvent(g, s) \/ AddCheckIn(g, s) \/ ClearAllCheckIns(g, s) \/ DeleteSession(g, s)
    BY <2>1 DEF PostEvent, AddCheckIn, ClearAllCheckIns, DeleteSession, Arrive, Begin
  <2>2. CASE AdvanceRead(g, s)
    BY <2>2, FaultShowsNothing DEF AdvanceRead
  <2>3. CASE ListCheck(g, s)
    BY <2>3, FaultShowsNothing DEF ListCheck
  <2> QED
    BY <1>2, <2>1, <2>2, <2>3
<1>3. ASSUME NEW g \in Handlers, AdvanceBegin(g) \/ ListSelect(g) \/ DeleteRow(g) \/ Cancel(g)
      PROVE  FALSE
  <2>1. CASE AdvanceBegin(g)
    BY <2>1 DEF AdvanceBegin, Begin
  <2>2. CASE ListSelect(g)
    BY <2>2 DEF ListSelect, Respond
  <2>3. CASE DeleteRow(g)
    BY <2>3, FaultShowsNothing DEF DeleteRow, Respond
  <2>4. CASE Cancel(g)
    BY <2>4, FaultShowsNothing DEF Cancel
  <2> QED
    BY <1>3, <2>1, <2>2, <2>3, <2>4
<1>4. ASSUME NEW g \in Handlers, LockRow(g)
      PROVE  LET t == requests[h]
             IN  {p \in Payloads(audit'[t.sid]) : p.id = t.input.id} = {t.input}
  <2>1. ~ LockNothing(g)
    BY FaultShowsNothing DEF LockNothing
  <2>2. ~ LockApply(g)
    <3> SUFFICES ASSUME LockApply(g) PROVE FALSE
      OBVIOUS
    <3>1. UNCHANGED reply \/ \E cause : Fault(requests[g].op, requests[g].sid, cause)
      BY DEF LockApply
    <3> QED
      BY <3>1, FaultShowsNothing
  <2>3. LockRetry(g) /\ g = h
    BY <1>0, <1>4, <2>1, <2>2 DEF LockRow, LockRetry
  <2> QED
    BY <1>4, <2>3, RetryStands
<1>5. ASSUME NEW g \in Handlers, Commit(g)
      PROVE  LET t == requests[h]
             IN  {p \in Payloads(audit'[t.sid]) : p.id = t.input.id} = {t.input}
  <2>1. g = h
    BY <1>0, <1>5 DEF Commit
  <2> QED
    BY <1>5, <2>1, CommitStands
<1>6. CASE PurgeExpired \/ Restart \/ Tick \/ UNCHANGED vars
  BY <1>6 DEF PurgeExpired, Restart, Tick, vars
<1> QED
  BY <1>1, <1>2, <1>3, <1>4, <1>5, <1>6 DEF Next
-----------------------------------------------------------------------------
(* The theorems.                                                           *)

LEMMA InitGood == Init => TypeOK /\ AllGood
<1> SUFFICES ASSUME Init PROVE TypeOK /\ AllGood
  OBVIOUS
<1>1. <<>> \in Seq(AuditRow) /\ <<>> \in Seq(CheckInRow)
  OBVIOUS
<1>2. reply \in Reply
  BY <1>1 DEF Init, Reply, Ops, Causes
<1>3. TypeOK
  BY <1>1, <1>2 DEF Init, TypeOK
<1>4. 1..Len(<<>>) = {} /\ 2..Len(<<>>) = {}
  OBVIOUS
<1>5. \A s \in Sessions : SessionGood(s)
  BY <1>4 DEF Init, SessionGood, RowGood, LockGood, TrailGood, AllBefore
<1>6. \A h \in Handlers : RequestGood(h)
  BY DEF Init, RequestGood
<1> QED
  BY <1>3, <1>5, <1>6 DEF AllGood

\* Every step keeps the types and everything good, answers with what is committed, lets
\* no late request change an expired session and keeps the contract.
LEMMA NextGood ==
    ASSUME TypeOK, AllGood, [Next]_vars
    PROVE  StepGood
<1>1. ASSUME NEW s \in Sessions, Create(s) \/ Get(s) PROVE StepGood
  BY <1>1, CreateStep, GetStep
<1>2. ASSUME NEW h \in Handlers, NEW s \in Sessions,
             \/ PostEvent(h, s) \/ AddCheckIn(h, s) \/ ClearAllCheckIns(h, s)
             \/ DeleteSession(h, s) \/ AdvanceRead(h, s) \/ ListCheck(h, s)
      PROVE  StepGood
  BY <1>2, SentStep, AdvanceReadStep, ListCheckStep
<1>3. ASSUME NEW h \in Handlers,
             \/ AdvanceBegin(h) \/ ListSelect(h) \/ LockRow(h) \/ DeleteRow(h)
             \/ Commit(h) \/ Cancel(h)
      PROVE  StepGood
  BY <1>3, AdvanceBeginStep, ListSelectStep, LockRowStep, DeleteRowStep, CommitStep, CancelStep
<1>4. CASE Tick
  <2>1. /\ UNCHANGED <<tables, holder, requests, issued, catalog>>
        /\ clock' \in {clock, clock + 1} /\ UNCHANGED reply
    BY <1>4 DEF Tick
  <2> QED
    BY <2>1, ReplyUnchanged, IdleStep DEF TypeOK
<1>5. CASE UNCHANGED vars
  <2>1. /\ UNCHANGED <<tables, holder, requests, issued, catalog>>
        /\ clock' \in {clock, clock + 1} /\ UNCHANGED reply
    BY <1>5 DEF vars, tables
  <2> QED
    BY <2>1, ReplyUnchanged, IdleStep DEF TypeOK
<1> QED
  BY <1>1, <1>2, <1>3, <1>4, <1>5, PurgeStep, RestartStep DEF Next

\* The inductive invariant holds in every reachable state of every instance.
THEOREM Invariance == Spec => []IInv
<1>1. Init => IInv
  BY InitGood, IInvFollows
<1>2. IInv /\ [Next]_vars => IInv'
  <2> SUFFICES ASSUME IInv, [Next]_vars PROVE IInv'
    OBVIOUS
  <2>1. TypeOK' /\ AllGood'
    BY IInvImplies, NextGood DEF StepGood
  <2>2. KeyIsFree'
    BY <2>1 DEF KeyIsFree, AllGood, SessionGood, TrailGood, RequestGood, Prepared, IsRetry
  <2>3. TimesPassed'
    BY <2>1 DEF TimesPassed, AllGood, SessionGood, TrailGood, RequestGood, BeganAfter, Bound
  <2>4. RowsSound' /\ PathFollowsListener' /\ LocksAreHeld' /\ ListedInOrder'
    BY <2>1 DEF RowsSound, PathFollowsListener, LocksAreHeld, ListedInOrder, AllGood,
                SessionGood, RowGood, LockGood, TrailGood, Live
  <2>5. RequestsSound' /\ PreparedByRules'
    BY <2>1 DEF RequestsSound, PreparedByRules, AllGood, RequestGood, SentRight, Prepared
  <2> QED
    BY <2>1, <2>2, <2>3, <2>4, <2>5 DEF IInv
<1> QED
  BY <1>1, <1>2, PTL DEF Spec

\* Every variable keeps its type: tables, locks, requests in flight and replies.
THEOREM TypeCorrect == Spec => []TypeOK
<1>1. IInv => TypeOK
  BY DEF IInv
<1> QED
  BY <1>1, Invariance, PTL

\* No update is lost: what waits for its commit was computed from the row that is still
\* the committed one (SELECT ... FOR UPDATE).
THEOREM NoLostUpdate == Spec => []PreparedOnCurrentRow
<1>1. IInv => PreparedOnCurrentRow
  <2> SUFFICES ASSUME IInv, NEW h \in Handlers, requests[h] # None,
                      requests[h].phase = "locked"
               PROVE  LET t == requests[h]
                      IN  /\ holder[t.sid] = h
                          /\ rows[t.sid] # None
                          /\ t.out.rec.revision = rows[t.sid].revision + 1
                          /\ LockedKept(rows[t.sid], t.out.rec)
    BY DEF PreparedOnCurrentRow
  <2>1. TypeOK /\ AllGood
    BY IInvImplies
  <2> QED
    BY <2>1, CommitFacts DEF Accepted, Succeeds
<1> QED
  BY <1>1, Invariance, PTL

\* A row is locked only by a request that is still there and will end it.
THEOREM LocksCorrect == Spec => []LocksAreHeld
<1>1. IInv => LocksAreHeld
  BY DEF IInv
<1> QED
  BY <1>1, Invariance, PTL

\* The primary key of session_events is never violated by an INSERT.
THEOREM KeyCorrect == Spec => []KeyIsFree
<1>1. IInv => KeyIsFree
  BY DEF IInv
<1> QED
  BY <1>1, Invariance, PTL

\* Sorting by the time a transaction began lists the changes in the order they were made.
THEOREM ListingCorrect == Spec => []ListedInOrder
<1>1. IInv => ListedInOrder
  BY DEF IInv
<1> QED
  BY <1>1, Invariance, PTL

\* The journey ends where it was meant to, and its future follows the listener.
THEOREM PathCorrect == Spec => []PathFollowsListener
<1>1. IInv => PathFollowsListener
  BY DEF IInv
<1> QED
  BY <1>1, Invariance, PTL

\* No response shows a session other than as it is committed.
THEOREM RepliesCorrect == Spec => RepliesAreCommitted
<1>1. IInv /\ [Next]_vars => [ReplyShowsCommitted]_vars
  BY IInvImplies, NextGood DEF StepGood
<1> QED
  BY <1>1, Invariance, PTL DEF Spec, RepliesAreCommitted

\* An event is accepted as it was sent or not at all: who is answered with the session has
\* this payload, and no other under its ID, in the audit.
THEOREM AcceptanceCorrect == Spec => AcceptedAsSent
<1>1. IInv /\ [Next]_vars => [AnswersStandForTheirEvent]_vars
  BY IInvImplies, AnswerStands
<1> QED
  BY <1>1, Invariance, PTL DEF Spec, AcceptedAsSent

\* An expired session changes only by a transaction that began before it expired.
THEOREM ExpiryCorrect == Spec => ExpiryHolds
<1>1. IInv /\ [Next]_vars => [LateChangesBeganEarlier]_vars
  BY IInvImplies, NextGood DEF StepGood
<1> QED
  BY <1>1, Invariance, PTL DEF Spec, ExpiryHolds

\* The PostgreSQL store implements the contract of session.Store, through races, lost
\* connections and restarts.
THEOREM Refinement == Spec => KeepsContract
<1>1. Init => Contract!ContractInit
  <2> SUFFICES ASSUME Init PROVE Contract!ContractInit
    OBVIOUS
  <2>1. \A s \in Sessions : Trail[s] = <<>> /\ CheckedMoods[s] = <<>>
    <3> TAKE s \in Sessions
    <3>1. audit[s] = <<>> /\ checkIns[s] = <<>>
      BY DEF Init
    <3>2. TypeOK
      BY InitGood
    <3>3. /\ Trail[s] \in Seq(Event) /\ Len(Trail[s]) = 0
          /\ CheckedMoods[s] \in Seq(Moods) /\ Len(CheckedMoods[s]) = 0
      BY <3>1, <3>2, TrailType
    <3> QED
      BY <3>3
  <2>2. Trail = [s \in Sessions |-> <<>>] /\ CheckedMoods = [s \in Sessions |-> <<>>]
    BY <2>1 DEF Trail, CheckedMoods
  <2> QED
    BY <2>2 DEF Init, Contract!ContractInit
<1>2. IInv /\ [Next]_vars => [Contract!ContractNext]_(Contract!contract)
  BY IInvImplies, NextGood DEF StepGood, ContractStep, Contract!contract
<1> QED
  BY <1>1, <1>2, Invariance, PTL DEF Spec, KeepsContract, Contract!ContractSpec
=============================================================================

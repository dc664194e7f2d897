------------------------------- MODULE Player -------------------------------
(***************************************************************************)
(* The web player (web/src/App.tsx): one React component, its refs, and    *)
(* the audio element it drives.                                            *)
(*                                                                         *)
(* A handler reads the refs and closures of the last render and queues     *)
(* state updates; a later render shows them, and the effect of that render *)
(* loads the new track.  After a click, a play or a pause event React does *)
(* all of that before the next task (flushing); after the other media      *)
(* events each of the two is a task of its own, and anything may come      *)
(* first.  Queue positions count from 1.  Loudness, search, position and   *)
(* likes are left out, and the mood of a track is only in the choice of    *)
(* plans.                                                                  *)
(***************************************************************************)
EXTENDS Naturals, SequencesExt

CONSTANTS
    Tracks,         \* the catalog, LONG_CATALOG_TRACKS
    Counts,         \* the journey lengths the listener can choose
    FirstQueue,     \* the journey of a page just loaded, planned from fixed moods and no taste
    MaxLength,      \* the longest plan planJourney makes
    HistoryLimit,   \* listening records kept
    MaxTasks        \* bound: no click while this many media events wait

ASSUME PlayerAssumption ==
    /\ IsFiniteSet(Tracks)
    /\ Counts \subseteq 1..MaxLength
    /\ FirstQueue \in Seq(Tracks) /\ FirstQueue # <<>> /\ IsInjective(FirstQueue)
    /\ {MaxLength, HistoryLimit, MaxTasks} \subseteq Nat

VARIABLES
    journey,        \* the journey the next render will show
    shown,          \* the journey of the last render: journeyRef and the closures
    listens,        \* the listening records the next render will hold
    shownListens,   \* those of the last render, also the ones in local storage
    requested,      \* playRequestedRef: the listener wants to hear something
    verified,       \* verifiedRef: the loaded file is a full track
    rejected,       \* rejectedRef: tracks given up
    heard,          \* listenedRef has reached the ten seconds a record needs
    playing,        \* what the page says of the audio
    loading,
    error,          \* the message shown, "" for none
    loaded,         \* the audio element: the track its src names,
    media,          \*   how much of the file has arrived,
    paused,         \*   whether it is paused,
    promise,        \*   whether a play() is waiting for data,
    replayed,       \*   whether one started the track over with its "ended" still queued,
    tasks,          \*   and the media events queued and not delivered
    flushing,       \* React must render before the next task
    rejection       \* a rejected play() whose catch has not run

page  == <<journey, shown, listens, shownListens>>
refs  == <<requested, verified, rejected, heard>>
label == <<playing, loading, error>>
audio == <<loaded, media, paused, promise, replayed, tasks>>
vars  == <<page, refs, label, audio, flushing, rejection>>

Statuses == {"ready", "active", "completed"}
Messages == {"", "blocked", "unavailable", "noJourney"}
Media == {"loading",    \* nothing yet
          "absent",     \* the load failed before the metadata
          "metadata",   \* a full track, length known
          "short",      \* less than four minutes
          "data",       \* can play
          "broken"}     \* failed after the metadata
Events == {"loadedmetadata", "loadedshort", "error", "play", "pause", "pauseAbort", "ended"}
Journeys == [queue : Seq(Tracks), index : Nat \ {0}, status : Statuses]
Records == [track : Tracks, heard : BOOLEAN, completed : BOOLEAN]

\* Every variable has its type; a journey has distinct tracks and points at one of them;
\* nothing but a loaded page is paused with a play() outstanding.
TypeOK ==
    /\ {journey, shown} \subseteq Journeys
    /\ \A j \in {journey, shown} : IsInjective(j.queue) /\ j.index <= Len(j.queue)
    /\ {listens, shownListens} \subseteq Seq(Records)
    /\ \A l \in {listens, shownListens} : Len(l) <= HistoryLimit
    /\ {requested, verified, heard, playing, loading, paused, promise, replayed,
        flushing} \subseteq BOOLEAN
    /\ rejected \subseteq Tracks
    /\ error \in Messages
    /\ loaded \in Tracks /\ media \in Media /\ tasks \in Seq(Events)
    /\ rejection \in {"none", "aborted", "refused"}
    /\ promise => ~paused

Current(j) == j.queue[j.index]

\* makeQueue: any n distinct tracks that are not excluded; none when planJourney throws.
Plans(excluded, n) ==
    IF n > MaxLength THEN {} ELSE {q \in TupleOf(Tracks \ excluded, n) : IsInjective(q)}

\* recordListen: the record of the track shown, added to the records last rendered.
Recorded(completed) ==
    LET all == Append(shownListens,
                      [track |-> Current(shown), heard |-> heard, completed |-> completed])
    IN SubSeq(all, IF Len(all) > HistoryLimit THEN Len(all) - HistoryLimit + 1 ELSE 1, Len(all))

-----------------------------------------------------------------------------
(* The audio element, as far as the handlers can tell (external).          *)

\* audio.pause() rejects a play() that is waiting, in the task of the pause event.
PauseAudio ==
    IF paused THEN UNCHANGED audio
    ELSE /\ paused' = TRUE
         /\ promise' = FALSE
         /\ tasks' = Append(tasks, IF promise THEN "pauseAbort" ELSE "pause")
         /\ UNCHANGED <<loaded, media, replayed>>

\* audio.play(): the browser may refuse it when the listener has not clicked.  A track that
\* has come to its end starts over, and its "ended" no longer stops it.
PlayAudio(waiting) ==
    \/ /\ paused' = FALSE
       /\ promise' = (media # "data")
       /\ tasks' = IF paused THEN Append(waiting, "play") ELSE waiting
       /\ replayed' = (replayed \/ Contains(waiting, "ended"))
       /\ UNCHANGED rejection
    \/ /\ rejection' = "refused"
       /\ tasks' = waiting
       /\ UNCHANGED <<paused, promise, replayed>>

-----------------------------------------------------------------------------
(* Rendering.                                                              *)

\* The effect of the last render has not loaded its track yet.
EffectDue == Current(shown) # loaded
RenderDue == journey # shown \/ listens # shownListens

\* Between tasks: the next one may start.
Idle == ~flushing /\ rejection = "none"

\* The end of a click, a play or a pause event.
Flush == flushing' = (journey' # shown \/ listens' # shownListens \/ EffectDue)

\* Mutant: verifiedRef survives the change of track.
ForgetFileKeepingVerified == heard' = FALSE /\ UNCHANGED verified

\* What was known of the old file.
ForgetFile == verified' = FALSE /\ heard' = FALSE

\* Mutant: the page is not told that the old track stopped.
ShowLoadingKeepingPlaying == loading' = requested /\ error' = "" /\ UNCHANGED playing

\* What the page says of it.
ShowLoading == playing' = FALSE /\ loading' = requested /\ error' = ""

\* The effect of [currentTrack.id]: the old track stops, the new one loads.  Loading drops
\* the queued media events and rejects a waiting play().
RunEffect ==
    /\ EffectDue
    /\ flushing \/ rejection = "none"
    /\ loaded' = Current(shown)
    /\ media' = "loading" /\ paused' = TRUE /\ promise' = FALSE /\ replayed' = FALSE
    /\ tasks' = <<>>
    /\ rejection' = IF promise \/ Contains(tasks, "pauseAbort") THEN "aborted" ELSE rejection
    /\ ForgetFile
    /\ ShowLoading
    /\ flushing' = (flushing /\ RenderDue)
    /\ UNCHANGED <<page, requested, rejected>>

\* A render moves the refs; React runs the effects of the one before it first.
Render ==
    /\ RenderDue /\ ~EffectDue
    /\ flushing \/ rejection = "none"
    /\ shown' = journey /\ shownListens' = listens
    /\ flushing' = (flushing /\ Current(journey) # loaded)
    /\ UNCHANGED <<journey, listens, refs, label, audio, rejection>>

\* The catch of audio.play() runs before the next task.
PlayRejected ==
    /\ ~flushing /\ rejection # "none"
    /\ rejection' = "none"
    /\ requested' = FALSE /\ loading' = FALSE /\ error' = "blocked"
    /\ UNCHANGED <<page, verified, rejected, heard, playing, audio, flushing>>

-----------------------------------------------------------------------------
(* Handlers shared by clicks and events.                                   *)

\* requestPlayback, with the events that stay queued and whether the file is verified.
RequestPlayback(waiting, isVerified) ==
    /\ requested' = TRUE /\ loading' = TRUE /\ error' = ""
    /\ IF isVerified THEN PlayAudio(waiting) /\ UNCHANGED media
       ELSE /\ IF media \in {"loading", "absent"}   \* readyState 0: load again
               THEN tasks' = <<>> /\ media' = "loading"
               ELSE tasks' = waiting /\ UNCHANGED media
            /\ UNCHANGED <<paused, promise, replayed, rejection>>
    /\ UNCHANGED <<loaded, playing>>

\* Mutant: tracks given up before are tried again.
NextInQueue == {i \in 1..Len(shown.queue) : i > shown.index}
NextUsable == {i \in 1..Len(shown.queue) :
                 /\ i > shown.index
                 /\ shown.queue[i] \notin rejected \cup {Current(shown)}}

\* The journey shown, at another of its tracks.
GoTo(i) == [queue |-> shown.queue, index |-> i, status |-> "active"]

\* audioFailure: give the track up and go on with the next one that is not.
AudioFailure ==
    IF Current(shown) \in rejected THEN UNCHANGED <<journey, requested, rejected, label>>
    ELSE /\ rejected' = rejected \cup {Current(shown)}
         /\ IF NextUsable # {}
            THEN /\ requested' = TRUE
                 /\ journey' = GoTo(Min(NextUsable))
                 /\ UNCHANGED label
            ELSE /\ requested' = FALSE
                 /\ playing' = FALSE /\ loading' = FALSE /\ error' = "unavailable"
                 /\ UNCHANGED journey

-----------------------------------------------------------------------------
(* Clicks.                                                                 *)

Click == Idle /\ Len(tasks) < MaxTasks

PressPlay ==
    /\ Click /\ ~playing
    /\ RequestPlayback(tasks, verified)
    /\ UNCHANGED <<page, verified, rejected, heard>>
    /\ Flush

\* pausePlayback
PressPause ==
    /\ Click /\ playing
    /\ requested' = FALSE /\ loading' = FALSE
    /\ PauseAudio
    /\ UNCHANGED <<page, verified, rejected, heard, playing, error, rejection>>
    /\ Flush

\* Start a track: again when it is the one shown, else the effect will load it.
Start(sameTrack) ==
    IF sameTrack THEN RequestPlayback(tasks, verified)
    ELSE requested' = TRUE /\ UNCHANGED <<label, audio, rejection>>

\* moveTo: a row of the queue, Previous or Next.
MoveTo(i) ==
    /\ Click
    /\ i \in 1..Len(shown.queue)
    /\ listens' = IF i # shown.index THEN Recorded(FALSE) ELSE listens
    /\ journey' = GoTo(i)
    /\ Start(i = shown.index)
    /\ UNCHANGED <<shown, shownListens, verified, rejected, heard>>
    /\ Flush

\* playCatalogTrack: a track that is not queued goes in behind the current one.
PlayCatalogTrack(t) ==
    /\ Click
    /\ listens' = IF t # Current(shown) THEN Recorded(FALSE) ELSE listens
    /\ journey' =
         IF Contains(shown.queue, t)
         THEN GoTo(SelectInSeq(shown.queue, LAMBDA u : u = t))
         ELSE [queue |-> InsertAt(shown.queue, shown.index + 1, t),
               index |-> shown.index + 1, status |-> "active"]
    /\ Start(t = Current(shown))
    /\ UNCHANGED <<shown, shownListens, verified, rejected, heard>>
    /\ Flush

\* buildJourney: the audio is paused first, also when no journey can be made.
BuildJourney(n) ==
    /\ Click
    /\ PauseAudio
    /\ requested' = FALSE
    /\ \/ /\ Plans(rejected, n) = {}
          /\ error' = "noJourney"
          /\ UNCHANGED journey
       \/ \E q \in Plans(rejected, n) :
             /\ journey' = [queue |-> q, index |-> 1, status |-> "ready"]
             /\ error' = ""
    /\ UNCHANGED <<shown, listens, shownListens, verified, rejected, heard, playing, loading,
                   rejection>>
    /\ Flush

-----------------------------------------------------------------------------
(* Media events delivered.                                                 *)

Deliver(event) == Idle /\ tasks # <<>> /\ Head(tasks) = event
Delivered == tasks' = Tail(tasks) /\ UNCHANGED <<loaded, media, paused, promise, replayed>>

OnPlay ==
    /\ Deliver("play") /\ Delivered
    /\ playing' = TRUE /\ loading' = FALSE /\ error' = ""
    /\ UNCHANGED <<page, refs, rejection>>
    /\ Flush

OnPause ==
    /\ Deliver("pause") \/ Deliver("pauseAbort")
    /\ Delivered
    /\ playing' = FALSE
    /\ rejection' = IF Head(tasks) = "pauseAbort" THEN "aborted" ELSE rejection
    /\ UNCHANGED <<page, refs, loading, error>>
    /\ Flush

OnError ==
    /\ Deliver("error") /\ Delivered
    /\ AudioFailure
    /\ UNCHANGED <<shown, listens, shownListens, verified, heard, flushing, rejection>>

\* loadedMetadata of a file too short.
OnShortMetadata ==
    /\ Deliver("loadedshort") /\ Delivered
    /\ AudioFailure
    /\ UNCHANGED <<shown, listens, shownListens, verified, heard, flushing, rejection>>

\* loadedMetadata of a full track.  Mutant: a request made meanwhile is not carried out.
StayQuiet ==
    /\ Delivered
    /\ loading' = FALSE
    /\ UNCHANGED <<requested, playing, error, rejection>>
WhenVerified == IF requested THEN RequestPlayback(Tail(tasks), TRUE) ELSE StayQuiet
OnMetadata ==
    /\ Deliver("loadedmetadata")
    /\ verified' = TRUE
    /\ WhenVerified
    /\ UNCHANGED <<page, rejected, heard, flushing>>

\* Mutant: the tracks up to the current one are not excluded.
ReplannedFromAll(locked) ==
    LET paths == Plans(rejected, Len(shown.queue) - Len(locked))
    IN IF paths = {} THEN {shown.queue} ELSE {locked \o q : q \in paths}
Replanned(locked) ==
    LET n == Len(shown.queue) - Len(locked)
        paths == Plans(rejected \cup ToSet(locked), n)
    IN IF paths = {} THEN {shown.queue} ELSE {locked \o q : q \in paths}

\* ended: the listened track is recorded and the tracks after it are planned anew; the old
\* ones stay when the catalog cannot supply a path.
OnEnded ==
    /\ Deliver("ended")
    /\ tasks' = Tail(tasks)
    /\ IF replayed THEN UNCHANGED <<paused, promise>> ELSE paused' = TRUE /\ promise' = FALSE
    /\ playing' = FALSE
    /\ listens' = Recorded(TRUE)
    /\ \/ /\ shown.index = Len(shown.queue)
          /\ requested' = FALSE
          /\ journey' = [shown EXCEPT !.status = "completed"]
       \/ /\ shown.index < Len(shown.queue)
          /\ requested' = TRUE
          /\ \E q \in Replanned(SubSeq(shown.queue, 1, shown.index)) :
                journey' = [queue |-> q, index |-> shown.index + 1, status |-> "active"]
    /\ UNCHANGED <<shown, shownListens, verified, rejected, heard, loading, error, loaded, media,
                   replayed, flushing, rejection>>

-----------------------------------------------------------------------------
(* What the network and the browser do to the audio element (external).    *)

Arrives(newMedia, event) ==
    /\ media' = newMedia
    /\ tasks' = Append(tasks, event)
    /\ replayed' = (replayed /\ event # "ended")
    /\ UNCHANGED <<page, refs, label, loaded, paused, promise, flushing, rejection>>

\* The first bytes arrive, of a full track or a short one, or the load fails.
LoadEnds ==
    /\ Idle /\ media = "loading"
    /\ \/ Arrives("metadata", "loadedmetadata")
       \/ Arrives("short", "loadedshort")
       \/ Arrives("absent", "error")

\* Enough data to play: a waiting play() succeeds.  Or the transfer fails after all.
DataArrives ==
    /\ Idle /\ media = "metadata"
    /\ media' = "data" /\ promise' = FALSE
    /\ UNCHANGED <<page, refs, label, loaded, paused, replayed, tasks, flushing, rejection>>
TransferFails ==
    /\ Idle /\ media \in {"metadata", "short", "data"} /\ ~Contains(tasks, "ended")
    /\ Arrives("broken", "error")

\* The track plays on past ten seconds, and to its end.
TimeUpdate ==
    /\ Idle /\ media = "data" /\ ~paused /\ ~heard
    /\ heard' = TRUE
    /\ UNCHANGED <<page, requested, verified, rejected, label, audio, flushing, rejection>>
TrackEnds ==
    /\ Idle /\ media = "data" /\ ~paused /\ ~Contains(tasks, "ended")
    /\ Arrives("data", "ended")

-----------------------------------------------------------------------------
FirstJourney == [queue |-> FirstQueue, index |-> 1, status |-> "ready"]

\* The page after its first render and effect; local storage is empty.
Init ==
    /\ journey = FirstJourney /\ shown = journey
    /\ listens = <<>> /\ shownListens = <<>>
    /\ requested = FALSE /\ verified = FALSE /\ rejected = {} /\ heard = FALSE
    /\ playing = FALSE /\ loading = FALSE /\ error = ""
    /\ loaded = Current(journey) /\ media = "loading" /\ paused = TRUE /\ promise = FALSE
    /\ replayed = FALSE /\ tasks = <<>> /\ flushing = FALSE /\ rejection = "none"

\* The listener reloads the page: only the records in local storage remain.
Reload ==
    /\ Idle
    /\ journey' = FirstJourney /\ shown' = FirstJourney
    /\ listens' = shownListens /\ UNCHANGED shownListens
    /\ requested' = FALSE /\ verified' = FALSE /\ rejected' = {} /\ heard' = FALSE
    /\ playing' = FALSE /\ loading' = FALSE /\ error' = ""
    /\ loaded' = Current(FirstJourney) /\ media' = "loading" /\ paused' = TRUE /\ promise' = FALSE
    /\ replayed' = FALSE /\ tasks' = <<>> /\ UNCHANGED <<flushing, rejection>>

Listener ==
    \/ PressPlay \/ PressPause \/ Reload
    \/ \E i \in 1..Len(shown.queue) : MoveTo(i)
    \/ \E t \in Tracks : PlayCatalogTrack(t)
    \/ \E n \in Counts : BuildJourney(n)
React == RunEffect \/ Render \/ PlayRejected
MediaEvents == OnPlay \/ OnPause \/ OnError \/ OnShortMetadata \/ OnMetadata \/ OnEnded
Browser == LoadEnds \/ DataArrives \/ TransferFails \/ TimeUpdate \/ TrackEnds

Next == Listener \/ React \/ MediaEvents \/ Browser
Spec == Init /\ [][Next]_vars

\* React renders and browsers deliver events in the end; a load ends with a length or an
\* error, the wait for data with data or an error, and a track that plays comes to its end.
\* Nothing is asked of the listener.
Fairness ==
    /\ WF_vars(React) /\ WF_vars(MediaEvents)
    /\ WF_vars(LoadEnds)
    /\ WF_vars(media = "metadata" /\ (DataArrives \/ TransferFails))
    /\ WF_vars(TrackEnds)
FairSpec == Spec /\ Fairness

-----------------------------------------------------------------------------
(* Properties.                                                             *)

\* Only a full track sounds: the audio element is never playing a file whose length was not
\* checked after it was loaded, whatever loads, failures and clicks came before.
OnlyFullTracksSound ==
    ~paused => verified /\ media \in {"metadata", "data", "broken"}

\* Once no event is queued, the page says "playing" exactly when the audio plays, whatever
\* order the clicks and the events came in.  A file that broke on the way may be unpaused and
\* silent, and a track started over at its very end plays on while the page says it stopped.
PageTellsAudio ==
    tasks = <<>>
        => /\ playing => ~paused
           /\ ~paused /\ media # "broken" /\ ~replayed => playing

\* What the player does by itself keeps the tracks up to the current one, and moves on only
\* to a track not given up, unless the catalog cannot supply a path.
AdaptsAhead ==
    [][OnError \/ OnShortMetadata \/ OnEnded =>
        LET past == SubSeq(shown.queue, 1, shown.index) IN
        /\ IsPrefix(past, journey'.queue)
        /\ Len(journey'.queue) = Len(shown.queue)
        /\ \/ Current(journey') \notin rejected'
           \/ journey'.index = shown.index
           \/ Plans(rejected \cup ToSet(past), Len(shown.queue) - shown.index) = {}]_vars

\* Left alone, the page comes to rest: a requested playback goes on, track by track, until
\* the journey is completed, the browser refuses to play or no usable track is left, each
\* of which withdraws the request.  Only a track that was given up before leaves it waiting.
ComesToRest ==
    <>[][~Listener]_vars => <>[](~requested \/ Current(shown) \in rejected)

-----------------------------------------------------------------------------
(* The inductive invariant.                                                *)

\* A queued report of a load speaks of the file that is loaded now, and nothing sounds, or is
\* said to, of a file that was not verified.
FileKnown ==
    /\ verified \/ Contains(tasks, "loadedmetadata") => media \in {"metadata", "data", "broken"}
    /\ Contains(tasks, "loadedshort") \/ Contains(tasks, "error")
         => media \in {"absent", "short", "broken"}
    /\ ~paused \/ playing \/ Contains(tasks, "play") => verified

\* What the page will say when the events ts are delivered to a page that says p.
Stops == {"pause", "pauseAbort", "ended"}
WillSay(ts, p) ==
    \/ p /\ \A i \in 1..Len(ts) : ts[i] \notin Stops
    \/ \E i \in 1..Len(ts) : ts[i] = "play" /\ \A k \in (i + 1)..Len(ts) : ts[k] \notin Stops

\* The queued events tell the page of every change it has not heard of.
PageCatchesUp ==
    /\ WillSay(tasks, playing) => ~paused
    /\ ~paused /\ media # "broken" /\ ~replayed /\ ~Contains(tasks, "ended")
         => WillSay(tasks, playing)
    /\ \A i, k \in 1..Len(tasks) :
          i < k /\ tasks[i] = "ended" /\ tasks[k] = "play" => replayed

\* A journey not yet rendered, outside a flush, is one the player made by itself from the
\* journey shown.
AdaptsShown ==
    LET past == SubSeq(shown.queue, 1, shown.index) IN
    ~flushing =>
        /\ IsPrefix(past, journey.queue)
        /\ Len(journey.queue) = Len(shown.queue)
        /\ \/ Current(journey) \notin rejected \cup {Current(shown)}
           \/ journey.index = shown.index
           \/ Plans(rejected \cup ToSet(past), Len(shown.queue) - shown.index) = {}

IInv == TypeOK /\ FileKnown /\ PageCatchesUp /\ AdaptsShown

-----------------------------------------------------------------------------
(* Statements of the repository the code does not keep.                    *)

\* "Playback failure is a player state, not proof that the track was disliked":
\* buildTasteProfile counts a record under ten seconds that is not completed as a dislike.
FailureIsNotDislike ==
    [][~RenderDue /\ ~EffectDue =>
        \A r \in ToSet(listens') \ ToSet(listens) :
            ~r.heard /\ ~r.completed => r.track \notin rejected']_vars

\* "Browser playback was blocked" is said of a play() the browser refused.
BlockedMeansRefused == [][error' = "blocked" /\ PlayRejected => rejection = "refused"]_vars
=============================================================================

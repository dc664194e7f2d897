# Verification of dream-music

TLA+ models of the listening sessions of dream-music, checked with TLC on small
instances and, where it matters most, proved with TLAPS for instances of any size.
Paths below are relative to the repository; `file.go:10` is a line of it.

## The system

dream-music plans a queue of tracks along a path from the listener's mood to a target
mood and replans the part still to come whenever the listener gives feedback.

| Component | State | Operations | Talks to |
|---|---|---|---|
| Session rules, `internal/session/feedback.go` | none: pure functions of a `Record` and its event history | `applyEvent`, `applyCheckIn`, `clearCheckIns`, `replan` | planner, catalog |
| In-memory store, `internal/session/memory_store.go` | four maps behind one mutex: records, events, check-ins, results | `Create`, `Get`, `ApplyEvent`, `ListEvents`, `AddCheckIn`, `ListCheckIns`, `ClearCheckIns`, `DeleteSession`, `PurgeExpired` | session rules |
| PostgreSQL store, `store.go`, `feedback_store.go`, `schema.sql` | three tables, rows removed by cascade | the same, as transactions with a row lock | session rules, database |
| Listening API, `internal/session/http.go` | none | one handler per route; `advance` is two store calls | store, planner, catalog, mood service |
| Planner, `internal/sequence/sequence.go` | none | `Build`: a beam search over at most 20 candidates | ranker |
| Ranker, `internal/taste/rank.go` | none | `Rank`: affinity from likes, listens and skips | catalog |
| Catalog, `internal/taste/catalog.go` | tracks read at startup; audio files on disk | `LoadCatalog`, `ValidateCandidates`, `OpenAudio` | file system |
| Server process, `cmd/listening-app/main.go` | the chosen store | start, hourly purge | all of the above |
| Web player, `web/src/App.tsx`, `web/src/data/*.ts` | React state and refs, `localStorage` | playback callbacks, journeys, mood detection | audio element, mood route |
| Mood service, `mood_service/` | a model loaded at startup | `POST /predict` | - |
| Evaluation, `internal/evaluation`, `cmd/*-eval` | none | offline metrics | planner, ranker |

`PROJECT.json` lists every component with its status, the hazards with the lines where
they bite, and which property covers which.

### What is hard

* **Concurrency.** Requests for one session interleave at store calls. `advance` reads
  the record with one call and sends an event with another, with nothing held between
  (`http.go:168`, `http.go:182`). PostgreSQL requests queue on a row lock.
* **Retries.** Event IDs are idempotency keys. A retry may arrive after any number of
  other changes and must be recognised, answered from today's record, and refused when
  its payload differs.
* **Replanning.** Every accepted event but `start` rebuilds the queue behind the
  current track. What was played must stay, no track may appear twice, the path must
  still end at the target, and a deleted check-in must steer nothing.
* **Partial failure.** A replan fails when a chosen audio file is gone, after the copy
  of the record was already changed.
* **Expiry.** A session expires between two calls of one request, or before a retry.
* **Restarts, cancellation, commits without an answer**, waits for rows and connections
  (PostgreSQL only).
* **The audio element.** The page asks for playback and hears of it by events that other
  clicks, loads and failures may drop; its refs belong to the last render.
* **Search and ranking.** A beam that prunes, weights that saturate, ties, reserved picks.

### What makes each component correct

* Rules and stores: audit trail, queue, position, status and check-ins tell one story;
  a revision is spent once; what was played stays; an expired session is only removed.
* API: a reply shows the session as stored; a client that goes on gets to the end.
* Planner: distinct tracks, one path, the best of the sequences its beam keeps.
* Ranker: bounded affinities, duplicates count once, exclusions excluded, feedback moves a
  track the way it says, exploration and cold starts keep their shares.
* Player: only verified tracks sound, the page says what the audio element does, the played
  part of a journey stays, and playback ends in the end or says why it stopped.
* Study report: every row once, like compared with like.

## The modules

| Module | Models |
|---|---|
| `SessionRules` | `feedback.go`, with what it needs of the planner and the ranker |
| `SessionProperties` | what is true of one record and its two trails, whichever store keeps them |
| `MemoryStore` | the session routes of `http.go` over `memory_store.go` |
| `PostgresStore` | the same routes over `store.go`, `feedback_store.go` and `schema.sql` |
| `SessionContract` | what `session.Store` promises, whichever store it is |
| `ListeningClient` | a client of the API, a second tab and failing files, over `MemoryStore` |
| `Player` | `App.tsx` and the audio element it drives |
| `BeamSearch` | `Build` of `internal/sequence/sequence.go`, slot by slot |
| `TasteRank` | `Rank` of `internal/taste/rank.go`, event by event and pick by pick |
| `StudyAnalysis` | `AnalyzeStudy` of `internal/evaluation/study.go`, row by row |
| `MC...` | constants, inputs, view and symmetry for TLC |
| `SessionRulesProofs` | lemmas: what each rule preserves, for either store |
| `MemoryStoreProofs`, `PostgresStoreProofs` | the invariants of the stores, that they implement the contract, and that the client implements the in-memory store |
| `PlayerProofs` | the invariant of `Player` |
| `Sums` | lemmas: folds and sums over finite sets do not depend on an order |
| `BeamSearchProofs`, `TasteRankProofs`, `StudyAnalysisProofs` | the algorithms, for inputs of any size |

### SessionRules

The Go functions return a new record or an error. Here each is the *set* of outcomes it
may return: `ApplyEvent`, `ApplyCheckIn`, `ClearCheckIns` and `Replan` keep the order of
the code's checks (revision before content for an event, content before revision for a
check-in) and name the error as a `cause`. The sets have several members because
`Selections` abstracts the beam search to any choice of distinct tracks that are not
excluded. `Buildable` keeps the refusals of `Rank` and `Build`: an unknown track among the
exclusions or the last `HistoryLimit` events, or too few candidates.

Abstracted data: a mood is a value, and a point of the path between two moods is the
record of its ends and its place, so rounding to four decimals is left out; the track's
metadata, reasons and scores are left out; the checks on an event that look at nothing but
the event and the clock (ID, time, listened seconds) are one bit, `wellFormed`. The
catalog is never larger than the ranker's limit of 20 candidates.

### MemoryStore

`records`, `events`, `checkIns` and `results` are the four maps, total functions with
`None` or `<<>>` for a missing key. `issued` are the session IDs drawn, `expired` the
sessions whose `ExpiresAt` has passed, `playable` the tracks whose file is valid now,
`workers` the advance requests between their two store calls, `reply` the last response.

A store operation holds the mutex from its first read to its last write, so it is one
action together with the handler around it: `Create`, `Get`, `PostEvent`, `ListEvents`,
`AddCheckIn`, `ListCheckIns`, `ClearAllCheckIns`, `DeleteSession`. `advance` is
`AdvanceRead` and `AdvanceApply`. `PurgeExpired`, `Expire` and `AudioChanges` happen
without a request. `StoreEvent` is `MemoryStore.ApplyEvent`: unknown or expired session,
retry (`Retry`), or the rules and the three writes (`Accept`).

`MemoryStore` has no client. Any request may arrive with any revision, track and event ID,
which covers stale tabs, retries, duplicates and reordering. Random IDs (`crypto/rand`) are fresh.

### PostgresStore

`rows`, `audit` and `checkIns` are the committed contents of the three tables, `expires`
the column of that name, `holder` the row locks, `requests` the requests between two
statements, `clock` the database's clock, `catalog` what the server read when it started.

A change is a transaction of three actions: it begins (`PostEvent`, `AddCheckIn`,
`ClearAllCheckIns`, or `AdvanceBegin` after the separate read of `AdvanceRead`), which takes
a connection and fixes `now()`; it gets the row (`LockRow`), which executes the statements
up to the commit; and it commits (`Commit`), which makes everything visible, frees the row
and the connection, and answers, or loses the answer. The statements between lock and
commit read and write only what the lock protects, so they are one step. `LockRow` is
`LockNothing` (no such row, or expired when the transaction began), `LockRetry` or
`LockApply`. `DeleteSession` and `DeleteRow` are a single DELETE that may wait for a row;
`ListCheck` and `ListSelect` are the two statements of a list call. At any of these points
`Cancel` may happen (the client leaves, the connection breaks: deferred `Rollback`) or
`Restart` (all transactions are gone, another catalog is read, `Open` purges).

Three things are said of the surroundings. A client names a session and a revision only
after the server has shown them (`issued`, `Shown`); `ListedInOrder` needs that. A commit
takes at least one tick of the clock, so that a transaction that begins after an answer has
a later `now()`. Which audio files are valid is chosen each time it is asked.

Left out: the schema migration, rows written by older builds (no target; results that
hold a session), `retention_days` (one `Retention` for all), the taste input, that the
purge holds a connection while it waits (its context ends it after ten seconds), and a
broken connection in `Get` or a list call, which changes nothing.

### SessionContract

A session is opened, accepts an event, a check-in or the deletion of its check-ins, and
is closed, each in one step. Retries, refusals and the planner are left out: the queue
behind the current track may become anything that repeats no track. Both stores carry a
refinement mapping (`Contract == INSTANCE SessionContract WITH ...`) and the property
`KeepsContract`. In `MemoryStore` a request takes effect in the step that holds the mutex; in
`PostgresStore` at its commit, and the columns the contract does not know are dropped.

### ListeningClient

`docs/PHASE_5.md:30` tells a client to reload the session after a conflict. `screen` is the
revision it shows, `None` when it has to refresh: it opens a session (`Open`), reloads it
(`Refresh`), asks for the next track with `advance` at that revision (`Advance`, then
`Answered`), and shows the answer unless it was lost. `Others` are a second tab with
events, check-ins and an advance of its own (until revision `OthersUntil`), deletion,
expiry, the purge, and an audio file that comes and goes. All of them are the actions of
`MemoryStore`, so the composition adds a caller and no store behaviour. Of the random IDs
not in use, an advance draws one that stands for all (`DrawsOne`).

### Player

`App.tsx` is one React component. A handler reads the refs and closures of the last render
and queues state updates: `journey` and `listens` are the state, `shown` and `shownListens`
what the last render saw. `Render` moves the refs, `RunEffect` is the effect of
`[currentTrack.id]`, which loads the track. After a click, a play or a pause event React
does both before the next task (`flushing`); after the other media events each is a task of
its own, and a click or another event may come first. Clicks are `PressPlay`, `PressPause`,
`MoveTo`, `PlayCatalogTrack` and `BuildJourney`; the media events are `OnPlay`, `OnPause`,
`OnError`, `OnMetadata` (`OnShortMetadata` for a file of the wrong length) and `OnEnded`;
`Reload` is a page refresh. `planJourney` is any choice of distinct tracks not excluded, or
none.

The audio element is external and modelled as far as the handlers can tell: which file is
loaded and how much of it (`media`), `paused`, a `play()` that waits for data (`promise`),
the events queued and not delivered (`tasks`), and whether a `play()` started the track over
while its "ended" was still queued (`replayed`). `load()` drops queued events and, like
`pause()`, rejects a waiting `play()`; the `catch` of that rejection is `PlayRejected`.

### BeamSearch, TasteRank, StudyAnalysis

Three loops over one input, as state machines that take one round per step, so that the
properties can be stated of every partial result and not only of the last.

* `BeamSearch`: `FillSlot` extends every partial sequence by every track of the pool, sorts
  and keeps `Width` of them. Scores are integers, in thousandths times the steps of the path.
  Moods are on the diagonal of the mood plane, where `distance` is a difference.
* `TasteRank`: `TakeEvent` and `TakeDuplicate` are the loop over the events, `Pick` the loop
  of the candidates. Weights, similarities and scores are integers in the units named in the
  module, and rounding is the code's own. The hash that breaks ties while exploring is any
  value: `Explored` are the unseen tracks that come first for some user.
* `StudyAnalysis`: `TakeRow` is a row that passes the checks against those before it, `Refuse`
  one that does not, `Report` the paired summaries. `addStudyRow` is `AddRow`, and a fold over
  the rows stands for the loop at the end. A mood change is one number for the two axes.

The definitions marked *Mutant* are slips the code could have had. Nothing uses them; each is paired in `PROJECT.json` with a property that
fails when it takes the place of the definition below it, so that no property is vacuous.

## What the runs check

| Run | Question | Result |
|---|---|---|
| `memory_feedback` | one session, every sequence of events, retries, check-ins, deletions and expiry | holds |
| `listening_client` | two advance requests interleaved with everything else; does the journey end? | holds |
| `postgres_race` | two transactions with waits, cancellation, lost answers, expiry, deletion and purge | holds |
| `postgres_restart` | restarts with another catalog, damaged audio, requests cut off anywhere | holds |
| `postgres_waits` | three requests, two connections and one row: does each end? | yes |
| `player` | clicks, media events, renders and effects in every order | holds |
| `beam_search` | does the beam ever run dry, and is its answer the best? | never; unless it pruned |
| `taste_rank` | weights, monotony of feedback, exploration, cold start | holds |
| `study_analysis` | does the report account for each row once, however rows come? | holds |
| `listed_after_delete` | is a list call for a deleted session answered with 404? | not if it was deleted between Get and SELECT: 200, empty list |
| `player_blocked` | is "Browser playback was blocked" said of a browser that refused? | also of a `play()` the page itself rejected |
| `player_dislike` | is a playback failure kept out of the taste profile? | not when the listener moves on from it |

### Where code and documentation disagree

The last three runs each show one disagreement, and `PROJECT.json` quotes the lines. `player_blocked`
is a bug: pressing Next while a track buffers may leave the next one silent. Further ones
were found while modelling; the models follow the code, and no run is spent on them:

* An event for a track that is not being played is answered with 400 (`feedback.go:89`,
  `http.go:379`), where `docs/contracts/API.md:39` says 409.
* Over the in-memory store a bad coordinate is answered with 503 (`memory_store.go:151`),
  where `docs/contracts/API.md:37` says 400. The PostgreSQL store wraps the error.
* The in-memory store lists events and check-ins of an expired session until the next
  purge (`memory_store.go:167`); `docs/PHASE_6.md:18` lets them end at the expiry.
* The in-memory store keeps a full session snapshot in every result
  (`memory_store.go:121`); `docs/PHASE_6.md:9` says a result has none. No reply shows one:
  `RepliesAreCurrent` holds.
* After a page refresh the web player starts with the default journey (`App.tsx:43`);
  `docs/PHASE_5.md:3` says it resumes. `Player!Reload` models what it does.
* An evaluation case reports a cold start by the lists of its request
  (`evaluation.go:263`), the ranker decides it after dropping unsupported genres
  (`rank.go:163`); see `docs/PHASE_3.md:27`. `evaluateCase` is not modelled.

### Properties

The properties, with the hazard each is about:

* `AuditMatchesQueue`: replanning rewrites slots whose tracks were audited, or the position drifts from the trail.
* `AuditInRevisionOrder`: two requests for one revision are both accepted.
* `RetriesRecognised`: a retry is applied a second time.
* `StatusAgrees`: position, status and last action disagree at the end of the queue or after a replay.
* `CheckInAgrees`, `FutureFollowsListener`: a deleted or superseded check-in still steers.
* `QueueSound`, `DestinationKept`: a replan repeats a track or loses the target.
* `NoOrphans`: deletion leaves an audit behind.
* `LockedStaysLocked`, `RepliesAreCurrent`, `ExpiredStaysFrozen`: a step moves a played slot, an answer is put together from an old session, a late write reaches an expired one.
* `KeepsContract`: a request takes effect in two steps, or half of it, or after its client was told that it failed and the row was given away.
* `JourneyCompletes`: a refused replan leaves the session in a state that refuses every further one, or conflicts with a second tab never end.

And over PostgreSQL, where `KeepsContract` also stands for the properties above that concern
one change (one revision, played slots, check-ins and rows that go together):

* `PreparedOnCurrentRow`: a transaction commits what it computed from a row that has changed since (a lost update).
* `LocksAreHeld`: a request ends and its row stays locked.
* `KeyIsFree`: a retry runs into the primary key instead of finding the first attempt.
* `ListedInOrder`: `accepted_at`, a begin time, orders the events differently from the revisions.
* `PathFollowsListener`: after a restart with fewer tracks the target is lost or a deleted check-in steers.
* `RepliesAreCommitted`: a client is told of a change that was rolled back.
* `AcceptedAsSent`: two requests with one event ID and different payloads wait for the row, and the second is answered as if its own payload had been accepted; or an answer is given for an event that is not in the table.
* `ExpiryHolds`: a transaction that begins after `expires_at` changes the session.
* `EveryRequestEnds`: requests that hold connections and wait for rows, and requests that hold rows and wait for connections, wait for each other.

Over the player:

* `OnlyFullTracksSound`: a file sounds whose length was not checked after it was loaded, because a ref outlived the track it spoke of.
* `PageTellsAudio`: an event was dropped with the file it came from, and the page shows "playing" over silence or the reverse. It exempts a track started over at its very end: `OnEnded` may then leave it playing while the page says that it stopped.
* `AdaptsAhead`: the player, adapting by itself, rewrites the part already played or moves to a track it gave up.
* `ComesToRest`: a request made before the metadata came is forgotten, and playback waits for ever.

Over the algorithms:

* `NeverStarves`, `OptimalUnlessPruned`: the beam keeps only sequences without a successor; sort, prune or penalty lose the best queue (the reference is the maximum over all queues).
* `WeightsAreSums`: repeated events or their order change the weights, or stated likes break the cap.
* `FeedbackIsMonotone`: a like moves the mean of every track and lowers the one it was for.
* `ExplorationKept`, `ColdStartCoversGenres`: the reserved picks starve, repeat a track, or exceed the pool; one genre crowds out the rest.
* `ReportAddsUp`: rows of participants who dropped out, or came in an odd order, are counted twice, not at all, or on one side of a comparison only.

### Bounds

* One session: sessions share no key of any map, so a second one adds only interleavings
  of independent steps. The proofs are for any number.
* `MaxRevision` is 4 in `memory_feedback` (three accepted changes): no request is accepted
  at that revision. Three changes pass a queue of three to its end, or hold a check-in, a
  move and a deletion in any order.
* Queues of one to three tracks from a catalog of four: one track has no future, two have
  the one-track case of `replan`, three have a path of two. A queue of five is refused.
* `HistoryLimit` is 2, so that the cut of the history is taken.
* No advance request and two client IDs in `memory_feedback`; in `listening_client` two
  advance workers, one of each tab, and one client ID. All files are valid in the first,
  one (`damaged`) comes and goes in the second.
* `listening_client`: a queue of three from a catalog of three, so that a replan always needs
  the damaged file until it is played. The second tab may change the session until revision
  2, and `MaxRevision` 5 leaves the client its three steps behind that (`ClientAssumption`).
* Tracks, client IDs, server IDs and workers are symmetric: the rules compare them for
  equality only. `TrackMood` gives every track a mood of its own, so a permutation of the
  tracks permutes their moods.
* The view leaves out `reply`, which no action reads; action properties are checked on
  every step, seen before or not.

* `postgres_race`: two requests in flight are two transactions on one row, or one against
  an advance between its calls, a deletion, a list call or a purge; a third would only
  join the queue. Three tracks, `MaxRevision` 4, `MaxClock` 4 and `Retention` 2: no request
  arrives at the last tick, but the ones begun before go on. `SentTypes` and `SentForms`
  are reduced there to a move and a like, well formed: every type and form is in
  `memory_feedback`, where the rules are the question.
* `postgres_restart`: one request in flight, since a restart ends them all; a queue of
  three in catalogs of four tracks and of any three of them (`OneLost`).
* `postgres_waits`: three requests for one session, `PoolSize` 2 in place of the code's 8, and
  a queue of one track: what waits matters, not what is written. Two requests may hold both
  connections with the third waiting for one, and compete for the row. The requests are
  advance, clear, delete and list, so that each kind of wait occurs; only `FreeConnection` stands
  between a request and its first connection, and a request that still waits for it has not
  arrived. No symmetry and no
  view, which liveness does not allow.
* `player`: three tracks and journeys of two, so that a catalog can supply another path, or
  none once tracks are given up; a third track can be queued in between. No click while three
  media events wait (`MaxTasks`): with two, no "ended" could wait before a pause and a play, the
  case `PageTellsAudio` exempts. `HistoryLimit` 0, since no property there reads a listening
  record; `player_dislike` keeps one.
* `beam_search`: four tracks and a beam of twelve, in place of 20 and 128: the plans of three
  and four tracks (24 sequences) are pruned and those of one and two (12) are not. Every
  grouping by two genres, two moods and two taste scores, with ties.
* `taste_rank`: six tracks. Two events reach a cap from a stated like, and pairs of events tell
  order and duplicates; answers of one, three and six have a reservation of none, one and two.
* `study_analysis`: four rows, one more than a complete participant has, of two participants.

Deadlock is checked where something can always happen: a request in `MemoryStore` and for its
client, a restart in `PostgresStore`, a click in `Player`. The three algorithms end.

### Fairness

Three runs assume some, and none that a user does anything.

* `postgres_waits` (`FairSpec`): a request that can again and again have a connection
  (`AdvanceBegin`, `ListSelect`) or the row (`LockRow`, `DeleteRow`) gets it at some time
  (`Proceed`): strong fairness, because `database/sql` hands connections to its waiters first
  come first served and PostgreSQL queues for a row lock likewise. A transaction that has the
  row commits or is cancelled: weak fairness, because the statements left depend on nobody.
  `Cancel`, `Restart`, `Tick` and the purge are not fair.
* `listening_client` (`ClientSpec`): weak fairness of the client's own steps, that is, of a
  client that goes on, and of a refresh whose answer arrives. Answers to `advance` may all be
  lost. The conclusion also assumes that the damaged file is restored for good.
* `player` (`FairSpec`): React renders what is due, the browser delivers queued events, a load
  ends with a length or an error, a waiting file with data or an error, and a track that
  plays with its end. Clicks are not fair; `ComesToRest` asks what happens once they stop.

## What is proved

Every safety property the passing runs check is also a theorem, for every value of the
constants. Each component has an inductive invariant `IInv`, and its theorem `Invariance` says
`Spec => []IInv` (`InitSound`, `StepSound` or the like for the two halves); invariants follow
from it directly, action properties from one more step. TLC has checked each `IInv` on the instances
of the runs.

The assumptions are those of the modules: types and bounds of the constants, finite catalogs,
and that `None` is no record, result, mood, move, request or cohort. The code has `nil` or a
missing row there.

| Theorems | Property |
|---|---|
| `MemoryStoreProofs!TypeCorrect`, `AuditCorrect`, `RevisionOrderCorrect`, `RetriesCorrect`, `QueueCorrect`, `CheckInCorrect`, `NoOrphansCorrect`, `StatusCorrect`, `DestinationCorrect`, `FutureCorrect` | the invariants |
| `LockedCorrect`, `RepliesCorrect`, `ExpiryCorrect` | `LockedStaysLocked`, `RepliesAreCurrent`, `ExpiredStaysFrozen` |
| `ClientImplements`, `ClientSafe` | `ListeningClient` implements `MemoryStore`, and so keeps its properties |
| `Refinement` | `KeepsContract`: `MemoryStore` implements `SessionContract` |
| `PostgresStoreProofs!TypeCorrect`, `NoLostUpdate`, `LocksCorrect`, `KeyCorrect`, `ListingCorrect`, `PathCorrect` | `TypeOK`, `PreparedOnCurrentRow`, `LocksAreHeld`, `KeyIsFree`, `ListedInOrder`, `PathFollowsListener` |
| `RepliesCorrect`, `AcceptanceCorrect`, `ExpiryCorrect`, `Refinement` | `RepliesAreCommitted`, `AcceptedAsSent`, `ExpiryHolds`, `KeepsContract` |
| `PlayerProofs!TypeCorrect`, `SoundCorrect`, `PageCorrect`, `AdaptCorrect` | `TypeOK`, `OnlyFullTracksSound`, `PageTellsAudio`, `AdaptsAhead` |
| `BeamSearchProofs!StarvationFree`, `BestUnlessPruned` | `NeverStarves`, `OptimalUnlessPruned`; `AnswerFound` is about the path answered |
| `TasteRankProofs!TypeCorrect`, `WeightsCorrect`, `ExplorationCorrect`, `ColdStartCorrect`, `FeedbackCorrect` | all five |
| `StudyAnalysisProofs!ReportCorrect` | `ReportAddsUp` |

### The arguments

**Rules.** `SessionRulesProofs` shows what a successful rule does to one record and its trails
(`EventKeeps`, `CheckInKeeps`, `ClearKeeps`, all through `ReplanKeeps`), and what one more entry
does to the count of moves (`MovesAppend`). Both stores use these lemmas.

**In-memory store.** `IInv` adds `RecordsSound` to the invariants. None of them is inductive
alone. That the trail matches the queue after an event needs the current slot to be the one the
event names, hence `PositionOK` and a queue without repeated tracks; that it still matches after
a replan needs the locked slots to stay; that a retry is not accepted twice needs results and
trail to agree; that a new session starts with empty trails needs `NoOrphans`, and that its ID
was never used needs `issued`. `OneSessionChanges` reduces every action to the one session it
touches.

**PostgreSQL store.** The heart is `PreparedByRules`: from the moment a request gets the row to
its commit, nothing it read can change, so what waits for its commit is what the rules make of
the row, trail and catalog as they are *then*, however long ago they were read. `LocksAreHeld`
is needed for it and needs it. `ListedInOrder` needs a fact about time, `TimesPassed`: a request
for the current revision began after all that is in the tables, because a client learns of a
revision only from an answer. `KeyIsFree` follows from the look for a retry under the lock, and
`AcceptedAsSent` from both: a commit adds the first row of its ID, a retry finds the only one
(`CommitStands`, `RetryStands`).

**Refinement.** For either store, initial states map to initial states of `SessionContract` and
every step to a step or to no change: the step that holds the mutex, or the commit. That
`ListeningClient` implements `MemoryStore` (`ClientImplements`) carries every theorem about the
store over to a client, a second tab and failing files.

**Player.** Two facts make it inductive. A queued report of a load speaks of the file loaded
now, because `load()` drops what was queued (`FileKnown`). And the events that wait tell the
page of every change it has not heard of: `WillSay` is what the page will say once they are
delivered, and `PageCatchesUp` relates *that* to the audio element, not what the page says now.
A journey not rendered yet is, outside a flush, one the player made from the journey shown
(`AdaptsShown`). The proof of `PageTellsAudio` failed at first, for a good reason: with
`MaxTasks` = 2 the run could not reach an "ended" that waits while the track is paused and
started over; `replayed` names that case.

**Planner.** The order of the sort is a strict total order of the partial sequences of one slot,
so ranks are different, at most `Width` are kept, and the first always is; sequences shorter
than the pool always have an extension. `TotalsExact` says that the total of a sequence, which
grows slot by slot, is the score of the whole; `Exhaustive`, that the beam holds every sequence
of its length until something is dropped. The first in the order is then the best.

**Ranker.** A weight is the sum of what the different events add to it, cut once at its cap:
cutting at every step gives the same, since all terms have one sign. `ReserveKept` and
`GenresEven` are what the picks so far owe to the shares at the end. For `FeedbackIsMonotone`:
one minus the similarity is a metric (`Metric`), so no history lets a track lead another by
more, per weight, than a like of that track adds to its lead (`AffinityLead`). A like therefore
moves the mean lead towards the greatest there can be, and a lead there was stays (`LikeKept`);
a skip is the mirror image (`SkipKept`).

**Study report.** While it reads, the running summaries are those of the rows so far
(`CountsKept`), which are kept under their participant and strategy without repeating an order
(`RowsKept`). A participant with three rows therefore has one for every strategy and one for
every order.

**Sums.** The library's induction over finite sets takes an operator as a parameter, which no
installed prover can instantiate. `Sums` uses a least counterexample instead: a smallest subset
that fails (`SmallestSubset`, strict inclusion is well founded). With it, that a fold exists, is
unique and may take its elements in any order is proved for sums of numbers (`SumStep`,
`SumAdd`, `SumBound`) and for the summaries of the study (`FoldIsSummary`).

### Only model-checked

`EveryRequestEnds`, `JourneyCompletes` and `ComesToRest`: liveness under fairness, which needs
`ENABLED`, is out of the provers' reach. The three disagreements are counterexamples of TLC.

## Plan

Done: the rules, both stores, their contract, a client, the web player, the planner, the ranker
and the study report; every safety property they are checked for, proved; and both refinements.

Left: a second look at what the theorems do not say, above all the parts of the handlers that
are not modelled: the quality report of the planner, popularity in the ranker.

## Not modelled

* WAV parsing and path checks, JSON decoding, the mood classifier, training and data
  preparation scripts, command lines and report formatting: I/O, libraries or one-shot
  programs with no state to get wrong.
* `Baseline` (`sequence/compare.go`), ranking metrics and the bootstrap
  (`evaluation.go`), `planJourney`'s greedy scores: arithmetic on one input, which tests reach.
* `detectMood` (`App.tsx:153`): two answers may come in either order and the later one wins;
  nothing in the repository says which should. It feeds only the choice of a plan.
* The seek slider, and a pause or play from outside the page (media keys, the system): `Player`
  has the page's buttons, its own calls and the events of the audio element.
* The store chosen at startup (`main.go:41`): one branch before any request; each store is
  modelled on its own.
* Popularity counts and size checks of the ranker, moods off the diagonal and the 1e-12
  tolerance of the planner's sort: see the heads of `TasteRank` and `BeamSearch`.

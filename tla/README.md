# SpatialScore, specified in TLA+

SpatialScore watches a venue through cameras, recognises registered participants,
scores their activities and reports sponsor booth visits.  It is a set of processes
that share a PostgreSQL database, a Redis server and two files.  This directory holds
TLA+ models of those processes, TLC configurations that check the models on small
instances, and TLAPS proofs that the safety properties the runs check hold for instances of
any size.

Paths below are relative to the repository; `workers/x.py:10` is short for
`src/backend/workers/x.py:10`.

## 1. The system

```
cameras -> camera worker (one per camera) --XADD--> activity_stream, sponsor_stream   (Redis)
                |  ^ reloads                              |
                |  `-- faiss index + embedding_map.json   v
                |            ^ writes            scoring worker --> PostgreSQL (scores, logs, visits)
                v            |                            |    `--> Redis (leaderboard, hashes, cursors)
         zone_occupancy   API process <-- HTTP            `--publish--> scores_updated
                `-----> heatmap worker --> PostgreSQL (snapshots, alerts), Redis (current, alerts)
```

| Component | State it keeps | Operations | Interacts through | What is hard |
|---|---|---|---|---|
| Scoring worker, activity flush (`workers/scoring_worker.py`, `core/scoring_engine.py`) | pending batch in memory; cursor `scoring_last_id`; scores, ranks, logs; leaderboard, hashes | one flush per interval | reads `activity_stream`, one transaction per participant, cursor last | crash between transactions and cursor; failed tail that is retried from memory *and* stream; trimming; eviction |
| Scoring worker, sponsor flush (`core/sponsor_processor.py`, `core/sponsor_aggregation.py`) | visits, hourly engagement, cursor `sponsor_last_id` | apply entry and exit events, auto-close sweep, hourly upsert | reads `sponsor_stream` and `activity_logs`, one transaction per batch | replays after a crash or an eviction, a session that does not autoflush, poison events, sweep against late exits |
| Scoring configuration (`api/config.py`, `core/scoring_engine.py`) | `scoring_config` rows, worker's copy | update, notify, reload; minutes, points, tags | Redis pub/sub, a listener thread | lost notification, dead thread, reload in mid-flush |
| Face index (`core/face_matcher.py`, `api/registration.py`, `api/participants.py`) | vectors and position map in the API, two files, `embedding_id` rows | register, opt out, save, load, rollback | event loop, files read by cameras | awaits between check, add and commit; positions that shift; two files written in place under their readers |
| Camera worker (`workers/camera_worker.py`, `utils/stream.py`, `core/identity_linker.py`) | tracks, identities, zones, line crossings, heartbeat | process a frame, reconnect, reload zones, reload faces | both streams, occupancy, files, pub/sub | reconnection, reused track ids, overlapping bodies, a listener thread that swaps objects under a frame |
| Heatmap worker and alerts (`workers/heatmap_worker.py`, `core/alert_engine.py`) | snapshots, cooldowns, zone ages, alerts | one cycle per interval, five rules | occupancy hash, PostgreSQL, Redis list | cooldown before delivery, early returns, partial failure |
| Scores API and cache (`api/scores.py`) | `leaderboard` cache keys | read, compute, store, invalidate; score cards | pub/sub subscriber | a store after the invalidation, changes nobody announces |
| WebSockets (`api/websocket.py`, `api/ws_manager.py`) | connections by channel | connect, disconnect, broadcast, push | subscriber tasks, handlers | an await between count and addition, sockets that die silently, tasks that die |
| Zones API (`api/zones.py`, `utils/zone_db_loader.py`, `scripts/sync_venue_config.py`) | zones | create, update, delete, synchronise, load | cameras and scoring worker join zones by name, `zones_updated` | check then delete, renames, fall back to the file, a start without PostgreSQL |
| Exports (`api/export.py`) | none | paged reads | inserts of the workers | OFFSET pages |
| Health, cameras, metrics, analytics, tracking, venues, sponsors, authentication | none of their own | reads | heartbeats, tables | staleness only |
| Detectors and recognisers, PDF layout, dashboard, migrations | - | - | - | numerical or presentational |

What makes each component correct:

* activity flush: no event the worker could read disappears without a row or a message; the
  cursor never goes back; repetition is bounded; leaderboard and ranks follow the scores; every
  event is acknowledged in the end.
* sponsor flush: an acknowledged entry has its visit; a closed visit stays closed; visits
  and hourly rows change together; visits end; the stream is never stuck.
* face index: nobody is in the index twice; map and index fit; a committed participant
  can be found from the files; cameras converge to the files.
* alerts: a silenced rule has spoken; what is shown is stored; what is said is true; a
  lasting condition is reported again.
* scoring configuration: a flush pays by configurations the worker had meanwhile; the last
  one saved is used in the end; minutes, tags and score card agree.
* cameras: names and sides do not pass from one body to another; crossings are real; a
  camera that is up is shown as up; zones converge to the database.
* zones: nothing is logged in a zone that does not exist or never was there.
* leaderboard and sockets: the cache does not stay out of date; connections are bounded,
  known and released; whoever stays connected ends up with the last value.

The process environment matters for fairness and faults: every worker has
`restart: always` in `docker-compose.yml`, Redis runs with
`--maxmemory-policy allkeys-lru` (`docker-compose.yml:33`), and the scoring and heatmap
workers are single loops, besides the listener threads of cameras and scoring worker.  The API is
one event loop.

## 2. Modules

| Module | Kind |
|---|---|
| `ScoringWorker` | activity flush, with camera, Redis and PostgreSQL |
| `ActivityLedger` | abstract: an at-least-once ledger whose oldest events expire, implemented by `ScoringWorker` |
| `ScoringWorkerProofs` | theorems about `ScoringWorker` |
| `SponsorVisits` | sponsor flush |
| `SponsorVisitsProofs` | theorems about `SponsorVisits` |
| `FaceIndex` | registration, opt-out, files, cameras' reload |
| `FaceIndexProofs` | theorems about `FaceIndex` |
| `HeatmapAlerts` | heatmap cycle and alert rules |
| `HeatmapAlertsProofs` | theorems about `HeatmapAlerts` |
| `CameraStream` | a camera's stream, heartbeat and what the health endpoint shows |
| `CameraTracks` | inside a frame: track numbers, names, entrance lines |
| `CameraProofs` | theorems about `CameraStream` and `CameraTracks` |
| `VenueZones` | zones from the API and the file to cameras, occupancy, and the activity log |
| `VenueZonesProofs` | theorems about `VenueZones` |
| `ScoringConfig` | scoring configuration, its reload, and what a flush pays, tags and shows |
| `ScoringConfigProofs` | theorems about `ScoringConfig`, and a theory of sums over finite sets |
| `LiveBoard` | leaderboard cache, subscriber tasks, WebSockets |
| `LiveBoardProofs` | theorems about `LiveBoard` |
| `MC...` | constants of the runs |

Definitions whose name begins with `Slip` are plausible mistakes in the code (an
acknowledgement too early, a missing shift...).  They are not part of any specification;
`PROJECT.json` ("mutants") says which definition each replaces and which property
notices.

### ScoringWorker

`stream`, `cursor`, `leaderboard`, `liveScore`, `status` are Redis; `score`, `ranked`,
`logs` PostgreSQL; `pending`, `pendingLast`, `batch`, `batchLast`, `todo`, `processed`
the variables of `_flush_once`; `pc` says where the flush stands.  An entry's id is its
position.  One action per step between which the process can die or another process
acts: read (`BeginFlush`, `FlushEmpty`), per participant the hash write
(`FlushParticipant`) and the commit (`CommitParticipant`), then `UpdateRanks` (ranks and
ZADDs in one transaction), `SetCursor`, `FinishFlush`.  Failures: a refused
transaction before or after the hash write, an exception anywhere in the tail (with any
prefix of the ZADDs done), the death of the process anywhere, and what Redis does on its own:
`XADD` trims the oldest entries (`db/redis_sync.py:39`), and memory pressure evicts the cursor's
key or the whole stream (`EvictCursor`, `EvictStream`).

Abstractions: the score counts flush intervals, because
`aggregate_events_by_participant` (`core/scoring_engine.py:79`) always shares exactly one
interval among a participant's activities, however many events the batch holds; weights,
minimum dwell, tags and the seven minute columns are in `ScoringConfig`.  `inZone` says whether
PostgreSQL knows the event's zone name.  Two histories tell apart how an event may end without
a row: `dropped`, events given up with a log message (refused, malformed, of an unknown zone),
and `overrun`, events that left the stream before the cursor had passed them, which nobody in
the code notices and nothing logs.  The other keys Redis may evict (the leaderboard, the
participants' hashes, the status) are not evicted in the model.

### SponsorVisits

`session` is the visits as Python objects, `rows` as flushed to the transaction: the
session factory sets `autoflush=False` (`db/sync_database.py:38`), so a query filters on
`rows`.  `CrossLine` and `SeeInBooth` are the cameras; `FlushActivities` stands for the
whole activity flush (module `ScoringWorker`), of which only "the booth activity seen so
far is now logged" matters here.  An orphan is a participant in the face index whose row
was never committed (`FaceIndex!FailCommit`); its entry violates a foreign key and rolls
the batch back.  `engagement` is `total_visits` per sponsor and hour; other columns of
the row are computed the same way and are left out, and so are dwell seconds.
`EvictCursor` takes `sponsor_last_id`, at any time, so that the stream is read again from its
beginning.  The stream itself is assumed to stay below its MAXLEN and not to be evicted; what
that loses, the silent loss of unread events, is in `ScoringWorker`.

### FaceIndex

Handlers run on one event loop, so an action reaches from one await to the next; `save()`
has no await and nothing of the API runs in the middle of it (`saving`), but a crash or
a camera may come at any point: `save()` truncates a file and writes it in place, whatever its
docstring says (`core/face_matcher.py:76`), so its four steps are actions (`BeginSave`,
`WriteIndex`, `OpenMap`, `WriteMap`) and a file is `torn` from its opening to its closing; until
the next `save()` if the write fails in between (`AbandonSave`), for good if the process dies.
`load()` raises on a torn file: a camera dies and is started again, until the file is whole
(`Die`); an API that starts on one stays down (`api`).  A read of a whole file is one step: a camera that has opened a
file while the API truncates it is taken to find it torn, or to have read it before.  A
vector is named by the registration that added it, so it is visible whose vector a removal
takes.  Positions count from 1.  `diskVectors`, `diskOwner` and two write counters are the
files and their modification times.

### HeatmapAlerts

`ttl` is the time to live of the cooldown keys, `full` and `empty` the ages of
`zone_high_since` and `zone_empty_since`, up to the half hour (`Sustain`) from which on they
make no difference.  `Walk` is the walk of a check over the zones, which returns at its
first hit and does not look at the zones behind.  `CheckRule` is one round of
`evaluate_alerts`; `Persist`, `Push` and `FailPersist` are `_persist_alert`; `AbortCycle`
is any exception `run` catches, or a restart.  Occupancy and energy level are inputs, read
anew by every cycle.  `Limit` is a zone's capacity in the snapshot, where 0 becomes 50
(`capacity or 50`, `db/sync_database.py:164`, `core/heatmap_snapshot.py:25`).

### CameraStream

The generator of `utils/stream.py` and the loop of `CameraWorker.run` over it: `pc` says
whether the worker opens the stream, reads, has a frame in hand, pauses, is dead (Docker
restarts it) or off (stopped).  `shown` and `age` are `camera_status:<id>`, `Health` is what
`api/health.py:71` makes of them, and `sinceFrame` is a history: what operators want to know.
`retries` is only ever compared with `MaxRetries` and stops there; ages stop where nothing
tells them apart any more.  A death of the process stands for anything that raises in
`_process_frame`.  After a stop, Docker's SIGKILL can find a worker without frames or in its
pause, never one that receives frames: inference takes far less than the grace period.
Tracker, identities and lines inside a frame are in `CameraTracks`, zones in `VenueZones`.

### CameraTracks

`track`, `missed` and `fresh` are what supervision's ByteTrack does for
`core/person_tracker.py`, modelled from its use: a body seen again within the buffer keeps its
number.  `identity` is `IdentityLinker._cache`, `crossing` the `LineZone`'s memory of sides,
`lines` whether the entrance line is loaded.  A frame (`_process_frame`) is one action with its
parts in the order of the code: `Follow`, `UpdateIdentities` every `Interval` frames,
`CrossLines`.  Where the boxes are is an input: `holds` says in whose boxes the centre of each
face found lies.  `_match_face_to_body` chooses among these by the overlap with their upper
halves (`core/identity_linker.py:101`), which may be highest for the wrong one of two
overlapping bodies: `MatchFaceToBody` allows any of them, and several faces on one number leave
it the name of the last.  That a face is recognised as its owner's is assumed; a false match is
the recogniser's, an external model.  What is remembered of a number carries the body it was
learned of, the `generation` of the tracker, and whether the face lay in its own body's box
only (`face`); the code has none of them, the properties need all.  The smoother of
supervision, which may keep a lost detection for some frames, is left out.

### VenueZones

`saved` is the table, `request` each administrator's handler between its steps (read, commit,
refresh and publish), `view` the camera's classifier, `listener`, `notices` and `loading` its
thread, `stream` and `flush` one activity event and the name map of the flush that takes it.
`Loaded` is `load_zones_from_db` with its fallback: no zone, or one polygon that cannot be
read, and the file counts; `LoadZones` takes the file too when PostgreSQL does not answer, at
the start of a camera as in a reload (`workers/camera_worker.py:124`).  `AbandonReload` is a
reload that raises, after which the thread goes on with the zones it had.  The worker's map
takes one of several zones of a name, any one.  `had` and `missed` are histories; `missed` says
that the camera was not told of an edit, or could not read the zones when it was.

### ScoringConfig

`saved`, `config`, `listener`, `notices` and `loading` are as in `VenueZones`; `flush` is one
participant's turn, in the steps between which the thread may assign a new configuration:
`apply_min_dwell`, `calculate_period_points`, the transaction.  The functions of
`core/scoring_engine.py` are operators of the same names over whole seconds: `Minutes`,
`ApplyMinDwell`, `PeriodPoints`, `MinuteDeltas`, `MergeMinutes`, `AssignTags`; the score card's
`Radar` and `Breakdown` are fractions, so that nothing is rounded.  The night owl's and the
cross-pollinator's tag are left out: they depend on the hour and on a set in Redis.

### LiveBoard

One channel of four kinds: the leaderboard and the heatmap have a subscriber task that
broadcasts, a participant's page is pushed by its handler only, a camera's boxes by a
subscription of the handler.  `task` is the subscriber with the copy a broadcast works on;
`conns` is the manager's set and `accepting` the client for which its lock is held while
`accept()` is awaited; `handler` is where each socket's coroutine stands.  `late` marks a cached
leaderboard that was read before an invalidation and stored after it.  Values are numbers
that grow, with every change a reader would see.  Those of a flush are announced (`scored` is the
value after the last of them); an opt-out, a registration and a camera that finds somebody
elsewhere change what `api/scores.py:98` returns too, and nobody announces them (`WriteQuietly`).
Handlers do not read from their sockets, so a client that is gone is noticed by
the next send.  Redis may fail `ws_tracking` in its loop (`TrackingFails`) or only in its `finally`,
after the browser left (`LeaveFails`).  `/ws/alerts` is the heatmap without its first message.

## 3. Runs

| Run | Shows | Bounds, and why they are enough |
|---|---|---|
| `scoring` | `NoSilentLoss`, `Amplification`, `LeaderboardAgrees`, `AtLeastOnce` (refinement of `ActivityLedger`), `EventuallyAcked` | 3 participants (one malformed, one may fail, one may not), 2 events, read one by one or again from memory on top; a page (`ReadCount`) of 1, so that a read may leave a backlog, and a stream (`StreamMax`) of 1, so that events are trimmed read and unread; each fault once, in any combination; all but `EventuallyAcked` are proved for all sizes |
| `sponsor_safety` | `EntriesKept`, `HoursHaveRows`, `ExitAfterEntry`, `ClosedIsFinal` | 3 events: two visits and an exit, or a visit closed twice, over two batches; a participant and an orphan; 1 crash, 1 rollback and 1 eviction of the cursor; two hours; all four are proved for all sizes |
| `sponsor_liveness` | `EventuallyApplied`, `EventuallyClosed` | 2 events one at a time, a well-formed and a malformed sponsor; 1 crash, 1 rollback and 1 eviction; cameras stop at `Closing` so that the sweep has its chance before the clock's bound |
| `face_safety` | `OneVectorPerFace`, `MapFitsIndex` | 3 registrations, two with the same face; 2 opt-outs at once; any 2 faults, a torn file among them; people with the same part to play are symmetric; no camera, since these two say nothing of cameras; both are proved for all sizes |
| `face_durable` | `CommittedIsOnDisk`, `CamerasNameRight`, `EventuallyFresh` | 3 registrations, 1 camera (cameras do not interact), 2 failing commits or crashes, in mid-write too; the first two are proved for all sizes |
| `face_optout` | violated: an opt-out leaves the embedding | 2 people, no fault |
| `alerts_safety` | `CooldownMeansTold`, `ListedIsStored`, `FirstZoneSustained`, `FullZoneKeepsAlerting` | a hall and a mentoring area without a capacity (so 50): every rule fires; 1 fault; cooldowns of a tick, of two for a full zone; half an hour is one tick; the first three are proved for all sizes |
| `camera_status` | `ActiveMeansFrames`, `FramesMeanActive`, `RecoveryShows`, `ShutdownShows` | a tick of 2 seconds and the code's own values: heartbeat 10 s, stale after 30 s, pauses up to 16 s, 5 retries; outages without bound, 2 deaths, 2 stops; the invariants are proved for all periods and limits |
| `camera_tracks` | `MemoryFits`, `CrossingsAreReal`, `NameHeals`, `TypeOK` | 2 people, whose numbers can be swapped and whose boxes may overlap; `Reach`: one crosses and stops on the line, the other comes and goes on one side, so that a wrong name shows at the other's crossing; 2 numbers and 1 reconnection, after which they are given again; recognition every second frame, a buffer of one frame; all but `NameHeals` are proved for all sizes |
| `venue_zones` | `StaleIsAnnounced`, `LogsAreSound`, `EmptyZonesShowZero` | 2 zones, one in the file and one a booth, 2 names, an area that can be read and one that cannot; 2 edits by 2 administrators, so that they meet on one row; 1 fault, which may be a start without PostgreSQL; the safety properties are proved for all sizes |
| `scoring_config` | `FlushPays`, `CardAgrees`, `ConfigConverges`, `TypeOK` | 4 activities, two in one column; weights and dwells 1 and 2, an interval of 2, so that a share is below, at and above the dwell; 2 edits, 2 flushes of up to 2 events, 2 faults; all but `ConfigConverges` are proved for all sizes |
| `live_board` | `LimitHolds`, `OpenIsKnown`, `StaleIsRemoved`, `EventuallyShown`, `GoneAreForgotten` | 2 clients and a limit of 1, so that the limit bites and places are reused; one new value, announced or quiet, and two announcements; 1 error of Redis or PostgreSQL anywhere; all four channels; the safety properties are proved for all sizes |

Every fault has a budget (`Budget`, `MaxCrashes`, `MaxStops`, `MaxFaults`, `MaxResets`),
streams, clocks, edits and values a bound (`MaxEvents`, `MaxTime`, `MaxEdits`, `MaxPuts`,
`MaxFlushes`, `MaxBatch`, `MaxTracks`, `Reach`, `MaxValue`, `MaxNotices`); these are the only
bounds.  `CHECK_DEADLOCK FALSE` is set for `FaceIndex` alone: when every registration and
opt-out is over nothing is left to do.

### Fairness

`Work` of a worker is weakly fair: the loop has no exit but shutdown, and Docker restarts the
process.  Nothing is assumed of single steps: `WF_vars(Work)` asks for some step of the loop
while one is possible, and every fault may interrupt it until its budget is used up.  Time
passes (`WF_vars(Tick)`).  A camera looks at the files before every frame
(`core/identity_linker.py:51`) and frames keep coming: `WF_vars(Camera(c))`.  The source of
`CameraStream` comes and goes as it likes; its liveness properties say what they ask of it. In
`VenueZones` the camera sees an empty hall again and again (`Frame(None, FALSE)`); in
`ScoringConfig` a handler that has begun and a thread that lives go on; `CameraTracks` has no
fairness, and `NameHeals` names what it needs.  `LiveBoard` needs strong fairness of the
subscriber and the handlers, because they wait for the manager's lock, which asyncio gives in
the order of arrival; cache entries expire and the heatmap worker goes round.  A camera owes
nobody a frame, it may be down or not exist: what handlers that wait for frames must do in the
end is said under the premise `FramesGoOn`.  No fairness is assumed of people, edits, HTTP
requests or faults.

### What limits the properties

* `NoSilentLoss` and `AtLeastOnce` except what leaves the stream unread (`overrun`): the loss of
  these events is silent.  What the ledger adds is that an `XADD` takes none of the newest
  `StreamMax` entries and that nothing but an `XADD` or the eviction of the stream takes any;
  `EventuallyAcked` excepts them as well.
* `LeaderboardAgrees` excludes failed tails combined with crashes: a crash forgets the
  pending batch, and when the failed tail had already moved the cursor nobody refreshes
  the leaderboard for it.  It also excludes refused participants and trimmed events.
* `Amplification`: a batch kept back is read from the stream again on top, and the next
  failed tail keeps back both copies: with F faults one event may be logged
  1 + 2 + ... + (F+1) times, and TLC reaches more than F + 1.
* `ExitAfterEntry` excludes crashes and evictions of the cursor: a replayed batch inserts the
  visit a second time and an earlier exit of the batch closes the first.  `dwell_seconds` is
  then cut to 0.
* `EventuallyClosed` says that all visits are closed from some time on, and not that a visit
  stays closed: an entry read again opens a visit of its own (`ClosedIsFinal` says the rest).
* `MapFitsIndex` excludes restarts: a crash between the two files loads a pair that does
  not fit.
* `CommittedIsOnDisk` and `CamerasNameRight` are checked without opt-outs, failing flushes and
  failing saves: all of these remove vectors, and may remove somebody else's (`face_optout`, and
  below), and positions that are given a second time are what a camera between the two
  files would mistake.  `CommittedIsOnDisk` speaks of whole files, and says that a file is torn
  only while it is written or after a crash in mid-write; from a torn one nobody can be
  recognised, and `EventuallyFresh` asks for whole files too.
* `EventuallyApplied` is checked without orphans, see below.
* `MemoryFits` and `CrossingsAreReal` speak of one generation of the tracker: after a
  reconnection the old names and sides do meet new bodies, see below.  Of names they speak only
  where the face lay in no other body's box: where bodies overlap a name may pass, see below.
  That a crossing is one, from the side the body was last seen on, holds in any case.
* `NameHeals` asks for a person in sight whose face is found, in their own box only, again and
  again, and into whose box no other face comes any more.
* `StaleIsAnnounced` (zones) and `ConfigConverges` (scoring) except what was missed: a notice
  is lost when nobody listens or Redis fails, and nothing repeats it; the zones could not be read
  at the camera's start or in a reload, and nothing tries again.  `missed` is set back by
  the next reload that reads the database.
* `EmptyZonesShowZero` asks for a zone of that name in the camera's view; counts of renamed
  and deleted zones stay.
* `StaleIsRemoved` speaks of the scores of flushes: quiet changes (`WriteQuietly`) never empty the
  cache.  It excepts entries stored late (`late`).  The code has no protection against either but
  the TTL.
* `EventuallyShown` needs the subscriber for the heatmap only; the others are pushed.  A camera's
  boxes need frames.
* `GoneAreForgotten` excepts handlers of a camera that Redis failed before they could free their
  place (`failed`: in the loop, or in the `finally` after the browser left), and the heatmap when
  its subscriber is dead.  A handler of a camera without frames notices nothing.
* `FirstZoneSustained` and `CooldownMeansTold` hold without faults, the former of the first zone.

### Behaviour to know of

One disagreement of code and documentation is a run (`face_optout`, see `PROJECT.json`,
"findings").  The following came up while modelling and can be reproduced with the models
by writing the property down; they are not runs.

Scoring worker:

* Events that XADD trims, or Redis evicts, before they are read are lost without any message:
  the worker does not compare the first id it reads with its cursor
  (`db/redis_sync.py:39`, `workers/scoring_worker.py:87`).
* A crash between the commit and the cursor credits the same interval twice
  (`workers/scoring_worker.py:248`).
* The default minimum dwell of 120 s is above the flush interval of 60 s, and a share is compared
  with it flush by flush: such activities never score (`core/scoring_engine.py:118`).
* A flush reads the configuration twice and may use the dwells of one and the weights of the next.
* A zone deleted between the name map and the insert makes the participant's transaction
  fail; its points are given up with its log rows.
* The "points" of a score card are minutes, without weights, and do not add up to the total
  score (`api/scores.py`).
* A camera event writes score 0 into the participant's hash (`workers/camera_worker.py:437`),
  which the WebSocket and tracking endpoints read, until the next flush.

Sponsor visits:

* When Redis evicts `sponsor_last_id` (`docker-compose.yml:33`) the whole stream is applied again:
  visits are inserted a second time, and old exits close newer visits.
* An hour's row is overwritten by the totals of the last flush that touched the hour
  (`db/sync_database.py:384`).
* Entry, exit and entry in one batch: the close is not flushed when `count_completed_visits`
  counts, and both visits get number 1 (`db/sync_database.py:270`, `:316`).
* The sponsor flush runs before the activity events of the same cycle are logged
  (`workers/scoring_worker.py:116`), so the sweep may close the visit of somebody who was
  seen in the booth within the last half hour.
* An orphan's entry makes every later sponsor flush roll back; the cursor stays for ever.
* The list of top visitors unpacks records of three fields into two names
  (`core/sponsor_report.py:106`): the report fails as soon as a visit is closed.

Faces and cameras:

* `save()` is not atomic, as its docstring says (`core/face_matcher.py:76`): a crash in mid-write
  leaves a torn file, on which the API does not start and every camera dies again and
  again, until somebody repairs it (`main.py:97`, `workers/camera_worker.py:165`).
* Of two overlapping bodies the wrong one may get a name (`core/identity_linker.py:118`), and its
  crossings and activities go to that participant until the next recognition.
* SIGTERM is handled from the end of the constructor on (`workers/camera_worker.py:537`): while
  models and indexes load it ends the process without a heartbeat, which the model has no stage
  for.
* A camera that starts without PostgreSQL works with the file's zones until the next edit of a
  zone is announced (`workers/camera_worker.py:124`); nothing tries again.
* Two registrations in progress: when the first one's `db.flush()` fails,
  `rollback_last_add` removes the other's vector (`api/registration.py:147`).
* SIGTERM while a camera's stream is down is not noticed (`workers/camera_worker.py:483`): the
  worker is killed and its last heartbeat says `active`, then stale, never `shutdown`.  This is
  why `ShutdownShows` asks for frames.
* After an opt-out, a camera that loads between the two files of `save()` pairs a new index
  with an old map until its next reload (`core/face_matcher.py:79`).
* The statuses `reconnecting` and `error` are set while no heartbeat is sent, and overwritten
  before the next one (theorem `OutageUnpublished`).
* After a reconnection numbers start again while names, sides and poses remembered of the old
  ones stay (`workers/camera_worker.py:472`); nothing calls `clear_track` or `drop_track`.  An
  opt-out does not take the name from a track under way.
* When PostgreSQL fails during a reload all entrance lines go, and the zones are those of the
  file, until the next announcement (`workers/camera_worker.py:124`, `:135`).
* `set_camera_frame` sets and expires in two calls; a camera that dies in between leaves its last
  frame for ever (`db/redis_sync.py:56`).

Zones and alerts:

* Deleting the last zone, or storing one polygon that is not made of pairs, makes every camera
  use the file's zones; in the second case `GET /zones` fails as well.
* Zones of one name overwrite each other's counts, and the counts of deleted and renamed zones
  stay in `zone_occupancy`, where the heatmap and the alerts read them.
* `scripts/sync_venue_config.py` does not announce what it saved.
* Threads and tasks that listen to Redis end with its first error and nobody restarts them.
* A capacity of 0 means 50 (`core/heatmap_snapshot.py:25`).
* The sustained-load rule returns at the first such zone and leaves the ages of those behind it,
  so that their later messages may be false (`core/alert_engine.py:118`).

Leaderboard and sockets:

* A cache entry stored after an invalidation lives until its TTL (`api/scores.py:148`).
* An opt-out or a registration does not empty the cache: `GET /scores/leaderboard` still names
  somebody who opted out until the TTL, or the next flush (`api/participants.py:208`).
* A push may show an older payload after a newer broadcast, until the next push.
* The handlers of `/ws/heatmap` and `/ws/alerts` sleep for ever; the place of a browser that
  went away is freed by the next broadcast only.
* An error of Redis before `ws_tracking`'s `try`, or in its `finally`, even when it is the
  browser that left, leaves the socket in the set for ever: its place is lost
  (`api/websocket.py:122`, `:134`).
* The timeline of a score adds up the same hour of different days and ends after 48 rows.

## 4. Proofs

For any values of the constants that satisfy the assumptions of the modules (most only type
them), and so for any number of participants, visits, zones, clients, faults and restarts:

| Module | Theorem | States |
|---|---|---|
| `ScoringWorkerProofs` | `NothingLostSilently` | `Spec => []NoSilentLoss` |
| | `ImplementsLedger` | `Spec => AtLeastOnce`, the refinement |
| | `BoardIsTrue` | `Spec => []LeaderboardAgrees` |
| | `LoggedAtMost` | `Spec => []Amplification` |
| | `PendingSettled`, `CursorMonotone` | `[]PendingIsSettled`, `CursorNeverBack`; no run repeats them |
| `SponsorVisitsProofs` | `AcknowledgedIsKept` | `Spec => []EntriesKept` |
| | `VisitsHaveHours` | `Spec => []HoursHaveRows` |
| | `VisitsEndAfterwards` | `Spec => []ExitAfterEntry` |
| | `ClosedStaysClosed` | `Spec => ClosedIsFinal` |
| `FaceIndexProofs` | `NobodyTwice`, `MapIsOfIndex` | `[]OneVectorPerFace`, `[]MapFitsIndex` |
| | `CommittedStaysOnDisk` | `NothingRemoves => (Spec => []CommittedIsOnDisk)` |
| | `NobodyMistaken` | `NothingRemoves => (Spec => []CamerasNameRight)` |
| `HeatmapAlertsProofs` | `SilenceIsEarned` | `Spec => []CooldownMeansTold` |
| | `NothingUnstored` | `Spec => []ListedIsStored` |
| | `FirstMessageIsTrue` | `Spec => []FirstZoneSustained` |
| `ScoringConfigProofs` | `FlushPaysRight` | `Spec => []FlushPays` |
| | `CardTrue` | `Spec => []CardAgrees` |
| | `MergeAdds` | merging minutes into a row is adding the deltas of the flush |
| `CameraProofs` | `NoFalseCalm`, `NoFalseAlarm` | `[]ActiveMeansFrames`, `[]FramesMeanActive` |
| | `OutageUnpublished` | `StreamSpec => []OutageIsNotPublished`; no run repeats it |
| | `MemoryIsKept`, `NothingInvented` | `[]MemoryFits`, `[]CrossingsAreReal` |
| `VenueZonesProofs` | `NobodyStaysStale` | `Spec => []StaleIsAnnounced` |
| | `LogsSound` | `Spec => []LogsAreSound` |
| `LiveBoardProofs` | `LimitIsKept`, `NobodyIsForgotten` | `[]LimitHolds`, `[]OpenIsKnown` |
| | `StaleIsAccounted` | `Spec => []StaleIsRemoved` |

Each of the eight also proves `Inductive` (`Spec => []IInv`) and `TypeCorrect`
(`Spec => []TypeOK`).  `CameraProofs` has both twice: the names of `CameraStream`'s
specification begin with `Stream` so that one module can extend both halves of the camera.
A step preserves the invariant action by action.

`ScoringWorkerProofs`: the inductive invariant `IInv` is needed because `NoSilentLoss` speaks
of the cursor while the decision to move it was taken when the batch was read.  `BatchCovers`
carries the obligation: up to `batchLast` every event is accounted for or is in the batch, and
those in the batch are settled or a participant's who is still to come; `TailAfterLoop` says
that nobody is still to come in the tail, so that moving the cursor to `batchLast` is safe;
`PendingIsSettled` is the same for a batch kept back, so that the next flush may move the
cursor to the remembered id although it reads newer events; `CursorOrder` orders cursor,
`batchLast` and `pendingLast`, which is `CursorNeverBack`; `TrimmedAccounted` says that what
left the stream was behind the cursor, and so accounted for, or went into `overrun` as it left.
That an event after the cursor is either gone from the stream or in `NewEvents` is a lemma
about `BeginFlush`.  What is in memory is safe from trimming, which is why `PendingIsSettled`
can say of the events kept back that each was logged or given up.  The refinement maps
`SetCursor` to `Acknowledge`, `PushEvent` to `Publish` with what it trims, `EvictCursor` to
`Forget`, `EvictStream` to `LoseStream`, steps that log or drop to `Settle`, and the rest to
stuttering.

`LeaderboardAgrees` speaks of the moment when the worker has caught up; `BoardInv` says where
the repair of an out-of-date participant (`Stale`) is until then.  There are two places, and each
is lost to another fault, which is why the property allows crashes or failed tails and not
both: `InMemory`, without crashes, says that whoever is out of date is in the batch, still to
come or already handled, or in the batch kept back; `InStream`, without failed tails, that an
event after the cursor will bring everybody who is out of date into a later batch.  `FlushFits`
adds what the two share, as that nobody malformed is ever credited.

`Amplification` bounds what was logged, but a fault only makes events readable again, and they
are logged later.  `Reads` bounds both at once: what is logged of an event together with what can
still be read of it (the copies in the batch whose participant is still to come, those kept
back, one more if the cursor is before it) is at most 1 + 2 + ... + (F+1), and the copies
that can be read are at most F + 1.  A failed tail adds one to the second bound and that many
to the first.

`SponsorVisitsProofs`: what is acknowledged was put into the session long before.  `BatchKept`
follows an entry from the loop (up to `next`) to the commit and to the cursor, as
`Kept(session, ...)` and then `Kept(visits, ...)`; `ViewsExtend` says that both views of the
transaction, the flushed rows and the objects, only add to the committed visits and close open
ones, which is what `ClosedIsFinal` comes to at the commit; `HoursCovered` that whoever has an
hour in the session has its row already or a bucket of this flush that will make it one.
`ExitAfterEntry` rests on an invariant of its own, `OrderInv`: while there was no crash and no
eviction, the visits in the table and in the session come from events that will not be applied
again, and events come in the order of time, so whatever closes a visit is later than what
opened it.  A crash, or an eviction, takes the cursor back behind visits that are in the table.

`FaceIndexProofs`: `IndexInv` says of the index and of its file that nobody is there twice, of
the file too because a restart loads it; `FilesInOrder` that a file is torn while it is
written, and that the second is never written more often than the first.  The map is of the
index only as long as nothing restarts.  The other two theorems assume `NothingRemoves` (no
opt-outs, no failing flush or save).  Then positions are given once: `DiskInv` says that map,
files and index are stages of one sequence that only grows, and that whoever waits for the
commit is in the second file already; and which file is torn at which point of `save()`, so
that nobody comes to the commit past a torn one; `CamerasBehind` that what a camera holds, of
either file, is an earlier stage.

`CameraProofs`, tracks: `RememberedOnly` says that what is remembered of a number, and was learned
from this tracker, was learned of a number given already.  A new number therefore brings no
memory of its own generation, which is why `MemoryFits` survives a frame that gives numbers.
`SideKept` says that the line remembers the side on which the body was last seen, and
nothing while it is not loaded: a crossing compares the last two sides of one body.  People
are assumed to be finitely many, because new numbers are counted.

`HeatmapAlertsProofs`: a cooldown is set before its alert is stored, so `ToldOrFired` looks into
the queue `fired` of the cycle, and `FiredFits` says that the queue holds what the rules so
far have fired and is empty between cycles.  `FullSinceCalm` bounds the age of the first zone by
the time since its last calm snapshot; it does not hold between a calm snapshot and the walk
that clears the age, which `Passed` excludes; other zones have no such bound, as the walk may
return before them.

`CameraProofs`, stream: in `TimesAssumption` only
`HeartbeatSeconds <= StaleAfter` is more than a type.  `FramesMeanActive` is not inductive:
the frame that makes `sinceFrame` 0 may send no heartbeat.  `BeatKept` says why that is
harmless (a process that need not send one has sent one, the key still holds it, and it
said `active`), `StatusFits` why a heartbeat that is sent says `active` (a frame arrives only
when the stream is not lost), and `RecentFrame` bounds the two ages by each other while both
grow and stop at their caps.

`VenueZonesProofs`: a row of the log is the end of a long way, and the invariant follows it:
what is saved is among what its id has had (`SavedIsHad`), the camera's zones, loaded or
about to be, come from the file or from there (`ViewIsGiven`), an event names a zone that was
around the spot (`StreamIsTrue`), and the worker's map sends a name to an id that has had it
(`FlushIsTrue`).  That the zone of a row still exists holds by itself, because the foreign key
is looked at again by the commit; so does `StaleIsAnnounced`, once every step that changes the
table is matched with the request that will announce it.

`LiveBoardProofs`: the invariant has three parts, proved
one after the other.  `TypeInv` carries the bounds; `Room` is why announcements stay below
theirs.  `SocketInv` says that the lock has one holder and that the holder was counted
(`accepting # {} => Cardinality(conns) < MaxConnections`), which is why the limit survives the
await of `accept()`; and that whoever a broadcast still has in hand is open or gone, and
whoever it found dead is gone, which is why a late `disconnect` never forgets a client that
joined meanwhile.  `CacheInv` extends `StaleIsRemoved` to the request that has read its rows and
will store them.  The clients are assumed to be finitely many, since the limit counts them.

`ScoringConfigProofs`: the control is simple, the data is not.  `FlushFits` says that a flush
remembers every table the worker had since it began, the last of which is the worker's, and that
what it computed is by two of them in order; `EditsCounted` that an edit is a request, an
announcement or a reload in progress, one at a time, so that a flush sees at most one table
per edit, besides the one it began with; `RowFits` that the row holds the tags of its own minutes
and at most an interval per flush.  The rest is a theory of `Total`, the library's fold over a
function with finite domain.  A fold is a recursive function chosen by `CHOOSE`; that there is
one, and only one, is shown with the well-foundedness of the subsets of a finite set: if an
equation failed for some subset it would fail for a smallest one (`SmallestSubset`), of which an
element can be taken away.  So are the laws used: `TotalTake` (any element can be taken
out), `TotalLinear`, `TotalSubset`, and `TotalByColumn` (summing by columns is summing), from
which `PointsPay` (points times events is what the events are worth) and `MergeAdds` follow.
That shares are exact needs `Interval % n = 0` for the sizes of batches, which the module
assumes and says so: in the code the shares are floats.  Two other assumptions matter:
there are finitely many activities, and `configs/scoring.yaml` sets one, so that a worker never
runs without a configuration.

Only model-checked: liveness, as `ENABLED` and fairness are beyond the prover.  That is
`EventuallyAcked`, `EventuallyApplied`, `EventuallyClosed`, `EventuallyFresh`,
`FullZoneKeepsAlerting`, `RecoveryShows`, `ShutdownShows`, `NameHeals`, `EmptyZonesShowZero`,
`ConfigConverges`, `EventuallyShown` and `GoneAreForgotten`.  Every invariant, action property
and refinement of a passing run is a theorem.

## 5. Not modelled, and what is left to do

Not modelled:

* Exports (`api/export.py`): pages by OFFSET repeat or skip rows under inserts; no document
  promises a snapshot, and the rest is layout.
* Reports, analytics and other read-only endpoints: one query each, without state of their own.
* Detectors, recognisers and the activity classifier: numerical; their results are inputs.
* Authentication and rate limits: stateless checks, and a library.
* The creation of partitions (`db/partitions.py`), which matters to locks of PostgreSQL only;
  migrations, settings, command line, and the dashboard.

To be proved next: safety that the liveness properties rest on and no run states, as that a
reload always ends with the tables of some moment after it began, and the action properties of
the caches.

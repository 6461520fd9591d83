# A TLA+ model of the RinaDown download engine

RinaDown is a download manager: a Rust engine (`src/native/engine`) with a SQLite
database, run by one actor in the daemon (`src/native/daemon`), the desktop hub or
the server; an agent (`src/native/agent`) that starts the daemon, keeps a copy of its
state and serves the user interfaces. This directory holds TLA+ modules for the parts
where most of the ordering and recovery questions lie, the TLC runs that check them on
small instances, and proofs that TLAPS checks for all instances.

    tlc -workers 2 -config lifecycle.cfg MCDownloadManager     # one run
    tlapm FileSyncGateProofs.tla                               # one module of proofs

`PROJECT.json` lists components, runs, mutants (a plausible bug for each property
that TLC must detect), the map from definitions to source lines, findings, hazards
and theorems.

## Inventory

| Component | State | Operations | Interacts with |
|---|---|---|---|
| **DownloadManager** (`download_manager.rs`) | `active_tasks`, `pending_queue`, `pending_pauses`, `pending_resolve`, `retry_scheduled`, `auto_retry_counts`, `priority_task_id`, `auto_paused_ids`, `occupied_queues`, generation counter | create, pause, resume, cancel, delete, restart, Boost, limits; `on_task_done`, delayed retry, `on_resolve_ready` | one actor; spawned downloads by `done_tx`, resolve workers by a channel, all of them through the `tasks` table |
| **Downloader** (`downloader.rs`) | one spawned task per generation | probe, admit, transfer, finish, fail, stop | writes the task's row; cancelled by a token; reports `TaskDone` |
| **Segment coordinator** (`segment_coordinator.rs`) | live segments, worker slots, shared `seg_states`, `durable_progress`, domain caps | plan, assign, split, absorb, ramp up and down, merge results | workers by events; segment rows in the database; the temporary file |
| **FileSyncGate** (same file) | `syncing`, `last_completed_start` | `sync_if_stale`, `sync_covering` | shared by all workers of a download |
| **Database** (`db.rs`) | `tasks`, `task_segments`, settings | guarded updates by epoch, start byte and size | everyone |
| **Speed limiter** | tokens, limit | `consume`, change of the limit | every worker |
| **Auto proxy, route health** (`auto_proxy.rs`, `route_health.rs`) | lease cache, priors per host, failover attempts and targets per task | decide at start and resume, sample and switch while running, fail over, expire | manager, coordinator |
| **Selection** (`daemon/src/selection.rs`) | subscribers, pending questions | ask, answer, expire, withdraw | downloads, event hub, gateway |
| BT, HLS, DASH, FTP, ED2K | protocol sessions | transfer | same `TaskDone` contract |
| RSS, plugins, components, CDN, links, webhooks | configuration, schedules | polling, scripts, delivery | manager |
| **Daemon** | actor loop, event hub (snapshot and broadcast), RPC sessions | serialise commands, publish, serve a session | agent, CLI, API |
| **Agent** | supervised process, connection, queued and pending calls, copy of the snapshot, selection clients | spawn and reap, connect, relay, project | daemon, interfaces |
| User interfaces, browser extension, updater, shells | presentation | | agent, daemon |

What is hard here: a handler of the manager is a chain of awaits and nested handlers
during which downloads keep writing the same rows; a pause is asynchronous; retries
and resolves answer late; Boost pauses and restarts everybody else step by step; and
progress must survive a power loss although many workers share one file and one
fdatasync. Between agent and daemon, calls, events and snapshots share one socket that
may break at any time, and questions to the user race deadlines, answers and
interfaces that come and go. The hazards are listed one by one, at their lines, in `PROJECT.json`.

What correctness means for the main components:

* DownloadManager: no leaked slot, no lost wake-up of the queue, limits respected,
  at most one writer of a temporary file, every pause ends, Boost gives back what it
  took, the occupancy of queues is current.
* Durable progress: the database never claims bytes that are not on the disk; nobody
  waits for ever in the gate; a finished segment stays finished.
* Segment coordinator: segments always cover the file without overlap, every byte is
  assigned once, no byte counts as downloaded that is not in the file, a completed
  download has no hole, serial mode stays serial, every run ends.
* Agent and daemon: the agent's copy converges to the daemon's state (but for reordered
  news), one daemon runs, the client reconnects, and a call has one outcome and at most one
  execution.
* Auto proxy: a failover tries every link once and none twice, nobody starts on a proxy
  without evidence, nobody swings between links for ever.
* Selection: no question without an audience, no subscription that outlives the
  interfaces, one answer, none after the default, every wait ends and every prompt goes.
* Speed limiter: no grant above the limit, no starvation.

## Plan

Done: `DownloadManager` with `DownloadManagerProofs`, `FileSyncGate` with
`FileSyncGateProofs`, `SegmentCoordinator` with `SegmentCoordinatorProofs`,
`SegmentRowsProofs` and `SegmentModesProofs`, `DaemonLink` with the abstract
`RemoteCall` and `DaemonLinkProofs`, `AutoRoute` with `AutoRouteProofs`, `Selection`
with `SelectionProofs`, each with its `MC` module. Every invariant a passing run checks is
proved, one of them under a hypothesis on the behaviour, and so is each component's type
invariant, which no run checks. Left:

1. `SpeedLimiter`, the ramp's freeze states with their arithmetic, the task-keyed
   selections of the hub, BT seeding rules.
2. The occupancy of queues with Boost; the commands under which a Boost keeps the limits.

## DownloadManager

One variable per in-memory table of the struct, the `tasks` row of each task
(status and class of error message), the spawned downloads, the two channels and the
timers. The actor handles one command or message at a time, but its handlers call one
another and await the database in between. `agenda` is the rest of the running
handler: a sequence of operations, whose head is executed by one step
(`HandlerStep`). A command or a message is accepted only when the agenda is empty
(`Idle`), exactly as the `select!` loop of the actor does. Between two operations a
download may take steps.

| Code | Definition |
|---|---|
| `pause_task_inner` | `PauseTaskInner`, then `Drain`, `GuardBoost`, `Sync` in the agenda |
| `resume_task_inner` | `ResumeTaskInner`, `TryResume` (five outcomes: latched, busy, queued, started, enqueued) |
| `batch_pause`, `batch_resume` with `resume_task_with_row` | `batch_pause`, `PauseBatchItem`; `batch_resume`, `LoadBatch`, `ResumeWithRow` (`TryResume` on the row read before the loop), `BatchResumed` |
| `start_queue`, `stop_queue` | `StartQueue`, `StopQueue` |
| `delete_tasks_batch` | `DeleteTasksBatch`, `ReapBatch`, `EraseBatch`, `ForgetDeleted` |
| `do_start_task`, `do_resume_task` | `SpawnDownload` or `BeginResolve` |
| `drain_queue` | `DrainQueue`, `DrainItem`, `DrainEnd` |
| `on_task_done` | `OnTaskDone`, `FinishPendingPause`, `AutoRetry` |
| `set_priority_task`, `clear_priority` | `SetPriorityTask`, `BoostCollect`, `AutoPause`, `BoostStart`, `BoostCheck`, `ClearPriority`, `ResumeBoosted` |
| `delete_task`, `restart_task`, `cancel_task` | `DeleteTask` with `ReapHandle` and `EraseTask`; `RestartTask` with `ResetTask`; `CancelTask` |
| `on_resolve_ready` | `OnResolveStale`, `OnResolveGone`, `OnResolveOk`, `OnResolveError`, `OnResolveCancelled` |
| retry channel | `OnRetry` guarded by `is_task_in_error` |
| `run_download` | `WritePreparing`, `Admit`, `WriteDownloading`, `Complete`, `Fail`, `Stop`, `SendTaskDone` |
| first load after a start | `Reboot` |

Abstractions: an error message is `cancelled`, `retriable` or `fatal`; sizes, URLs and
progress are left out; a queue's limit does not change; the unlimited retry setting
is left out (the retry budget is a constant), and so is the branch of `on_resolve_ready`
that turns a resolved manifest into several tasks. A download's wait ends in one of its
results. A batch pauses, resumes and forgets its tasks in any order, which covers the
order of the hash map and every `queue_order`. The groups' and the global commands call
the same batches with other sets of tasks. What the model does not have: BT seeding,
queue editing (limits, moving a task to another queue) and schedules, duplicate detection, the delayed-start timer, speed limits.

| Run | What varies | Properties |
|---|---|---|
| `lifecycle` | three tasks in two queues of one slot, a global limit of 1 or 2 that changes; create, pause, resume, delete; one automatic retry; a process restart, which counts as a command | `CapacityRespected` `PauseExclusive` `ActiveBacked` `PauseBacked` `QueueServed` `OccupancyCurrent` |
| `boost` | two tasks of one queue; Boost, pause, resume, delete, a batch delete, start and stop of the queue; one or two slots, three commands | `BoostTargetRuns` `AutoPausedOwned` |
| `resolve` | two tasks, one slot, one of them with a plugin; pause, resume, cancel, restart, batch delete; one automatic retry; fairness | `ActiveBacked` `PauseEnds` `QueueDrains` |

Bounds: three or four commands suffice for the known races, which need at most a
start, a pause or failure, and two commands that race it; each violation run below
needs no more. Two tasks and one slot make one task wait for the other; the third task
is needed for an item that is skipped in the middle of the queue. In `lifecycle` the two
tasks that are stored at the start share a queue and are interchangeable (symmetry); the
created one has the other queue. The runs
stop when the commands are used up, hence `CHECK_DEADLOCK FALSE`.

Fairness: the actor loop serves its channels (`HandlerStep`, `OnTaskDone`, `OnRetry`,
resolve outcomes), and a download takes its next step, because tokio schedules every
ready task and every wait in the downloader has a timeout. No user command is fair.

## FileSyncGate

The workers of one download write disjoint segments of a temporary file. `buf`,
`cached` and `disk` are the bytes of a segment in the writer's buffer, the page cache
and on the disk; `db` is the stored offset that a resume trusts. `pc` is the place in
`do_segment`: reading, inside `sync_if_stale` (`stale`, `staleSync`) or
`sync_covering` (`covering`, `coverSync`), saving, finishing, leaving by a cancel,
stall or error (`exitSync`), stopped or done. `clock` gives the instants that the gate
compares. `table` and `batch` are `durable_progress` and the rows the coordinator has
taken from it but not written yet. `Crash` is a power loss: only `disk` and `db`
survive. `Failing` says which fdatasync calls may fail.

Abstractions: the instant and the begin of an fdatasync are one step (the real
fdatasync begins later and covers at least as much); the age that `sync_if_stale`
compares with `MIN_SYNC_GAP` is left open, so any completed fdatasync may be reused;
the page cache reaches the disk only by an fdatasync; splits and epochs, which only
cut offsets down, belong to the coordinator's module; database writes succeed.

| Run | What varies | Properties |
|---|---|---|
| `durability` | two workers, two bytes each, saves until the third clock reading, the gate's fdatasync may fail, a power loss anywhere; fairness of the gate's 50 ms poll and of fdatasync | `DbDurable` `GateSerial` `FinishedWhole` `GateAnswers` |

Two bytes tell "nothing", "some" and "all" apart. Three readings suffice for an
fdatasync that began before a flush and completed after it, which is what the gate's
comparison of instants must tell apart; longer chains of saves are covered by the
proofs, which do not bound the clock.

## SegmentCoordinator

One download of one file. `segments` is the coordinator's private map, `segStates` what
the workers see, `rows` what a resume sees. The code changes them in this order with a
database await in between, so a handler is a sequence of steps and `co` says which is
next: `persist` (the row transaction), `publish` (`rebuild_seg_states` and the send),
`merge` and `merged` (`absorb_pending_into_open_stream`), `assign`, `redispatch`,
`retire`, `fill`, `drain`. Workers take their steps between any two of them. A worker
reads the boundary in one step (`ReadChunk`) and writes in another (`WriteChunk`), as
the code awaits the speed limiter in between.

| Code | Definition |
|---|---|
| setup of `run_coordinated_download` | `Start`, `Launch`, `Planned`, `FirstWorkers`, `InitialRows`, `build_fresh_segments` |
| `Done` | `HandleDone` (with the shortfall), `Assign`, `Persist`, `Publish` |
| `Failed(TrueSizeLarger)`, `Failed(CdnNodeFailed)` | `HandleLarger`, `HandleNode`, `Redispatch` |
| `Failed`, degrade | `HandleRejection`, `MergeRows`, `MergeSegments`, `RetireRejected` |
| `Failed`, Path B | `HandleFatal` |
| `RangeVerdict` | `HandleVerdict` |
| proactive, ramp and database timers | `ProactiveTick`; `RampTick`, `Fill`; `FlushTick` |
| after the loop | `WorkerExit`, `Finish` |
| `find_next_work`, `find_next_pending_only`, `try_split_largest`, `try_proactive_split` | operators of the same names, `SplitInHalf`, `SplitLargest` |
| `do_segment` | `SkipSegment`, `Respond`, `ReadChunk`, `WriteChunk`, `PeriodicFlush`, `StreamEnd`, `FinishSegment`, `SaveDone`; errors `Rejected`, `TransientFull`, `Unusable`, `Broken`, `NodeFailed`, `WriteError`, `Panic` |
| `do_segment_with_retry` | `RetryOrReport`, `Retry` |

Abstractions:

* How fast bytes arrive is left out, so the decisions taken from throughput are open:
  `allowed` becomes any number up to the cap, `current_min_split` is any of `MinSplits`.
* Of a response only its support for Range and the size it reports remain; the
  validators, encodings and Content-Range starts are `Unusable` (no retry) or `Broken`.
* A byte is written when it is flushed. `kept` is the flushed part of a worker's
  progress; fdatasync and its delay are in `FileSyncGate`.
* The timers fire only when the event channel is empty: the `select!` is biased.
* The links of other nodes are not modelled, only that one can fail (`NodeFailed`). A
  worker is pinned to a node only once Range is proved (`aggregation_gates_open`,
  `cdn/mod.rs:120`), so a node never fails a plain GET.
* A retired slot is used again for the next worker; the code appends a new one. A
  cancelled worker keeps its slot until the drain.
* A worker panics only in a request. A panic between a write and its flush would lose
  counted bytes, as in `lost_write`.
* `OpenEndedEstablished` only brings the next ramp tick forward. Epochs, the learned
  per-domain limits, the stall time-outs, the tolerance for a slightly different size
  on resume and damage to the temporary file from outside are left out.
* A database failure in a merge does not count against `MaxFaults`.

| Run | What varies | Properties |
|---|---|---|
| `split` | 2 workers, 4 bytes, 2 initial segments (3 at most), chunks of 1 or 2; a broken or short stream or a crash, 2 sessions | `PlanCovers` `RowsCover` `RowsTrue` `NoHole` `OneHolder` |
| `degrade` | 2 workers, up to 3 segments; a size of 2 bytes, proved or not, for a file of 2 or 3; servers with and without Range; a 403, a 200, a panic, a fatal response, a cancel, a failed write, a failed transaction, a failed node, a full disk; fairness | `PlanCovers` `RowsTrue` `PlainAlone` `SerialShrinks` `RunEnds` |

Bounds: four bytes and chunks of two let a chunk straddle the cut of a split; two
workers race over one boundary, and one of two is what halving and serial mode leave.
One fault per behaviour keeps the runs small, and every kind occurs in some run; the
coordinator's own interleavings are not bounded. `MaxSessions` allows one resume, after
which the rows are again the only memory. `CHECK_DEADLOCK FALSE` because a download
that has ended stops.

Fairness (`degrade`): the coordinator's task goes on, the ramp's interval fires, and
some worker makes a step while one can. tokio schedules ready tasks; a body that stalls
has a time-out. A response header that never comes has none in the code
(`do_segment` only races it with the cancel), so the assumption that a request is
answered is one about the network. `RunEnds` also covers a run whose workers are all
gone, where only the ramp's tick can end it.

## DaemonLink and RemoteCall

The agent keeps one socket to the daemon. `DaemonLink` has the tasks at both ends as
processes: publishers of the daemon, the session (`run_socket`), the client
(`run_client`), the projector (`spawn_daemon_projection`), the callers of
`DaemonClient::call`, the supervisor's reaper, and the daemon process, which may die.
`toDaemon` and `toAgent` are the two directions of the socket, in order.

| Code | Definition |
|---|---|
| `DaemonEventHub::publish` | `Publish` (under the lock), `Broadcast` (after it) |
| `run_socket`, `RpcSession` | `OnHello`, `OnSnapshot`, `OnCall`, `Forward`, `EventGap`; `LateCall` for a session whose client has gone |
| `connect` | `Connect`, `HelloReply`, `SnapshotReply`, `Transient`, `Fatal` |
| `run_connected` | `TakeCommand`, `ReadEvent`, `ReadAnswer`, `Lost`, `Break`; then `Disconnect` |
| `DaemonClient::call` | `Call` (the test), `Enqueue` |
| `ensure_running` and its reaper | `ensure_running`, `Reap` |
| `spawn_daemon_projection`, `AgentEventHub` | `Project` with `apply_event` |
| process | `Listen` (projection loaded from the database), `Die` |

Abstractions: of a task only its status; the projections of queues, groups, RSS and
plugins are left out, as are the length of the back-off, the capacity of the agent's own
channels and the bearer token. Epoch and sequence of a frame are left out because the
agent reads neither. An event is about one task (`changed`, `deleted`, `progress`) or sets
all of them (`list`, for `TasksSnapshot` and `SnapshotReplaced`). Any publisher may say
anything of any task: the daemon's actor and the task of its progress reporter publish the
same ones (`runtime.rs:75`). `publish` leaves the lock before it sends, so that `hand`
holds a frame that is applied and not yet sent. `crossed` is a history variable: the tasks
of which two publishers held a frame at once, until a snapshot is taken with nothing about
them left to follow.

`RemoteCall` is the abstract specification of what a caller of the agent may rely on:
refused at once, or one outcome; executed at most once, never if refused, always before
an answer. `CallContract` says that `DaemonLink` implements it, with the mapping in
`RC`: a call that has passed the test or is queued is `waiting`. The fairness of
`RemoteCall` (nobody waits for ever) is part of what is checked.

| Run | What varies | Properties |
|---|---|---|
| `relay` | two publishers, two tasks, two events (a deletion or a whole list), a channel of one frame, one call, one fault (death, failed spawn, rejected handshake or a socket that breaks although both ends live, after which the old session may still execute what it had received); fairness | `ProjectionCurrent` `OneDaemon` `Reconnects` `CallContract` |

One frame of capacity and two events overrun the channel; the two events may also cross, in
one task or in both, and with one fault a snapshot follows, which repairs them. A list and a
deletion give each task every value; `changed` and `progress` are covered by the proof,
as are more events and faults. The database gives a starting daemon both tasks (`Loadable`),
so that the agent's first copy differs from it. One fault with a fresh start afterwards
reaches every phase of the client twice. With one call, the order in which several calls
are answered is not compared; each has an acknowledgement of its own in the code.
Fairness: each tokio task that can go on does, and a daemon that started comes to listen;
no fairness for publishing, for new calls or for the calls an abandoned session may still
read.

`ProjectionCurrent` says what the code gives, not what its comments promise. The promise is
`Linearized`, in which no task is excepted, and the code does not keep it: as the invariant of
`relay.cfg` TLC refutes it in 16 states (listed under the disagreements).

## AutoRoute

One host, `ProxyMode::Auto`. `cache` is the lease of the host, `prior` its `HostRoute`
with the number of confirmations counted to 2 (more changes nothing), `attempts` and
`pending` the manager's failover state. `route` is the link in use and `label` what
`tasks.auto_route` says of it: they differ when the client of a link could not be built.
`tried` and `evidence` are history variables for the properties.

| Code | Definition |
|---|---|
| `auto_route_decision` | operator of that name |
| `do_start_task`, `do_resume_task`, `task_http_context` | `Start`, `Resume`, `Launch` |
| `AutoSwitchState::on_ramp_tick` | `Tick` (idle: lease, cool-down or sample), `Collect` (probing), `apply_switch` |
| `on_task_done` | `Fail`, `Refused`, `Complete`; `auto_failover_target`, `AutoRetry`, `GiveUp` |
| `route_health.rs` | `record_*`, `touch_proxy_route`, `clear_proxy_prior`, `prune`, `hint_for`, `Expire`, `NetworkChanges` |
| `set_proxy_config`, `resume_task` | actions of those names |

Abstractions: leases and priors may expire at any time, in place of their TTLs; what a
sample measures is open (won, lost, mismatch, or its client not built); the copy of the
priors in the database, tasks with a proxy of their own and tasks that ignore TLS errors
(no sampling) are left out. Expiry keeps the count of confirmations of an expired win
until the next `prune`, as in the code.

`route`: two downloads, proxies from the manual fields and the system, one extra
(user command, new settings, new network, common retry or a client that cannot be
built). Two downloads are needed for one to act on what the other learned; failovers
are not counted as extras, since the code bounds them itself. Fairness: a scheduled retry is served and a
transfer ends, well or not.

`NoBlindTakeoff` takes a failed proxy and new settings for the end of the evidence. A new
network is none: the code empties the priors (`ensure_net_epoch`) and keeps the lease, so a
start may follow what was learned on the old one.

## Selection

| Code | Definition |
|---|---|
| `DaemonSelection` | `begin`, `resolve` (through `Answer`), `timeout`, `unsubscribe`, `resolve_all_defaults`, `Subscribe` |
| `select_hls_quality`, `select_bt_files`, `select_resolve_variant` | `Receive`, `Elapse`, `timeout`; `CancelWait` for HLS, the one caller that drops its wait |
| events after the lock | `PublishPending`, `PublishResolved` |
| `add_selection_client`, `remove_selection_client` | the counter, and `CallSubscribe`, `CallUnsubscribe` for the calls |
| `DaemonClient::call`, `run_connected` | `Write` (taken and written), `Awaiting`, `Return` (answered, lost, or refused without a link) |
| `run_socket` of the daemon, `RpcSession` | `Serve`, `SessionEnds`, `SessionFails`, `disconnect` |
| end of `run_connected`, reconnection | `LinkLost`, `LinkRestored` |

The two ends of the agent's connection learn of its end on their own. `LinkLost` is the
client's step: its callers are told, and a call made meanwhile fails at once. The session
it leaves behind (`Gone`) may still read what had reached it (`Serve`), a subscription
included, and runs `disconnect` only when it leaves its loop (`SessionEnds`); it may also
be the first to end (`SessionFails`). Each connection is a subscriber of its own, numbered
in their order in place of the random `connection_id`, so that an old session and a new
connection may both be subscribed.

A choice is a model value; `cancelled` is the answer that HLS does not accept. The list
of the last resolved ids only tells two refusals (conflict, not found) apart and is left
out, as are the gateway's calls other than the two. Answers come from any session the
daemon still reads.

| Run | What varies | Properties |
|---|---|---|
| `selection` | one question about an HLS stream with two possible answers, two interfaces, one other program, one loss of the link | `Audience` `NobodyLeftBehind` `SubscriptionEnds` `FirstWins` `LateConflict` `WaitEnds` `PromptCleared` |

Interfaces come and go without bound. Two of them are needed for the calls of a joiner and
of a leaver to mix; one loss gives two connections, the old one with its session and the
new one. Questions touch each other only where a default ends all of them at once; of the kinds the HLS
one is taken because only its wait can be dropped, and two answers are needed for a second
one to be accepted wrongly. The proofs bound none of these. Fairness: timers fire, a woken
task runs, a task that left the lock publishes, and a session whose client has dropped its
socket reads the end of the stream. Nobody has to answer, to stay or to leave. Deadlock is
checked.

`NobodyLeftBehind` says, at every moment: when all interfaces have left and their calls
are through, the agent's present connection is not subscribed, and a lost connection is
only while its session has not ended. `SubscriptionEnds` adds that this remainder goes too
unless an interface comes first. That it may exist is the code's own: an interface can
leave while there is no link, and its unsubscription fails.

## What the violations show

Each of these runs states what a comment, a document or a test of the repository
says, and TLC finds a behaviour of the code that contradicts it; `PROJECT.json`
quotes the lines.

| Run | Behaviour |
|---|---|
| `orphan` | a failed task is resumed twice before its new download writes status 5: two uncancelled generations |
| `latched_resume` | pause and resume while the download starts: it overwrites the row, the resume is dropped, the row stays "preparing" |
| `lost_write` | a write fails, the lost bytes stay counted, the retry is rejected, and the next assignment stores them as downloaded |

More disagreements met on the way, which have no run of their own:

* `download_manager.rs:2610` says that a delayed retry is skipped when the user has paused
  the task; pausing a failed task changes no row, and the retry resumes it.
* `cancel_task` of the Boost target does not clear Boost (pause, delete and the end of a
  download do), so the others stay paused for nothing: t1 runs, t2 is boosted and
  cancelled, and nothing downloads (`download_manager.rs:6886`, against the comment at
  9088). `BoostTargetRuns` is checked without cancel, and says nothing of this.
* Boost can also stay on without a running target in two other ways. A plugin task's
  resolve fails or finds its row gone: the placeholder goes, Boost does not. And with a
  lowered limit (27 steps, two tasks, the limit 2 and then 1, the commands resume, boost
  and limit): t1 is boosted, t2 resumed, the limit lowered, t1's download fails, and
  before its `TaskDone` is handled the user resumes t1. `resume_task_inner` drops the stale entry,
  finds no room and queues t1 with Boost still on it; pausing t1 takes it from the queue
  (the early return for a queued task) and again leaves Boost on.
  `BoostTargetRuns` is checked with a constant limit and without plugins, and proved while
  the limits hold (`BoostAlwaysRuns`).
* On a cancel, a stall or a stream error `do_segment` ignores the result of its
  fdatasync and stores the offset all the same (`segment_coordinator.rs:4844`). With
  `"exit"` in `Failing` the model shows the hole; `Durability` assumes it away.
* A rejected or node-failed segment returns to `Pending` with the coordinator's older
  count (`segment_coordinator.rs:2439`); its next assignment lowers the row, so bytes are
  fetched again although the comment above says that data is kept.
* The guard against retrying a broken plain GET with Range tests where the failed
  attempt began (`segment_coordinator.rs:4336`), which is 0 for the first one: one Range
  request is sent in spite of the verdict.
* `flush_segments_progress` is said to write counts capped to the segment
  (`db.rs:1967`); the final sync copies a worker's count uncapped.
* For the same reason the sum in the last verification (`segment_coordinator.rs:3149`) can
  hide a hole. A worker writes beyond the end of its segment while the cut is being
  persisted, retries with the old end and dies in the request: its segment stays active
  and counts bytes of its neighbour. If the worker of another segment dies with no more
  bytes missing than that, the loop is left, the sum and the coverage pass, and the
  download succeeds, although the comment at `:3055` says that this verification reports
  the error. `NoHole` fails so for one initial segment of 4 bytes, chunks of 1, three
  segments at most, one retry, one session and `Faults` of `drop` and `panic`
  with `MaxFaults = 3`, after 33 steps (4.2 million states). It needs two panics, so
  `split`, where `NoHole` is checked, has none, and `SuccessIsWhole` assumes there are none.
* Boost pauses a task whose download has just written completed while its `TaskDone` is
  still in the channel. `pause_task_inner` overwrites the row with paused, and
  `clear_priority`, which skips completed tasks, restarts it.
* `cancel_task` and a failed resolve do not call `sync_queue_occupancy`, so
  `queue.drained` is late. `OccupancyCurrent` is checked without these commands.
* `set_priority_task` does not pause a stray that an earlier Boost has already
  auto-paused and a drain has promoted; the queued target is then started beside it,
  one above `max_concurrent`. It takes three tasks and six commands.
  `CapacityRespected` is checked without Boost.
* `set_priority_task` ends without `sync_queue_occupancy`; `OccupancyCurrent` is checked
  without Boost too.
* `stop_queue` pauses its active tasks one by one. If one of them is the Boost target, the
  pause ends Boost, and `clear_priority` resumes the auto-paused tasks, those of the queue
  being stopped included, which then run. The comment at `download_manager.rs:8607` says
  that the tasks stay paused until the queue is started again, and the one at `:8014` that
  `batch_pause` equals a loop of `pause_task`. `StartQueue`, `SetPriorityTask` and
  `StopQueue` with two tasks and one slot are enough to see it in the model.
* `batch_resume` and the queued part of `batch_pause` do not call `sync_queue_occupancy`,
  and `batch_resume` does not clear `retry_scheduled`; `OccupancyCurrent` is checked
  without batches.
* `delete_tasks_batch` does not clear `pending_resolve`, though the comment at
  `download_manager.rs:2116` names only `delete_task`; the row check there catches the
  outcome (`OnResolveGone`).
* `update_queue` does not drain after raising a queue's limit, so its queued tasks wait for
  the next drain, whereas `set_max_concurrent` drains at once; `QueueServed` is
  checked with constant queue limits.
* `pause_task_inner` does not withdraw a resume latched earlier in the same flush, so a
  task runs although the last command was a pause. No line says which command wins.

Between agent and daemon:

* `event_hub.rs:45` (daemon) says that a subscriber drops frames whose sequence is not
  above the snapshot's; the agent reads no sequence. It applies a frame that is already in
  the snapshot again. By itself that is harmless, because the later frames follow.
* `event_hub.rs:23` and `:1` (daemon) say that the hub linearizes the snapshot and the events
  at one synchronisation boundary. `publish` applies an event under the lock and sends it
  after the lock; the actor and the task of the progress reporter publish the same tasks
  (`runtime.rs:75`) and may send in the other order than they applied. The agent then keeps
  the older status, with nothing on its way any more, until the next event of that task or
  the next snapshot. In the model: two events of one task, the second publisher sends
  first, the agent connects, and the first frame follows its snapshot (`Linearized`).
  `ProjectionCurrent` excepts these tasks and no others.
* A command that passes the test of `connected` and is queued after
  `fail_queued_commands` goes out on the next connection, against the test
  `disconnected_client_rejects_without_queueing_for_replay` (`daemon_client.rs:406`). It
  is still executed at most once, which `CallContract` checks.
* An event that overtakes the snapshot in the handshake ends the attempt. A daemon busy
  enough could starve the agent; in the model events are finitely many.
* `wait_ready` may miss the `notify_waiters` of a connection made between its test and
  its registration; not modelled.

Auto proxy:

* At a resume the label is stored before the client is built
  (`download_manager.rs:6717`); when the build fails, the download runs direct under a
  proxy's label, which the comment at 5267 means to exclude. `EachLinkOnce` counts such a
  link as the one its label names.
* A failover target chosen before another download pinned the host to direct still goes
  to the proxy, although `route_health.rs:469` says it never may.
* A lease moves a running download onto a proxy that it has not sampled itself; a sample
  or completion in flight over a change of settings records a win of the old proxy.

Selections:

* The agent's subscription is not renewed after a reconnection, and a failed
  subscription is ignored (`gateway.rs:805`): questions take their defaults although an
  interface is open. The subscription of a joiner may also be executed before the
  unsubscription of a leaver, with the same effect. Hence only `NobodyLeftBehind` and
  `SubscriptionEnds` are stated, not their converse.
* A session that has lost its client counts as a subscriber until it ends: a question
  asked in between is shown to nobody and waits until the session's end answers it with
  the default. `Audience` counts such a session.
* A paused HLS download leaves its question pending, with a prompt on the screens, until
  the last subscriber leaves. `PromptCleared` excepts it.
* A question that ends before its own announcement is published leaves a prompt.
  `PromptCleared` speaks of prompts shown while the question was open.
* An answer between the deadline and `timeout` is accepted and lost.

## Proofs

`FileSyncGateProofs` proves for any set of workers, any positive segment size, and
without the bounds on time and power losses mattering:

* `TypeCorrect`: `Spec => []TypeOK`;
* `Durability`: `Spec => []DbDurable`, assuming `"exit" \notin Failing`: without it the
  statement is false (see above);
* `Finished`: `Spec => []FinishedWhole`, under the same assumption;
* `Serial`: `Spec => []GateSerial`, whatever fails.

`DbDurable` is not inductive: a save writes what it believes an fdatasync has covered.
The invariant `Inv` adds why it may believe it. `Ordered` relates database, channel,
disk and page cache; `Stamped` says no instant lies in the future, so a snapshot taken
now is younger than every fdatasync that has begun; `Covered` is the gate's contract:
an fdatasync that began at or after a snapshot, completed or handed to a worker, has
made that snapshot durable, and a running one has it in its view; `Located` carries
those facts to the places where the full offset is stored. Each action keeps each part;
`Finished` then needs only that a worker at `finish` has everything on disk.

The proofs rest on the named assumption of `FileSyncGate` (a positive size).

`SelectionProofs` proves for any set of questions, any finite set of interfaces, any
set of other programs and any number of connections one after the other:

* `AudienceHolds`: `Spec => []Audience`;
* `NobodyIsLeftBehind`: `Spec => []NobodyLeftBehind`;
* `FirstAnswerWins`: `Spec => []FirstWins`;
* `LateAnswersConflict`: the action property `LateConflict`;
* `TypeCorrect`: `Spec => []TypeOK`, on which they rest.

Its `Inv` has one part per reason. `Counter`: the gateway's `clients` is the number of
interfaces that have been counted in and not out (this is where finiteness is needed).
`Subscription`: the agent's present connection is subscribed only while somebody is
counted, or has decremented and not called yet, or the call that unsubscribes it is on the
wire. `Waiting`: whoever has a call on that wire still waits for it; so once everybody is out
nothing is left to be read there, a subscription that comes late neither. `Numbered`: a
subscription belongs to a session, sessions to connections there have been, and nothing is
written on one to come; so a new connection starts unsubscribed. Together they give
`NobodyLeftBehind`, which is not inductive by itself because a leaver decrements first and
calls afterwards. `Open`: a question that is open, or not asked yet, has no answer under
way. `Sole`: an answer under way is the accepted one. The last two give `FirstWins`, and
`Open` gives `LateConflict`.

`DaemonLinkProofs` proves for any sets of tasks, publishers and calls, any capacity of the
channel and any number of faults (calls must differ from the two requests of the
handshake):

* `AtMostOneDaemon`: `Spec => []OneDaemon`. `Supervised`: only the youngest process may
  live, `running` is set while it does, and a process that waits for its reaper is dead;
  so the reaper of an old generation cannot clear `running` for a younger one.
* `KeepsContract`: initial states map to initial states of `RemoteCall`, and each step to a
  step of it or to a stutter. `Tracked`: a call is in at most one of the queue, the pending
  calls and the abandoned ones, at most once on the wire and there only while pending, and
  has not been executed while it is still to be read; hence the first execution is the only one, and
  when a connection goes all whom it concerns still wait. `Answered`: an answer on the wire
  is the answer to an execution.
* `AgentFollows`: `Spec => []ProjectionCurrent`, whoever publishes what, whole lists
  included. What a frame does to a task is a *move*: keep what is there, put a value, or
  report one for a task that is there (a list puts a value in each task); moves one after
  the other are a move again, so that a queue of any length *means* one move, and taking a
  frame from one queue to the next changes neither the move of all nor its end. `Flow`, for
  a task that is not crossed: what the inbox, the wire, the receiver and the publishers'
  hands mean, one after the other, leads from the agent's copy to the daemon's projection
  once the snapshot of this connection is on the wire, and what the receiver and the hands
  mean leads from the projection back to itself before that. The second half is what makes
  the snapshot right although events it has already are still in the receiver; it is kept
  because a move made twice is a move made once (`MoveTwice`) and because an event comes
  last in its publisher's order (`MoveAgain`). `Carried`: of a task that is not crossed at
  most one publisher holds news, and the projection has it already. A crossed task must be
  followed too, since a snapshot with nothing about it left to follow takes it out of
  `crossed`: then the two queues mean nothing for it (`KeepMeans`). `Opening` says that a
  session that has not accepted the hello has nothing in its receiver, `Founded` that the
  snapshot or an online projector stands before the events of a client that is up.

`DownloadManagerProofs` proves for any sets of tasks and queues, any limits, any of the
commands and any number of commands, retries and restarts of the process:

* `TypeCorrect`: `Spec => []TypeOK`, with the shape of every operation a handler puts on
  its agenda;
* `FlushExcludesStart`: `Spec => []PauseExclusive`;
* `SlotsBacked`: `Spec => []ActiveBacked`, and `PausesBacked`: `Spec => []PauseBacked`;
* `BoostForgetsNobody`: `Spec => []AutoPausedOwned`;
* `LimitsRespected`: `Spec => CapacityRespected` for a finite set of tasks, without resolver
  plugins and without Boost. Both start a task without another look at the limits:
  `OnResolveOk` keeps the slot the placeholder has taken, which a limit lowered meanwhile
  does not take back, and `BoostStart` relies on having paused the others, which fails in
  the scenario described under the runs (three tasks, six commands);
* `DrainNeverForgotten`: `Spec => []QueueServed`, under the same assumptions. With a plugin,
  an outcome that arrives for a task which a stale entry has meanwhile put back into the
  queue gives up a slot without a drain; a Boost runs over the limits and frees
  the slots of those it pauses;
* `QueuesAnnounced`: `Spec => []OccupancyCurrent` without plugins, cancel, Boost and the queue
  batches, for any set of tasks: `cancel_task`, a failed resolve, `set_priority_task` and
  the batches change the tables without a `sync_queue_occupancy` (listed above);
* `BoostAlwaysRuns`: `Spec /\ []BoostWithin => []BoostTargetRuns` for a finite set of tasks,
  without resolver plugins and cancel. `BoostWithin` says that while a Boost is on what runs
  is within the limits. It is a hypothesis and no invariant: a limit lowered during a
  Boost breaks it, and so does, with three tasks, a Boost that starts beside tasks a drain
  has promoted. Without it the target may end up waiting in the queue (the scenario with
  the lowered limit above). The instance of `boost` never breaks it.

The first five share one inductive invariant, `IInv`. `AgendaInv` describes the rest of a running
handler: only its head is in the middle of a drain, the start of a Boost target comes last,
and what is before it does not pause that target. Without it a Boost could start a task
that the same handler is going to pause, and `PauseExclusive` would be lost two steps later.
`AutoOwned` carries `AutoPausedOwned` through the handler: tasks are auto-paused without a
target only while the start of one is on the agenda. `PauseInv` adds to `PauseExclusive` that
a task being flushed waits for no resolve worker, has a row, and was not taken out of the
queue by a Boost about to start it. `GenInv` says generations are given out once: the ones
in the tables, in flight and in the agenda exist, two tables never hold the same one, and one
that the agenda is about to drop is in no table; so a late `TaskDone` or the abort of a handle
cannot take away what backs somebody else's slot. `TypeOK` alone is inductive by itself.
`LimitsRespected` adds `Plain` (no outcome of a resolve, no Boost start on the agenda).

`DrainNeverForgotten` and `QueuesAnnounced` follow a task that waits. `LineInv` joins the queue with what a running drain
has taken from it (`Line`): a task waits once, has a row, and is not active, so the slot it
waits for is another's. `ServedInv` adds that a task the drain has passed over still has no
room in its queue (`KeptFull`: the drain only starts tasks, and downloads give up a slot
only in a handler), that the named queues are within their limits (`QueuesWithin`), and its
core: either a drain is to come (`DrainDue`: it runs, or an operation on the
agenda ends in one), or nobody who waits has room (`Settled`). Every operation that
frees a slot, appends to the queue or changes the limit keeps one of the two.
`OccInv` does the same for `sync_queue_occupancy` (`SyncDue`, or the announcement is
`Clean`). It needs more of the agenda: a sync comes after the last retry and the last task to be
forgotten (`LastSync`), the steps of a deletion share the agenda with nothing
(`EraseAlone`), and nothing that runs beside a retry takes a task away from it (`RetryTame`);
and it needs that whoever waits has a row (`WaitRows`) and that a task whose pause is
outstanding waits for no retry (`RetryQuiet`), since a pause or a retry that finds
otherwise returns early, without a sync.

`BoostAlwaysRuns` has `BoostHeld` for its core: while a Boost is on, its target is active, or
an operation that ends the Boost is still on the agenda (`Ending`).
Giving up the target's slot puts one there (`guardBoost` after a pause, `ClearBoost` with a
`TaskDone`, the steps of a deletion). The start itself needs `Readying`: until
then no other Boost is on and the target a Boost took from the queue does not wait
again (`LineInv`), so nothing but a table entry keeps it from its slot. And
a running target that is resumed loses its stale entry first; `BoostWithin` then
leaves room for the new one, one less being active than the limit allows.

A batch leaves the queue by `Without`, a recursive function (the `retain` of
`pending_queue`). What it computes is proved by induction over a set of naturals
(`SetInduction`, from the well-foundedness of `<`): it keeps exactly the other tasks.

`AutoRouteProofs` proves for any number of downloads, user commands and changes of settings
and network:

* `LinksNotRepeated`: `Spec => []EachLinkOnce`;
* `LinksExhausted`: the action property `NothingUntried`;
* `TakeoffFounded`: the action property `NoBlindTakeoff`;
* `TypeCorrect`: `Spec => []TypeOK`.

`EachLinkOnce` needs that what failed is marked (`TriedMarked`: `tried` is part of the
`attempts` a failover looks at, and the link it goes to next is marked too); `NothingUntried`
needs the converse (`MarkedTried`: a mark stands for a failure, for the link in use or for the
next one, and a download its coordinator may still move has only marks of failures).
`LabelTrue` ties the row's label, which the failover reads, to the route in use, unless the
client of that link could not be built; `PendingWaits` says a failover is on its way only to
a download that has failed. `Trust` is `NoBlindTakeoff` as a state: a lease or a prior in
favour of a proxy exists only with evidence.

`SegmentCoordinatorProofs` proves for any file size, any finite set of workers, any number of
segments, any thresholds, faults of any kind and any number of sessions:

* `TypeCorrect`: `Spec => []TypeOK`;
* `PlanAlwaysCovers`: `Spec => []PlanCovers`;
* `OneWorkerPerSegment`: `Spec => []OneHolder`.

They share the inductive invariant `IInv`. `PlanCovers` needs where each change of the plan is
cut: `CoverHalved` (a split), `CoverExtended` (the tail of a larger file), `CoverMerge` (what
an open stream absorbs is contiguous, so its new end leaves no gap), `CoverParts` (fresh
segments) and `CoverSame` (everything else moves no range). A merge takes two steps with
the database in between, and other steps may come before the second: `JobInv` keeps that
there is still something to absorb, that the worker a handler is answering waits for the
answer, and that a segment about to be given away or given back is held by nobody else.
`Holding` is `OneHolder` for every state of the loop, without the worker being answered.
It is not inductive by itself, because a report is handled long after it was sent:
`Reports` says that a report in the channel is the only one of its worker, which waits
with the segment it reports, so that a handler never takes a segment from a worker that
went on. `Shared` says a working worker finds its segment in `seg_states`, a free slot
holds nothing, and nothing is left between two runs. The proof treats all the actions of a worker as one
kind of move (`WorkerMove`: it goes on with its segment, gets lost, or reports and waits),
for which the parts are preserved once. The assumptions on the constants: a positive
size, sizes within `FileSize`, at least one connection and as many slots as the cap of
the ramp.

`SegmentRowsProofs` proves `RowsAlwaysCover`: `Spec => []RowsCover` as long as no
transaction of the database fails, for the same values of the other constants. Its
invariant `RowsFit` says where the rows may differ from the plan: the map is changed
first, so between `Dispatch` and `Persist` the child's row is missing and the parent's
still reaches to its old end (`CutMissing`), between a growth and its row the tail is
missing (`TailMissing`), and at every other point the rows are the ranges of the plan. At
each of these points the rows by themselves cover a file, the old one or the new one. The
assumption is needed: the code logs a failed `persist_split` and goes on, so a row may
keep reaching to an end its segment has given away, and the rows overlap until a
later write of that row; the next start then discards them and begins anew.

The same module proves `RowsNeverLie`, `Spec => []RowsTrue`, and
`CompleteIsWritten`, the first part of `NoHole` (the second is `SuccessIsWhole`, below), as long as no write to the file fails.
Progress is counted in four places (the workers, `seg_states`, the map, the rows), and
they are brought together at different times. The invariant `Truth` says what each may
claim. A row claims, within its own range, only bytes in the file (`RowsHold`); a segment
that is not complete and its entry of `seg_states` may also count bytes that are still in
the buffer of a worker busy with that very segment (`PlanTrue`, `StatesTrue`, by
`Safe`); a complete segment has all its bytes in the file. `WorkersTrue` says what a
worker's counters mean (what it skipped or flushed is in the file), `ReportsTrue` that a
Done that waits in the channel claims only what has been flushed, and `JobTrue` that the
child of a cut which is being stored is still pending unless it has been given to
somebody. The step from `Safe` to the rows is where the faults would show: whenever the
coordinator stores a count of its map, no worker is busy with that segment (from `IInv`), so nothing
of it is left in a buffer. That is why the assumption is needed: after a failed write
the count stays and the buffer is gone, as `lost_write` shows. The boundary of a segment
may move under its worker at any time; the proof needs only that segments keep their start.

`SegmentModesProofs` proves, for any values of the constants and all faults:

* `SerialNeverGrows`: the action property `SerialShrinks`;
* `PlainStaysAlone`: `Spec => []PlainAlone`;

and, as long as no write fails and no worker panics,

* `SuccessIsWhole`: `Spec => []NoHole`, a session that succeeds has every byte in the file.

The first two ask what is still true of a decision when the handler acts on it, two awaits later.
The invariant `Modes` has three parts. `Given` keeps the reasons of an assignment while it
is stored and published: in serial mode nobody is at work when a worker is about to be
sent a segment, and the ramp hires only with proof of Range and without serial mode; both
survive the steps in between because no other worker is hired then. `Lone`
is the reason of `PlainAlone`, which is not inductive by itself: without proof of Range
either there is at most one worker (`Single`), or everything that begins at byte 0, in the
map, in `seg_states`, in the rows and in the workers' counters, has made progress
(`Begun`), so that no plain GET, which must begin at byte 0, can come about any more.
A start decides which of the two holds (`FirstWorkers`: one worker if somebody would ask
for byte 0), and the two stay what they are: nobody is hired without proof of Range, and
no progress at byte 0 is taken back. `Anchored` supplies what the second half needs: a worker's counters
belong to the segment whose start it knows, rows and segments begin at the same
bytes, and no row is empty, so that one without progress is never taken for a complete one.

`SuccessIsWhole` adds `Whole` to `Truth` and `IInv`. The last check of the code only adds up
counted bytes, so what has to be shown is that the loop is left without an error only when
every segment is complete (`Closed`). Hence `Manned`: while the loop runs, an active segment
is held by somebody at work, is reported by a message in the channel or is being given to
somebody (`Owned`), somebody is there unless all is done, and nobody is dead unless the
user cancelled (`Staffed`). A worker that asks for work is retired when it is told there
is none, and without proof of Range it is told so although pending
segments are left. That this leaves no hole is `Bare`: then every open stream is
one of the first segment from its first byte, and what is given back is that segment
with no byte of it counted, so the plain GET that follows can fetch it, and its stream
absorbs the pending neighbours to the end. `FirstIn` anchors this: the first segment begins at byte 0 in
the map and in the rows. The assumptions are both needed: a failed write leaves counted
bytes out of the file, and with panics the sum can hide a hole (see above).

Only model-checked so far: the liveness properties, `SubscriptionEnds` among them; and that the
commands of `boost` keep the limits while a Boost is on, which `BoostAlwaysRuns` takes as its
hypothesis. Liveness and the fairness of `RemoteCall` stay
with TLC: temporal reasoning under fairness is outside what the proof system handles.

## Not modelled

Probing and naming, the final rename, protocols other than HTTP as seen by the
manager, plugins, RSS, the CDN and link subsystems, webhook delivery, cloud sync and
pairing, the individual RPC methods and the user interfaces: mostly I/O or presentation.
BitTorrent is librqbit's session behind the same `TaskDone` contract. The speed limiter
and the ramp's arithmetic are in the plan. The desktop hub and the server drive the same
manager; their own selection and event code is a variant of the daemon's and is not
modelled.

-------------------------- MODULE DownloadManager --------------------------
(***************************************************************************)
(* The task lifecycle of native/engine/src/download_manager.rs: the actor  *)
(* that owns every in-memory table of the engine, the download tasks it    *)
(* spawns, the off-actor resolve workers and the `tasks` table they share. *)
(*                                                                         *)
(* The actor handles one command or message at a time, but a handler calls *)
(* other handlers (pause -> drain -> start, done -> clear boost -> resume) *)
(* and awaits the database between them, so spawned downloads run in the   *)
(* gaps.  `agenda` is what is left of the running handler: the actor takes *)
(* a new command only when it is empty, and every step executes its head.  *)
(***************************************************************************)
EXTENDS Integers, Sequences, FiniteSets

CONSTANTS
    Tasks,           \* task ids
    Queues,          \* named queues
    QueueOf,         \* the queue of each task
    QueueMax,        \* max_concurrent of each queue, 0 = no limit
    Resolvable,      \* tasks bound to a resolver plugin
    Stored,          \* tasks an earlier run left paused in the database
    Limits,          \* values the user may give max_concurrent, 0 = no limit
    MaxAutoRetries,  \* config max_auto_retries (the unlimited -1 is left out)
    Commands,        \* the user commands this host exposes
    MaxCommands,     \* bound: user commands and restarts per behaviour
    MaxReboots,      \* bound: process restarts per behaviour
    NoTask           \* no task, e.g. no Boost target

AllCommands == {"create", "pause", "resume", "cancel", "delete", "restart",
                "boost", "limit", "batchDelete", "queue"}

ASSUME TasksAssumption == /\ NoTask \notin Tasks
                          /\ Resolvable \subseteq Tasks
                          /\ Stored \subseteq Tasks
ASSUME QueueAssumption == /\ QueueOf \in [Tasks -> Queues]
                          /\ QueueMax \in [Queues -> Nat]
ASSUME BoundAssumption == /\ Limits \subseteq Nat
                          /\ MaxAutoRetries \in Nat
                          /\ MaxCommands \in Nat
                          /\ MaxReboots \in Nat
ASSUME CommandAssumption == Commands \subseteq AllCommands

VARIABLES
    active,      \* active_tasks: gen 0 = no entry; spawned = handle.is_some()
    queue,       \* pending_queue
    pauses,      \* pending_pauses: gen 0 = no entry
    resolving,   \* pending_resolve: the generation, 0 = no entry
    retrySched,  \* retry_scheduled
    retryCount,  \* auto_retry_counts
    boost,       \* priority_task_id
    autoPaused,  \* auto_paused_ids
    occupied,    \* occupied_queues
    maxc,        \* max_concurrent
    gen,         \* generation
    agenda,      \* what the running handler still has to do
    db,          \* the tasks table: status and error_message of each row
    spawns,      \* spawned downloads that have not sent their TaskDone
    doneCh,      \* done_tx -> done_rx
    outcomes,    \* resolve workers in flight and results not received yet
    timers,      \* delayed retries that have not arrived on retry_rx
    cmds,        \* user commands issued (bound)
    reboots      \* restarts so far (bound)

actorVars == <<active, queue, pauses, resolving, retrySched,
               retryCount, boost, autoPaused, occupied, maxc, gen>>
vars == <<active, queue, pauses, resolving, retrySched, retryCount,
          boost, autoPaused, occupied, maxc, gen, agenda, db, spawns, doneCh,
          outcomes, timers, cmds, reboots>>

-----------------------------------------------------------------------------
(* Tables and rows *)

NoEntry == [gen |-> 0, spawned |-> FALSE]
NoPause == [gen |-> 0, resume |-> FALSE]

Live == {"pending", "downloading", "paused", "completed", "error", "preparing"}
Row == [status : Live \cup {"none", "deleted"},
        err : {"", "cancelled", "retriable", "fatal"}]

IsActive(t) == active[t].gen # 0
ActiveTasks == {t \in Tasks : IsActive(t)}
HasRow(t) == db[t].status \in Live

(* UPDATE tasks SET status = s, error_message = e WHERE id = t *)
UpdateStatus(t, s, e) ==
    IF HasRow(t) THEN [db EXCEPT ![t] = [status |-> s, err |-> e]] ELSE db

QueuedTasks(q) == {q[i] : i \in 1..Len(q)}

(* pending_queue.retain(|q| !S.contains(q)) *)
Without(q, S) ==
    LET kept[i \in 0..Len(q)] ==
          IF i = 0 THEN <<>>
          ELSE IF q[i] \in S THEN kept[i - 1] ELSE Append(kept[i - 1], q[i])
    IN kept[Len(q)]

Unqueue(q, t) == Without(q, {t})

has_capacity == maxc = 0 \/ Cardinality(ActiveTasks) < maxc

has_queue_capacity_Ignored(q) == TRUE

has_queue_capacity(q) ==
    \/ QueueMax[q] = 0
    \/ Cardinality({t \in ActiveTasks : QueueOf[t] = q}) < QueueMax[q]

HasRoom(t) == has_capacity /\ has_queue_capacity(QueueOf[t])

(* A pause is outstanding: its generation has not reported its TaskDone. *)
Flushing_Forgotten(t) == FALSE
Flushing(t) == pauses[t].gen # 0

AlreadyQueued(t) == t \in QueuedTasks(queue)

(* has_spawned_downloader: the entry is not the placeholder of a resolve. *)
HasDownloader_Always(t) == TRUE
HasDownloader(t) == active[t].spawned

(* generation_matched: the report is about the generation in active_tasks. *)
GenerationMatched_Never(t, g) == FALSE
GenerationMatched(t, g) == active[t].gen = g

CancelToken(g) ==
    {IF s.gen = g THEN [s EXCEPT !.cancelled = TRUE] ELSE s : s \in spawns}

-----------------------------------------------------------------------------
(* The agenda: what one handler still has to do, head first. *)

Op == [op : {"drain", "sync", "clearBoost"}]
      \cup [op : {"pause", "resume", "resumeAuto", "guardBoost", "reset",
                  "retry", "erase", "boostActive", "boostQueued",
                  "boostStray", "boostCheck"}, task : Tasks]
      \cup [op : {"finish", "reap"}, task : Tasks, gen : Nat]
      \cup [op : {"drainLoop"}, rest : Seq(Tasks), kept : Seq(Tasks)]
      \cup [op : {"unboost", "autoPause", "pauseBatch", "loadBatch", "eraseBatch",
                  "forget"}, set : SUBSET Tasks]
      \cup [op : {"reapBatch"}, set : SUBSET Tasks, gens : SUBSET Nat]
      \cup [op : {"resumeBatch"}, queued : SUBSET Tasks,
            rows : [Tasks -> Live \cup {"none"}]]
      \cup [op : {"boostStart"}, task : Tasks, queued : BOOLEAN]

Drain == [op |-> "drain"]
Sync == [op |-> "sync"]
ClearBoost == [op |-> "clearBoost"]
Do(name, t) == [op |-> name, task |-> t]

Idle == agenda = <<>>
Running(name) == agenda # <<>> /\ Head(agenda).op = name
Continue(ops) == agenda' = ops \o Tail(agenda)
Begin(ops) == Idle /\ agenda' = ops

Opt(cond, op) == IF cond THEN <<op>> ELSE <<>>

-----------------------------------------------------------------------------
(* do_start_task and do_resume_task: a fresh generation either spawns the   *)
(* downloader or, for a plugin task not resolved yet, only a placeholder    *)
(* entry and an off-actor resolve worker, whose answer re-enters here.      *)

SpawnDownload(t) ==
    /\ gen' = gen + 1
    /\ active' = [active EXCEPT ![t] = [gen |-> gen + 1, spawned |-> TRUE]]
    /\ spawns' = spawns \cup {[gen |-> gen + 1, task |-> t, pc |-> "start",
                               cancelled |-> FALSE]}

BeginResolve(t) ==
    /\ gen' = gen + 1
    /\ active' = [active EXCEPT ![t] = [gen |-> gen + 1, spawned |-> FALSE]]
    /\ resolving' = [resolving EXCEPT ![t] = gen + 1]
    /\ outcomes' = outcomes \cup {[task |-> t, gen |-> gen + 1]}

do_resume_task(t) ==
    \/ /\ ~HasRow(t)
       /\ UNCHANGED <<active, gen, spawns, resolving, outcomes>>
    \/ /\ HasRow(t) /\ t \in Resolvable
       /\ BeginResolve(t)
       /\ UNCHANGED spawns
    \/ /\ HasRow(t) /\ t \notin Resolvable
       /\ SpawnDownload(t)
       /\ UNCHANGED <<resolving, outcomes>>

(* A new row has just been inserted. *)
do_start_task(t) ==
    \/ /\ t \in Resolvable
       /\ BeginResolve(t)
       /\ UNCHANGED spawns
    \/ /\ t \notin Resolvable
       /\ SpawnDownload(t)
       /\ UNCHANGED <<resolving, outcomes>>

-----------------------------------------------------------------------------
(* Steps of a handler.  Each one executes the head of the agenda. *)

(* drain_queue: take the whole queue, then examine its items in order. *)
DrainQueue ==
    /\ Running("drain")
    /\ queue' = <<>>
    /\ Continue(<<[op |-> "drainLoop", rest |-> queue, kept |-> <<>>]>>)
    /\ UNCHANGED <<active, pauses, resolving, retrySched, retryCount,
                   boost, autoPaused, occupied, maxc, gen, db, spawns, doneCh,
                   outcomes, timers, cmds, reboots>>

LoopEnds_OneShort(rest) ==
    rest = <<>> \/ (maxc # 0 /\ Cardinality(ActiveTasks) + 1 >= maxc)

(* The end of the loop, or a full global limit: keep what is left. *)
LoopEnds(rest) == rest = <<>> \/ ~has_capacity

DrainEnd ==
    /\ Running("drainLoop")
    /\ LET d == Head(agenda) IN
         /\ LoopEnds(d.rest)
         /\ queue' = d.kept \o d.rest
         /\ Continue(<<>>)
    /\ UNCHANGED <<active, pauses, resolving, retrySched, retryCount,
                   boost, autoPaused, occupied, maxc, gen, db, spawns, doneCh,
                   outcomes, timers, cmds, reboots>>

(* One item: dropped when its task is active, kept when its named queue is  *)
(* full, started otherwise.                                                 *)
DrainItem ==
    /\ Running("drainLoop")
    /\ LET d == Head(agenda)
           x == Head(d.rest)
           keep == ~IsActive(x) /\ ~has_queue_capacity(QueueOf[x])
       IN /\ ~LoopEnds(d.rest)
          /\ Continue(<<[op |-> "drainLoop", rest |-> Tail(d.rest),
                         kept |-> IF keep THEN Append(d.kept, x) ELSE d.kept]>>)
          /\ IF IsActive(x) \/ keep
               THEN UNCHANGED <<active, gen, spawns, resolving, outcomes>>
               ELSE do_resume_task(x)
    /\ UNCHANGED <<queue, pauses, retrySched, retryCount, boost, autoPaused,
                   occupied, maxc, db, doneCh, timers, cmds, reboots>>

(* Tasks that run, wait in the queue or wait for an automatic retry. *)
Occupying_NoRetries == ActiveTasks \cup QueuedTasks(queue)
Occupying == ActiveTasks \cup QueuedTasks(queue) \cup retrySched

OccupiedQueues == {QueueOf[t] : t \in Occupying}

(* sync_queue_occupancy: a queue that stops being occupied is announced by  *)
(* the `queue.drained` webhook, that is, by leaving `occupied`.             *)
sync_queue_occupancy ==
    /\ Running("sync")
    /\ occupied' = OccupiedQueues
    /\ Continue(<<>>)
    /\ UNCHANGED <<active, queue, pauses, resolving, retrySched,
                   retryCount, boost, autoPaused, maxc, gen, db, spawns, doneCh,
                   outcomes, timers, cmds, reboots>>

(* pause_task_inner.  A spawned download is only told to stop: its entry    *)
(* leaves active_tasks now, the pause itself ends with its TaskDone.        *)
PauseTaskInner(t) ==
    /\ Running("pause") /\ Head(agenda).task = t
    /\ resolving' = [resolving EXCEPT ![t] = 0]
    /\ retrySched' = retrySched \ {t}
    /\ \/ /\ Flushing(t)
          /\ Continue(<<Sync>>)
          /\ UNCHANGED <<active, queue, pauses, db, spawns>>
       \/ /\ ~Flushing(t) /\ AlreadyQueued(t)
          /\ queue' = Unqueue(queue, t)
          /\ db' = UpdateStatus(t, "paused", "")
          /\ Continue(<<Sync>>)
          /\ UNCHANGED <<active, pauses, spawns>>
       \/ /\ ~Flushing(t) /\ ~AlreadyQueued(t) /\ IsActive(t)
          /\ active' = [active EXCEPT ![t] = NoEntry]
          /\ spawns' = CancelToken(active[t].gen)
          /\ pauses' = IF HasDownloader(t)
                         THEN [pauses EXCEPT ![t] = [gen |-> active[t].gen,
                                                     resume |-> FALSE]]
                         ELSE pauses
          /\ db' = UpdateStatus(t, "paused", "")
          /\ Continue(<<Drain, Do("guardBoost", t), Sync>>)
          /\ UNCHANGED queue
       \/ /\ ~Flushing(t) /\ ~AlreadyQueued(t) /\ ~IsActive(t)
          /\ Continue(<<Sync>>)
          /\ UNCHANGED <<active, queue, pauses, db, spawns>>
    /\ UNCHANGED <<retryCount, boost, autoPaused, occupied, maxc, gen, doneCh,
                   outcomes, timers, cmds, reboots>>

GuardBoost_Never(t) ==
    /\ Running("guardBoost") /\ Head(agenda).task = t
    /\ Continue(<<>>)
    /\ UNCHANGED <<actorVars, db, spawns, doneCh, outcomes, timers, cmds, reboots>>

(* Pausing or deleting the Boost target ends Boost. *)
GuardBoost(t) ==
    /\ Running("guardBoost") /\ Head(agenda).task = t
    /\ Continue(Opt(boost = t, ClearBoost))
    /\ UNCHANGED <<actorVars, db, spawns, doneCh, outcomes, timers, cmds, reboots>>

(* What resume_task_inner and resume_task_with_row have in common, for a    *)
(* task whose row said `status`.  The handler goes on with `otherwise` if   *)
(* nothing starts, with `started` after a start, and with `queued` when the *)
(* task is appended to the queue; the table is then `row`.                  *)
TryResume(t, status, otherwise, started, queued, row) ==
    LET latched == Flushing(t)
        busy == IsActive(t) /\ status \notin {"completed", "error"}
        go == ~latched /\ ~busy /\ ~AlreadyQueued(t)
        (* a stale entry is force-removed before the room is counted *)
        others == ActiveTasks \ {t}
        room == /\ maxc = 0 \/ Cardinality(others) < maxc
                /\ \/ QueueMax[QueueOf[t]] = 0
                   \/ Cardinality({u \in others : QueueOf[u] = QueueOf[t]})
                        < QueueMax[QueueOf[t]]
    IN \/ /\ latched
          /\ pauses' = [pauses EXCEPT ![t].resume = TRUE]
          /\ Continue(otherwise)
          /\ UNCHANGED <<active, queue, gen, spawns, resolving, outcomes, db>>
       \/ /\ ~latched /\ busy
          /\ Continue(otherwise)
          /\ UNCHANGED <<active, queue, pauses, gen, spawns, resolving, outcomes, db>>
       \/ /\ ~latched /\ ~busy /\ AlreadyQueued(t)
          /\ active' = [active EXCEPT ![t] = NoEntry]
          /\ Continue(otherwise)
          /\ UNCHANGED <<queue, pauses, gen, spawns, resolving, outcomes, db>>
       \/ /\ go /\ room
          /\ do_resume_task(t)
          /\ Continue(started)
          /\ UNCHANGED <<queue, pauses, db>>
       \/ /\ go /\ ~room
          /\ active' = [active EXCEPT ![t] = NoEntry]
          /\ queue' = IF HasRow(t) THEN Append(queue, t) ELSE queue
          /\ db' = row
          /\ Continue(queued)
          /\ UNCHANGED <<pauses, gen, spawns, resolving, outcomes>>

(* resume_task_inner.  `resume` is resume_task (a user's request, fresh     *)
(* retry budget), `resumeAuto` resume_task_auto.                            *)
ResumeTaskInner(t) ==
    /\ Running("resume") \/ Running("resumeAuto")
    /\ Head(agenda).task = t
    /\ retryCount' = IF Running("resume") THEN [retryCount EXCEPT ![t] = 0]
                                          ELSE retryCount
    /\ retrySched' = retrySched \ {t}
    /\ TryResume(t, db[t].status, <<>>, <<Drain, Sync>>, <<Sync>>,
                 IF db[t].status = "completed" THEN db ELSE UpdateStatus(t, "pending", ""))
    /\ UNCHANGED <<boost, autoPaused, occupied, maxc, doneCh, timers, cmds,
                   reboots>>

(* finish_pending_pause, then the drain and the latched resume that follow  *)
(* it in on_task_done.                                                      *)
FinishPendingPause(t) ==
    /\ Running("finish") /\ Head(agenda).task = t
    /\ LET g == Head(agenda).gen
           mine == pauses[t].gen = g
           newer == IsActive(t) /\ active[t].gen # g
           again == /\ mine /\ ~newer /\ pauses[t].resume
                    /\ db[t].status \in {"pending", "paused"}
       IN /\ pauses' = IF mine THEN [pauses EXCEPT ![t] = NoPause] ELSE pauses
          /\ Continue(<<Drain>> \o Opt(again, Do("resumeAuto", t)))
    /\ UNCHANGED <<active, queue, resolving, retrySched, retryCount,
                   boost, autoPaused, occupied, maxc, gen, db, spawns, doneCh,
                   outcomes, timers, cmds, reboots>>

(* The tail of on_task_done for the current generation: schedule an         *)
(* automatic retry, or close the retry account of a completed task.         *)
AutoRetry(t) ==
    /\ Running("retry") /\ Head(agenda).task = t
    /\ LET retry == /\ MaxAutoRetries # 0
                    /\ db[t].status = "error" /\ db[t].err = "retriable"
                    /\ retryCount[t] < MaxAutoRetries
       IN /\ retryCount' = [retryCount EXCEPT ![t] =
                              IF retry THEN @ + 1
                              ELSE IF db[t].status = "completed" THEN 0 ELSE @]
          /\ timers' = IF retry THEN [timers EXCEPT ![t] = @ + 1] ELSE timers
          /\ retrySched' = IF retry THEN retrySched \cup {t} ELSE retrySched
    /\ Continue(<<>>)
    /\ UNCHANGED <<active, queue, pauses, resolving, boost, autoPaused,
                   occupied, maxc, gen, db, spawns, doneCh, outcomes, cmds,
                   reboots>>

ClearPriority_KeepsSet ==
    /\ Running("clearBoost")
    /\ boost' = NoTask
    /\ Continue(<<[op |-> "unboost", set |-> autoPaused]>>)
    /\ UNCHANGED <<active, queue, pauses, resolving, retrySched, retryCount,
                   autoPaused, occupied, maxc, gen, db, spawns, doneCh,
                   outcomes, timers, cmds, reboots>>

(* clear_priority: Boost ends and every task it paused is resumed, except   *)
(* those completed meanwhile.                                               *)
ClearPriority ==
    /\ Running("clearBoost")
    /\ boost' = NoTask
    /\ autoPaused' = {}
    /\ Continue(<<[op |-> "unboost", set |-> autoPaused]>>)
    /\ UNCHANGED <<active, queue, pauses, resolving, retrySched,
                   retryCount, occupied, maxc, gen, db, spawns, doneCh,
                   outcomes, timers, cmds, reboots>>

ResumeBoosted(t) ==
    /\ Running("unboost") /\ t \in Head(agenda).set
    /\ Continue(Opt(db[t].status # "completed", Do("resume", t))
                \o <<[Head(agenda) EXCEPT !.set = @ \ {t}]>>)
    /\ UNCHANGED <<actorVars, db, spawns, doneCh, outcomes, timers, cmds, reboots>>

EndSet ==
    /\ \E op \in {"unboost", "autoPause", "pauseBatch", "forget"} : Running(op)
    /\ Head(agenda).set = {}
    /\ Continue(<<>>)
    /\ UNCHANGED <<actorVars, db, spawns, doneCh, outcomes, timers, cmds, reboots>>

(* set_priority_task, steps 2 to 4: pause the active tasks, then the queued *)
(* ones, then those a drain promoted in between (unless they are already    *)
(* in auto_paused_ids).                                                     *)
BoostCollect(t) ==
    /\ Running("boostActive") \/ Running("boostQueued") \/ Running("boostStray")
    /\ Head(agenda).task = t
    /\ Continue(<<[op |-> "autoPause",
                   set |-> CASE Running("boostActive") -> ActiveTasks \ {t}
                             [] Running("boostQueued") -> QueuedTasks(queue) \ {t}
                             [] Running("boostStray") ->
                                  ActiveTasks \ ({t} \cup autoPaused)]>>)
    /\ UNCHANGED <<actorVars, db, spawns, doneCh, outcomes, timers, cmds, reboots>>

AutoPause(t) ==
    /\ Running("autoPause") /\ t \in Head(agenda).set
    /\ autoPaused' = autoPaused \cup {t}
    /\ Continue(<<Do("pause", t), [Head(agenda) EXCEPT !.set = @ \ {t}]>>)
    /\ UNCHANGED <<active, queue, pauses, resolving, retrySched,
                   retryCount, boost, occupied, maxc, gen, db, spawns, doneCh,
                   outcomes, timers, cmds, reboots>>

(* set_priority_task, step 5: start the target; a target taken out of the   *)
(* pending queue starts without another look at the limits.                 *)
BoostStart(t) ==
    /\ Running("boostStart") /\ Head(agenda).task = t
    /\ boost' = t
    /\ LET direct == ~IsActive(t) /\ Head(agenda).queued
       IN /\ autoPaused' = IF IsActive(t) THEN autoPaused ELSE autoPaused \ {t}
          /\ IF direct
               THEN do_resume_task(t)
               ELSE UNCHANGED <<active, gen, spawns, resolving, outcomes>>
          /\ Continue(Opt(~IsActive(t) /\ ~direct, Do("resume", t))
                      \o <<Do("boostCheck", t)>>)
    /\ UNCHANGED <<queue, pauses, retrySched, retryCount, occupied, maxc, db,
                   doneCh, timers, cmds, reboots>>

(* A target that did not start ends Boost again. *)
BoostCheck(t) ==
    /\ Running("boostCheck") /\ Head(agenda).task = t
    /\ Continue(Opt(~IsActive(t), ClearBoost))
    /\ UNCHANGED <<actorVars, db, spawns, doneCh, outcomes, timers, cmds, reboots>>

(* delete_task waits for the cancelled download; after five seconds it      *)
(* aborts it, and an aborted download never sends its TaskDone.             *)
ReapHandle(t) ==
    /\ Running("reap") /\ Head(agenda).task = t
    /\ LET g == Head(agenda).gen IN
         spawns' = {s \in spawns : s.gen # g}
    /\ Continue(<<Do("erase", t)>>)
    /\ UNCHANGED <<actorVars, db, doneCh, outcomes, timers, cmds, reboots>>

EraseTask(t) ==
    /\ Running("erase") /\ Head(agenda).task = t
    /\ db' = UpdateStatus(t, "deleted", "")
    /\ autoPaused' = autoPaused \ {t}
    /\ Continue(Opt(boost = t, ClearBoost) \o <<Drain, Sync>>)
    /\ UNCHANGED <<active, queue, pauses, resolving, retrySched,
                   retryCount, boost, occupied, maxc, gen, spawns, doneCh,
                   outcomes, timers, cmds, reboots>>

(* restart_task after the pause: drop the files and the progress, put the   *)
(* row back to pending and forget the retry state.                          *)
ResetTask(t) ==
    /\ Running("reset") /\ Head(agenda).task = t
    /\ db' = UpdateStatus(t, "pending", "")
    /\ retryCount' = [retryCount EXCEPT ![t] = 0]
    /\ retrySched' = retrySched \ {t}
    /\ Continue(<<Do("resume", t)>>)
    /\ UNCHANGED <<active, queue, pauses, resolving, boost, autoPaused,
                   occupied, maxc, gen, spawns, doneCh, outcomes, timers, cmds,
                   reboots>>

(* batch_pause, its loop over the active tasks it found. *)
PauseBatchItem(t) ==
    /\ Running("pauseBatch") /\ t \in Head(agenda).set
    /\ Continue(<<Do("pause", t), [Head(agenda) EXCEPT !.set = @ \ {t}]>>)
    /\ UNCHANGED <<actorVars, db, spawns, doneCh, outcomes, timers, cmds, reboots>>

(* batch_resume reads every row at once ... *)
LoadBatch ==
    /\ Running("loadBatch")
    /\ Continue(<<[op |-> "resumeBatch", queued |-> {},
                   rows |-> [t \in Tasks |-> IF t \in Head(agenda).set /\ HasRow(t)
                                              THEN db[t].status ELSE "none"]]>>)
    /\ UNCHANGED <<actorVars, db, spawns, doneCh, outcomes, timers, cmds, reboots>>

(* ... resumes the tasks by what it has read (resume_task_with_row) ... *)
ResumeWithRow(t) ==
    /\ Running("resumeBatch") /\ Head(agenda).rows[t] # "none"
    /\ LET b == Head(agenda)
           rest == [b EXCEPT !.rows[t] = "none"]
           waits == [rest EXCEPT !.queued = IF b.rows[t] = "completed" THEN @ ELSE @ \cup {t}]
       IN TryResume(t, b.rows[t], <<rest>>, <<Drain, rest>>, <<waits>>, db)
    /\ retryCount' = [retryCount EXCEPT ![t] = 0]
    /\ UNCHANGED <<retrySched, boost, autoPaused, occupied, maxc, doneCh, timers, cmds,
                   reboots>>

(* ... and writes `pending` to those it queued, whatever became of them.    *)
BatchResumed ==
    /\ Running("resumeBatch")
    /\ LET b == Head(agenda)
       IN /\ \A t \in Tasks : b.rows[t] = "none"
          /\ db' = [t \in Tasks |-> IF t \in b.queued
                                     THEN UpdateStatus(t, "pending", "")[t] ELSE db[t]]
    /\ Continue(<<>>)
    /\ UNCHANGED <<actorVars, spawns, doneCh, outcomes, timers, cmds, reboots>>

(* delete_tasks_batch waits for all downloads it cancelled, or aborts them, *)
(* deletes the rows in one transaction ...                                  *)
ReapBatch ==
    /\ Running("reapBatch")
    /\ spawns' = {s \in spawns : s.gen \notin Head(agenda).gens}
    /\ Continue(<<[op |-> "eraseBatch", set |-> Head(agenda).set]>>)
    /\ UNCHANGED <<actorVars, db, doneCh, outcomes, timers, cmds, reboots>>

EraseBatch ==
    /\ Running("eraseBatch")
    /\ LET S == Head(agenda).set
       IN /\ db' = [t \in Tasks |-> IF t \in S THEN UpdateStatus(t, "deleted", "")[t] ELSE db[t]]
          /\ Continue(<<[op |-> "forget", set |-> S], Drain, Sync>>)
    /\ UNCHANGED <<actorVars, spawns, doneCh, outcomes, timers, cmds, reboots>>

(* ... and forgets the tasks one by one; the end of a Boost comes in        *)
(* between.                                                                 *)
ForgetDeleted(t) ==
    /\ Running("forget") /\ t \in Head(agenda).set
    /\ autoPaused' = autoPaused \ {t}
    /\ retrySched' = retrySched \ {t}
    /\ Continue(Opt(boost = t, ClearBoost) \o <<[Head(agenda) EXCEPT !.set = @ \ {t}]>>)
    /\ UNCHANGED <<active, queue, pauses, resolving, retryCount, boost, occupied, maxc,
                   gen, db, spawns, doneCh, outcomes, timers, cmds, reboots>>

HandlerStep ==
    \/ LoadBatch \/ BatchResumed \/ ReapBatch \/ EraseBatch
    \/ DrainQueue \/ DrainEnd \/ DrainItem \/ sync_queue_occupancy
    \/ ClearPriority \/ EndSet
    \/ \E t \in Tasks :
         \/ PauseTaskInner(t) \/ GuardBoost(t) \/ ResumeTaskInner(t)
         \/ FinishPendingPause(t) \/ AutoRetry(t) \/ ResumeBoosted(t)
         \/ BoostCollect(t) \/ AutoPause(t) \/ BoostStart(t) \/ BoostCheck(t)
         \/ ReapHandle(t) \/ EraseTask(t) \/ ResetTask(t)
         \/ PauseBatchItem(t) \/ ResumeWithRow(t) \/ ForgetDeleted(t)

-----------------------------------------------------------------------------
(* User commands, taken by an idle actor. *)

Command(name) ==
    /\ Idle
    /\ name \in Commands
    /\ cmds < MaxCommands
    /\ cmds' = cmds + 1
    /\ UNCHANGED <<doneCh, timers, reboots>>

(* A task id some client knows; the row may have been deleted meanwhile. *)
Known(t) == db[t].status # "none"

(* create_task: insert the row, then start it, queue it, or leave it for    *)
(* later (start_paused).                                                    *)
CreateTask(t, later) ==
    /\ Command("create")
    /\ db[t].status = "none"
    /\ db' = [db EXCEPT ![t] = [status |-> IF later THEN "paused" ELSE "pending",
                                err |-> ""]]
    /\ \/ /\ later
          /\ agenda' = <<>>
          /\ UNCHANGED <<active, gen, spawns, resolving, outcomes, queue>>
       \/ /\ ~later /\ HasRoom(t)
          /\ do_start_task(t)
          /\ agenda' = <<Drain, Sync>>
          /\ UNCHANGED queue
       \/ /\ ~later /\ ~HasRoom(t)
          /\ queue' = Append(queue, t)
          /\ agenda' = <<Sync>>
          /\ UNCHANGED <<active, gen, spawns, resolving, outcomes>>
    /\ UNCHANGED <<pauses, retrySched, retryCount, boost, autoPaused, occupied,
                   maxc>>

PauseTask(t) ==
    /\ Command("pause")
    /\ Known(t)
    /\ agenda' = <<Do("pause", t)>>
    /\ UNCHANGED <<actorVars, db, spawns, outcomes>>

ResumeTask(t) ==
    /\ Command("resume")
    /\ Known(t)
    /\ agenda' = <<Do("resume", t)>>
    /\ UNCHANGED <<actorVars, db, spawns, outcomes>>

(* cancel_task: like a pause, but the row ends in error "cancelled" and no  *)
(* pending pause is recorded.                                               *)
CancelledRow(t) ==
    /\ retryCount' = [retryCount EXCEPT ![t] = 0]
    /\ resolving' = [resolving EXCEPT ![t] = 0]
    /\ queue' = Unqueue(queue, t)
    /\ active' = [active EXCEPT ![t] = NoEntry]
    /\ spawns' = IF IsActive(t) THEN CancelToken(active[t].gen) ELSE spawns
    /\ db' = UpdateStatus(t, "error", "cancelled")
    /\ agenda' = <<Drain>>
    /\ UNCHANGED <<pauses, retrySched, boost, autoPaused, occupied, maxc, gen>>

CancelTask(t) ==
    /\ Command("cancel")
    /\ Known(t)
    /\ CancelledRow(t)
    /\ UNCHANGED outcomes

(* delete_task up to its wait for the download's handle. *)
DeleteTask(t) ==
    /\ Command("delete")
    /\ Known(t)
    /\ retryCount' = [retryCount EXCEPT ![t] = 0]
    /\ retrySched' = retrySched \ {t}
    /\ resolving' = [resolving EXCEPT ![t] = 0]
    /\ queue' = Unqueue(queue, t)
    /\ active' = [active EXCEPT ![t] = NoEntry]
    /\ spawns' = IF IsActive(t) THEN CancelToken(active[t].gen) ELSE spawns
    /\ agenda' = IF active[t].spawned
                   THEN <<[op |-> "reap", task |-> t, gen |-> active[t].gen]>>
                   ELSE <<Do("erase", t)>>
    /\ UNCHANGED <<pauses, boost, autoPaused, occupied, maxc, gen, db, outcomes>>

RestartTask(t) ==
    /\ Command("restart")
    /\ HasRow(t)
    /\ agenda' = Opt(\/ IsActive(t)
                     \/ db[t].status \in {"pending", "downloading", "preparing"},
                     Do("pause", t))
                 \o <<Do("reset", t)>>
    /\ UNCHANGED <<actorVars, db, spawns, outcomes>>

(* set_priority_task, up to step 1. *)
SetPriorityTask(t) ==
    /\ Command("boost")
    /\ Known(t)
    /\ \/ /\ boost = t
          /\ agenda' = <<ClearBoost>>
          /\ UNCHANGED <<boost, autoPaused, queue>>
       \/ /\ boost # t
          /\ boost' = NoTask
          /\ autoPaused' = autoPaused \ {t}
          /\ queue' = Unqueue(queue, t)
          /\ agenda' = <<Do("boostActive", t), Do("boostQueued", t),
                         Do("boostStray", t),
                         [op |-> "boostStart", task |-> t,
                          queued |-> t \in QueuedTasks(queue)]>>
    /\ UNCHANGED <<active, pauses, resolving, retrySched, retryCount,
                   occupied, maxc, gen, db, spawns, outcomes>>

SetMaxConcurrent_NoDrain(n) ==
    /\ Command("limit")
    /\ n # maxc
    /\ maxc' = n
    /\ agenda' = <<>>
    /\ UNCHANGED <<active, queue, pauses, resolving, retrySched,
                   retryCount, boost, autoPaused, occupied, gen, db, spawns,
                   outcomes>>

SetMaxConcurrent(n) ==
    /\ Command("limit")
    /\ n # maxc
    /\ maxc' = n
    /\ agenda' = <<Drain>>
    /\ UNCHANGED <<active, queue, pauses, resolving, retrySched,
                   retryCount, boost, autoPaused, occupied, gen, db, spawns,
                   outcomes>>

(* Batches.  Groups, "pause all" and "resume all" call the same handlers    *)
(* with other sets of tasks than the queues here.                           *)

(* batch_pause: the queued tasks first, so that no drain promotes them,     *)
(* then the active ones.                                                    *)
batch_pause(S) ==
    /\ queue' = Without(queue, S)
    /\ LET queued == S \cap QueuedTasks(queue)
       IN /\ resolving' = [t \in Tasks |-> IF t \in queued THEN 0 ELSE resolving[t]]
          /\ db' = [t \in Tasks |-> IF t \in queued
                                     THEN UpdateStatus(t, "paused", "")[t] ELSE db[t]]
    /\ agenda' = <<[op |-> "pauseBatch", set |-> S \cap ActiveTasks]>>
    /\ UNCHANGED <<active, pauses, retrySched, retryCount, boost, autoPaused, occupied,
                   maxc, gen, spawns, outcomes>>

(* batch_resume, see LoadBatch. *)
batch_resume(S) ==
    /\ agenda' = <<[op |-> "loadBatch", set |-> S]>>
    /\ UNCHANGED <<actorVars, db, spawns, outcomes>>

(* start_queue and stop_queue, by the user or by the schedule.  The flag    *)
(* is_running only says which tasks "resume all" is about.                  *)
StartQueue(q) ==
    /\ Command("queue")
    /\ batch_resume({t \in Tasks : QueueOf[t] = q /\ db[t].status \in {"pending", "paused"}})

StopQueue(q) ==
    /\ Command("queue")
    /\ batch_pause({t \in ActiveTasks \cup QueuedTasks(queue) : QueueOf[t] = q})

(* delete_tasks_batch up to its wait; unlike delete_task it does not forget *)
(* a resolve in flight.                                                     *)
DeleteTasksBatch(S) ==
    /\ Command("batchDelete")
    /\ queue' = Without(queue, S)
    /\ active' = [t \in Tasks |-> IF t \in S THEN NoEntry ELSE active[t]]
    /\ retryCount' = [t \in Tasks |-> IF t \in S /\ HasRow(t) THEN 0 ELSE retryCount[t]]
    /\ LET gens == {active[t].gen : t \in S \cap ActiveTasks}
           waited == {active[t].gen : t \in {u \in S : active[u].spawned}}
       IN /\ spawns' = {IF s.gen \in gens THEN [s EXCEPT !.cancelled = TRUE] ELSE s : s \in spawns}
          /\ agenda' = <<[op |-> "reapBatch", set |-> S, gens |-> waited]>>
    /\ UNCHANGED <<pauses, resolving, retrySched, boost, autoPaused, occupied, maxc, gen,
                   db, outcomes>>

(* The tasks of a batch: some that a client knows. *)
Batch == SUBSET {t \in Tasks : Known(t)} \ {{}}

UserCommand ==
    \/ \E S \in Batch : DeleteTasksBatch(S)
    \/ \E q \in Queues : StartQueue(q) \/ StopQueue(q)
    \/ \E t \in Tasks, later \in BOOLEAN : CreateTask(t, later)
    \/ \E t \in Tasks : \/ PauseTask(t) \/ ResumeTask(t) \/ CancelTask(t)
                         \/ DeleteTask(t) \/ RestartTask(t)
                         \/ SetPriorityTask(t)
    \/ \E n \in Limits : SetMaxConcurrent(n)

-----------------------------------------------------------------------------
(* Messages received by the actor's loop. *)

(* on_task_done, up to its first nested call. *)
OnTaskDone ==
    /\ Idle /\ doneCh # <<>>
    /\ LET t == Head(doneCh).task
           g == Head(doneCh).gen
           matched == GenerationMatched(t, g)
       IN /\ active' = IF matched THEN [active EXCEPT ![t] = NoEntry] ELSE active
          /\ agenda' = Opt(matched /\ boost = t, ClearBoost)
                       \o <<[op |-> "finish", task |-> t, gen |-> g]>>
                       \o Opt(matched, Do("retry", t)) \o <<Sync>>
    /\ doneCh' = Tail(doneCh)
    /\ UNCHANGED <<queue, pauses, resolving, retrySched, retryCount,
                   boost, autoPaused, occupied, maxc, gen, db, spawns, outcomes,
                   timers, cmds, reboots>>

is_task_in_error(t) == db[t].status = "error" /\ db[t].err # "cancelled"

(* A delayed retry arrives on retry_rx; its timer cannot be aborted. *)
OnRetry(t) ==
    /\ Idle /\ timers[t] > 0
    /\ timers' = [timers EXCEPT ![t] = @ - 1]
    /\ agenda' = Opt(is_task_in_error(t), Do("resumeAuto", t))
    /\ UNCHANGED <<actorVars, db, spawns, doneCh, outcomes, cmds, reboots>>

(* on_resolve_ready.  A result whose generation is not the one waited for   *)
(* may only clear its own placeholder.                                      *)
OnResolveStale(o) ==
    /\ resolving[o.task] # o.gen
    /\ LET mine == active[o.task].gen = o.gen
       IN /\ active' = IF mine THEN [active EXCEPT ![o.task] = NoEntry] ELSE active
          /\ agenda' = Opt(mine, Drain)
    /\ UNCHANGED <<queue, pauses, resolving, retryCount, retrySched,
                   boost, autoPaused, occupied, maxc, gen, db, spawns>>

(* The row was deleted meanwhile, by a batch. *)
OnResolveGone(o) ==
    /\ resolving[o.task] = o.gen /\ ~HasRow(o.task)
    /\ resolving' = [resolving EXCEPT ![o.task] = 0]
    /\ active' = [active EXCEPT ![o.task] = NoEntry]
    /\ agenda' = <<Drain>>
    /\ UNCHANGED <<queue, pauses, retryCount, retrySched, boost, autoPaused, occupied,
                   maxc, gen, db, spawns>>

(* The download starts in the slot of its placeholder.  (Left out: the     *)
(* fission of a resolved manifest into tasks of its own.)                 *)
OnResolveOk(o) ==
    /\ resolving[o.task] = o.gen /\ HasRow(o.task)
    /\ SpawnDownload(o.task)
    /\ resolving' = [resolving EXCEPT ![o.task] = 0]
    /\ agenda' = <<Drain>>
    /\ UNCHANGED <<queue, pauses, retryCount, retrySched, boost,
                   autoPaused, occupied, maxc, db>>

OnResolveError_KeepsSlot(o) ==
    /\ resolving[o.task] = o.gen /\ HasRow(o.task)
    /\ db' = UpdateStatus(o.task, "error", "fatal")
    /\ resolving' = [resolving EXCEPT ![o.task] = 0]
    /\ agenda' = <<Drain>>
    /\ UNCHANGED <<active, queue, pauses, retryCount, retrySched, boost,
                   autoPaused, occupied, maxc, gen, spawns>>

OnResolveError(o) ==
    /\ resolving[o.task] = o.gen /\ HasRow(o.task)
    /\ db' = UpdateStatus(o.task, "error", "fatal")
    /\ resolving' = [resolving EXCEPT ![o.task] = 0]
    /\ active' = [active EXCEPT ![o.task] = NoEntry]
    /\ agenda' = <<Drain>>
    /\ UNCHANGED <<queue, pauses, retryCount, retrySched, boost,
                   autoPaused, occupied, maxc, gen, spawns>>

(* The user closed the variant dialog: the task is cancelled. *)
OnResolveCancelled(o) ==
    /\ resolving[o.task] = o.gen
    /\ CancelledRow(o.task)

OnResolveReady(o) ==
    /\ Idle
    /\ outcomes' = outcomes \ {o}
    /\ \/ OnResolveStale(o) \/ OnResolveGone(o) \/ OnResolveOk(o)
       \/ OnResolveError(o) \/ OnResolveCancelled(o)
    /\ UNCHANGED <<doneCh, timers, cmds, reboots>>

Message == \/ OnTaskDone
           \/ \E t \in Tasks : OnRetry(t)
           \/ \E o \in outcomes : OnResolveReady(o)

-----------------------------------------------------------------------------
(* A spawned download (downloader.rs run_download and the task wrapped      *)
(* around it).  It runs beside the actor and shares the tasks row with it.  *)
(*   start -> probe -> admitted -> run -> end                               *)

Spawn == [gen : Nat, task : Tasks, cancelled : BOOLEAN,
          pc : {"start", "probe", "admitted", "run", "end"}]

Advance(s, pc) == spawns' = (spawns \ {s}) \cup {[s EXCEPT !.pc = pc]}

(* The first thing a download does is to write status 5; the token is not   *)
(* looked at.                                                               *)
WritePreparing(s) ==
    /\ s.pc = "start"
    /\ db' = UpdateStatus(s.task, "preparing", "")
    /\ Advance(s, "probe")
    /\ UNCHANGED doneCh

(* The server answers the probe and the token is not cancelled. *)
Admit(s) ==
    /\ s.pc = "probe" /\ ~s.cancelled
    /\ Advance(s, "admitted")
    /\ UNCHANGED <<db, doneCh>>

WriteDownloading(s) ==
    /\ s.pc = "admitted"
    /\ db' = UpdateStatus(s.task, "downloading", "")
    /\ Advance(s, "run")
    /\ UNCHANGED doneCh

(* run_download's match on the result: completed, failed, or cancelled,     *)
(* which writes nothing.  Bytes that arrive, and errors, may still win      *)
(* against a cancelled token.                                               *)
Complete(s) ==
    /\ s.pc = "run"
    /\ db' = UpdateStatus(s.task, "completed", "")
    /\ Advance(s, "end")
    /\ UNCHANGED doneCh

Fail(s) ==
    /\ s.pc \in {"probe", "run"}
    /\ \E e \in {"retriable", "fatal"} : db' = UpdateStatus(s.task, "error", e)
    /\ Advance(s, "end")
    /\ UNCHANGED doneCh

Stop(s) ==
    /\ s.pc \in {"probe", "run"} /\ s.cancelled
    /\ Advance(s, "end")
    /\ UNCHANGED <<db, doneCh>>

SendTaskDone_NotCancelled(s) ==
    /\ s.pc = "end"
    /\ doneCh' = IF s.cancelled THEN doneCh
                 ELSE Append(doneCh, [task |-> s.task, gen |-> s.gen])
    /\ spawns' = spawns \ {s}
    /\ UNCHANGED db

SendTaskDone(s) ==
    /\ s.pc = "end"
    /\ doneCh' = Append(doneCh, [task |-> s.task, gen |-> s.gen])
    /\ spawns' = spawns \ {s}
    /\ UNCHANGED db

Download(s) ==
    /\ \/ WritePreparing(s) \/ Admit(s) \/ WriteDownloading(s)
       \/ Complete(s) \/ Fail(s) \/ Stop(s) \/ SendTaskDone(s)
    /\ UNCHANGED <<actorVars, agenda, outcomes, timers, cmds, reboots>>

-----------------------------------------------------------------------------
(* The process dies; the first load after the restart turns every           *)
(* unfinished row into paused (reset_incomplete_tasks_to_paused).           *)

Reboot ==
    /\ reboots < MaxReboots /\ cmds < MaxCommands
    /\ reboots' = reboots + 1 /\ cmds' = cmds + 1
    /\ active' = [t \in Tasks |-> NoEntry]
    /\ pauses' = [t \in Tasks |-> NoPause]
    /\ resolving' = [t \in Tasks |-> 0]
    /\ queue' = <<>> /\ agenda' = <<>> /\ doneCh' = <<>>
    /\ spawns' = {} /\ outcomes' = {}
    /\ retrySched' = {} /\ autoPaused' = {} /\ occupied' = {}
    /\ boost' = NoTask /\ gen' = 0
    /\ retryCount' = [t \in Tasks |-> 0]
    /\ timers' = [t \in Tasks |-> 0]
    /\ db' = [t \in Tasks |->
                IF db[t].status \in {"pending", "downloading", "preparing"}
                  THEN [db[t] EXCEPT !.status = "paused"] ELSE db[t]]
    /\ UNCHANGED maxc

Init ==
    /\ active = [t \in Tasks |-> NoEntry]
    /\ pauses = [t \in Tasks |-> NoPause]
    /\ resolving = [t \in Tasks |-> 0]
    /\ queue = <<>> /\ agenda = <<>> /\ doneCh = <<>>
    /\ spawns = {} /\ outcomes = {}
    /\ retrySched = {} /\ autoPaused = {} /\ occupied = {}
    /\ boost = NoTask /\ gen = 0
    /\ retryCount = [t \in Tasks |-> 0]
    /\ timers = [t \in Tasks |-> 0]
    /\ db = [t \in Tasks |->
              [status |-> IF t \in Stored THEN "paused" ELSE "none", err |-> ""]]
    /\ maxc \in Limits
    /\ cmds = 0 /\ reboots = 0

Next == \/ HandlerStep
        \/ UserCommand
        \/ Message
        \/ \E s \in spawns : Download(s)
        \/ Reboot

Spec == Init /\ [][Next]_vars

(* The actor loop, the runtime and the retry timers never stop; a transfer  *)
(* ends, because every wait in the downloader has a timeout.                *)
Fairness ==
    /\ WF_vars(HandlerStep)
    /\ WF_vars(OnTaskDone)
    /\ \A t \in Tasks :
         /\ WF_vars(OnRetry(t))
         /\ WF_vars(\E o \in outcomes : o.task = t /\ OnResolveReady(o))
         /\ WF_vars(\E s \in spawns : s.task = t /\ Download(s))

FairSpec == Spec /\ Fairness

-----------------------------------------------------------------------------
(* Properties *)

(* Every variable has its type. *)
TypeOK ==
    /\ active \in [Tasks -> [gen : Nat, spawned : BOOLEAN]]
    /\ queue \in Seq(Tasks)
    /\ pauses \in [Tasks -> [gen : Nat, resume : BOOLEAN]]
    /\ resolving \in [Tasks -> Nat]
    /\ retrySched \subseteq Tasks
    /\ retryCount \in [Tasks -> Nat]
    /\ boost \in Tasks \cup {NoTask}
    /\ autoPaused \subseteq Tasks
    /\ occupied \subseteq Queues
    /\ maxc \in Nat /\ gen \in Nat
    /\ agenda \in Seq(Op)
    /\ db \in [Tasks -> Row]
    /\ spawns \subseteq Spawn
    /\ doneCh \in Seq([task : Tasks, gen : Nat])
    /\ outcomes \subseteq [task : Tasks, gen : Nat]
    /\ timers \in [Tasks -> Nat]
    /\ cmds \in Nat /\ reboots \in Nat

(* Generation g of task t is still to be heard of: it runs, or its TaskDone *)
(* is on its way or being handled.                                          *)
Reporting(t, g) ==
    \/ \E s \in spawns : s.task = t /\ s.gen = g
    \/ \E i \in 1..Len(agenda) :
          agenda[i] = [op |-> "finish", task |-> t, gen |-> g]
    \/ \E i \in 1..Len(doneCh) : doneCh[i] = [task |-> t, gen |-> g]

(* No slot leaks: whoever holds an entry of active_tasks is going to report *)
(* back, a download by its TaskDone (on_task_done frees the slot) and a     *)
(* placeholder by the outcome of its resolve worker (on_resolve_ready).     *)
ActiveBacked ==
    \A t \in Tasks : IsActive(t) =>
      IF active[t].spawned
        THEN Reporting(t, active[t].gen)
        ELSE \E o \in outcomes : o.task = t /\ o.gen = active[t].gen

(* No pause waits for ever: the generation a pending pause waits for still  *)
(* has to report its TaskDone, so finish_pending_pause will run for it.     *)
PauseBacked ==
    \A t \in Tasks : pauses[t].gen # 0 => Reporting(t, pauses[t].gen)

(* A resume waits for the pause flush: while a paused generation may still  *)
(* write its temporary file, the task is neither active nor waiting in the  *)
(* pending queue, where drain_queue would start it.                         *)
PauseExclusive ==
    \A t \in Tasks : pauses[t].gen # 0 =>
      /\ ~IsActive(t)
      /\ t \notin QueuedTasks(queue)
      /\ Running("drainLoop") =>
           t \notin QueuedTasks(Head(agenda).rest) \cup QueuedTasks(Head(agenda).kept)

(* The drain is never forgotten: when the actor has nothing left to do, no  *)
(* queued task has room to run, so a queued task only waits for others.     *)
QueueServed ==
    Idle => \A t \in QueuedTasks(queue) : ~HasRoom(t)

(* A task enters active_tasks only within max_concurrent and the limit of   *)
(* its queue (lowering a limit stops no running task).                      *)
CapacityRespected ==
    [][\A t \in Tasks : active[t].gen = 0 /\ active'[t].gen # 0 =>
         /\ maxc = 0 \/ Cardinality({u \in Tasks : active'[u].gen # 0}) <= maxc
         /\ LET q == QueueOf[t] IN
              \/ QueueMax[q] = 0
              \/ Cardinality({u \in Tasks : active'[u].gen # 0 /\ QueueOf[u] = q})
                   <= QueueMax[q]]_vars

(* sync_queue_occupancy runs wherever a task enters or leaves the active,   *)
(* queued and retrying tasks: between two handlers occupied_queues is       *)
(* current, so queue.drained is sent for the step that empties a queue.     *)
OccupancyCurrent ==
    Idle => occupied = {QueueOf[t] : t \in ActiveTasks \cup QueuedTasks(queue)
                                             \cup retrySched}

(* Between two handlers a Boost target is running; otherwise the tasks      *)
(* paused for it would wait for nothing.                                    *)
BoostTargetRuns == Idle /\ boost # NoTask => IsActive(boost)

(* Tasks paused by Boost are remembered only while a Boost is on. *)
AutoPausedOwned == Idle /\ boost = NoTask => autoPaused = {}

(* At most one generation of a task runs without having been told to stop. *)
SingleWriter ==
    \A s, r \in {x \in spawns : ~x.cancelled /\ x.pc # "end"} :
      s.task = r.task => s.gen = r.gen

(* A resume request that arrived during the flush of a pause starts a new   *)
(* generation when the flush ends, unless the download ended by itself.     *)
LatchedResumeKept ==
    [][\A t \in Tasks :
         FinishPendingPause(t) /\ pauses[t].resume /\ ~pauses'[t].resume
           => \/ db[t].status \in {"completed", "error", "deleted"}
              \/ \E i \in 1..Len(agenda') : agenda'[i] = Do("resumeAuto", t)]_vars

(* A pause always ends: its generation stops and finish_pending_pause runs. *)
PauseEnds == \A t \in Tasks : pauses[t].gen # 0 ~> pauses[t].gen = 0

(* Every slot is given back, so a queued task does not wait for ever. *)
QueueDrains == \A t \in Tasks : t \in QueuedTasks(queue) ~> t \notin QueuedTasks(queue)

=============================================================================

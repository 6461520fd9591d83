---------------------------- MODULE FileSyncGate ----------------------------
(***************************************************************************)
(* Durable segment progress of native/engine/src/segment_coordinator.rs.   *)
(* Every worker writes one segment of a shared temporary file through a    *)
(* buffer.  An offset may go to the database only when an fdatasync has    *)
(* made the bytes below it durable, because a resume trusts the database.  *)
(* FileSyncGate merges the fdatasync calls of all workers; the offsets of  *)
(* periodic saves travel through the `durable_progress` table and a batch  *)
(* write of the coordinator.                                               *)
(*                                                                         *)
(* Instants are readings of `clock`: Instant::now() is modelled as strictly*)
(* increasing.  The page cache reaches the disk only by an fdatasync (what *)
(* the OS writes back earlier can only help).                              *)
(***************************************************************************)
EXTENDS Integers

CONSTANTS
    Workers,    \* one worker per segment
    Size,       \* bytes of a segment
    Failing,    \* which fdatasync may fail: "gate", "exit"
    MaxClock,   \* bound: no save starts later than this
    MaxCrashes  \* bound: crashes

ASSUME SizeAssumption == Size \in Nat \ {0}
ASSUME FailingAssumption == Failing \subseteq {"gate", "exit"}
ASSUME BoundAssumption == MaxClock \in Nat /\ MaxCrashes \in Nat

VARIABLES
    clock,      \* the last Instant
    syncing,    \* GateState.syncing
    lastStart,  \* GateState.last_completed_start, 0 = None
    pc,         \* where each worker is in do_segment
    buf,        \* seg_downloaded: bytes written to the BufWriter
    cached,     \* bytes in the page cache
    disk,       \* bytes on the disk
    snap,       \* the offset of the running save
    snapT,      \* ... and when it was taken (snap_t)
    got,        \* what sync_if_stale returned
    durable,    \* durable_offset
    pendOff,    \* pending_snap: the offset ...
    pendT,      \* ... and its instant, 0 = None
    start,      \* my_start of the worker's own fdatasync
    covers,     \* the page cache when that fdatasync started
    table,      \* durable_progress, 0 = no row
    batch,      \* rows the coordinator has taken from it
    db,         \* task_segments.downloaded_bytes
    crashes     \* crashes so far (bound)

gateVars == <<clock, syncing, lastStart>>
saveVars == <<snap, snapT, got, durable, pendOff, pendT>>
dbVars == <<table, batch, db>>
vars == <<clock, syncing, lastStart, pc, buf, cached, disk, snap, snapT, got,
          durable, pendOff, pendT, start, covers, table, batch, db, crashes>>

Zero == [w \in Workers |-> 0]

Larger(a, b) == IF a > b THEN a ELSE b

(* Instant::now() *)
Now == clock + 1
Tick == clock' = Now

(* The worker runs the fdatasync of the gate. *)
Syncing(w) == pc[w] \in {"staleSync", "coverSync"}

(* The locals of a save that is over. *)
Forget(w) ==
    /\ snap' = [snap EXCEPT ![w] = 0]
    /\ snapT' = [snapT EXCEPT ![w] = 0]
    /\ got' = [got EXCEPT ![w] = 0]

Goto(w, label) == pc' = [pc EXCEPT ![w] = label]

(* BufWriter::flush *)
Flush(w) == cached' = [cached EXCEPT ![w] = Larger(cached[w], buf[w])]

(* The bytes an fdatasync started now is going to make durable. *)
BeginSync(w) == covers' = [covers EXCEPT ![w] = cached]
EndSync(w) == covers' = [covers EXCEPT ![w] = Zero] /\ start' = [start EXCEPT ![w] = 0]
Synced(w) == disk' = [v \in Workers |-> Larger(disk[v], covers[w][v])]

-----------------------------------------------------------------------------
(* The loop of do_segment *)

(* A chunk arrives; what lies beyond the end of the segment is cut off.  A  *)
(* full buffer is written out.                                              *)
BudgetLeft(w) == buf[w] < Size

WriteChunk(w) ==
    /\ pc[w] = "read" /\ BudgetLeft(w)
    /\ buf' = [buf EXCEPT ![w] = @ + 1]
    /\ cached' \in {cached, [cached EXCEPT ![w] = Larger(cached[w], buf[w] + 1)]}
    /\ UNCHANGED <<gateVars, saveVars, dbVars, pc, disk, start, covers, crashes>>

(* Flush, remember the offset, read the clock, enter the gate: periodically *)
(* by sync_if_stale, at the end of the stream by sync_covering.  The stream *)
(* ends at the end of the segment, or before it when the server truncates.  *)
Snapshot(w, gate) ==
    /\ pc[w] = "read" /\ clock < MaxClock
    /\ Flush(w)
    /\ Tick
    /\ snap' = [snap EXCEPT ![w] = buf[w]]
    /\ snapT' = [snapT EXCEPT ![w] = Now]
    /\ Goto(w, gate)
    /\ UNCHANGED <<syncing, lastStart, got, durable, pendOff, pendT, dbVars, buf,
                   disk, start, covers, crashes>>

PeriodicSave(w) == buf[w] > 0 /\ Snapshot(w, "stale")
StreamEnd(w) == Snapshot(w, "covering")

(* sync_if_stale, decision under the lock: an fdatasync younger than        *)
(* MIN_SYNC_GAP is reused.  The age is not modelled: any may be.            *)
ReuseRecent(w) ==
    /\ pc[w] = "stale" /\ lastStart # 0
    /\ got' = [got EXCEPT ![w] = lastStart]
    /\ Goto(w, "save")
    /\ UNCHANGED <<gateVars, dbVars, buf, cached, disk, snap, snapT, durable,
                   pendOff, pendT, start, covers, crashes>>

(* sync_covering, decision under the lock: an fdatasync that started after  *)
(* the snapshot is reused.                                                  *)
CoversSnapshot_AnySync(w) == lastStart # 0
CoversSnapshot(w) == lastStart # 0 /\ lastStart >= snapT[w]

ReuseCovering(w) ==
    /\ pc[w] = "covering" /\ CoversSnapshot(w)
    /\ Goto(w, "finish")
    /\ UNCHANGED <<gateVars, saveVars, dbVars, buf, cached, disk, start, covers,
                   crashes>>

(* Either of them, with nothing to reuse and no fdatasync running, becomes  *)
(* the leader.  (With one running, it waits and decides again.)  The        *)
(* instant is read before sync_data begins; here they are one step, which   *)
(* makes durable only less.                                                 *)
Lead(w) ==
    /\ \/ pc[w] = "stale" /\ Goto(w, "staleSync")
       \/ pc[w] = "covering" /\ ~CoversSnapshot(w) /\ Goto(w, "coverSync")
    /\ ~syncing
    /\ syncing' = TRUE
    /\ Tick
    /\ start' = [start EXCEPT ![w] = Now]
    /\ BeginSync(w)
    /\ UNCHANGED <<lastStart, saveVars, dbVars, buf, cached, disk, crashes>>

(* The instant published is the one at which the fdatasync began. *)
StartInstant_AtEnd(w) == clock
StartInstant(w) == start[w]

SyncOk(w) ==
    /\ Syncing(w)
    /\ Synced(w)
    /\ syncing' = FALSE
    /\ lastStart' = StartInstant(w)
    /\ got' = [got EXCEPT ![w] = StartInstant(w)]
    /\ EndSync(w)
    /\ Goto(w, IF pc[w] = "staleSync" THEN "save" ELSE "finish")
    /\ UNCHANGED <<clock, dbVars, buf, cached, snap, snapT, durable, pendOff,
                   pendT, crashes>>

SyncGateOpen_StaysShut == TRUE
SyncGateOpen == FALSE

SyncFails(w) ==
    /\ "gate" \in Failing
    /\ Syncing(w)
    /\ syncing' = SyncGateOpen
    /\ EndSync(w)
    /\ Forget(w)
    /\ Goto(w, "stopped")
    /\ UNCHANGED <<clock, lastStart, durable, pendOff, pendT, dbVars, buf, cached,
                   disk, crashes>>

(* The periodic save after sync_if_stale: take over what the fdatasync      *)
(* covers, and put a durable offset that moved into durable_progress.       *)
CoveredBy(t, w) == t # 0 /\ got[w] >= t

SaveProgress(w) ==
    /\ pc[w] = "save"
    /\ LET covered == CoveredBy(snapT[w], w)
           older == ~covered /\ CoveredBy(pendT[w], w)
       IN /\ durable' = [durable EXCEPT ![w] = IF covered THEN snap[w]
                                               ELSE IF older THEN pendOff[w] ELSE @]
          /\ pendOff' = [pendOff EXCEPT ![w] = snap[w]]
          /\ pendT' = [pendT EXCEPT ![w] = IF covered THEN 0 ELSE snapT[w]]
    /\ table' = IF durable'[w] # durable[w]
                  THEN [table EXCEPT ![w] = durable'[w]] ELSE table
    /\ Forget(w)
    /\ Goto(w, "read")
    /\ UNCHANGED <<gateVars, batch, db, buf, cached, disk, start, covers, crashes>>

(* After sync_covering the offset goes straight to the database; a          *)
(* truncated segment is an error that do_segment_with_retry tries again.    *)
FinishSegment(w) ==
    /\ pc[w] = "finish"
    /\ db' = [db EXCEPT ![w] = buf[w]]
    /\ Forget(w)
    /\ Goto(w, IF buf[w] = Size THEN "done" ELSE "stopped")
    /\ UNCHANGED <<gateVars, durable, pendOff, pendT, table, batch, buf, cached,
                   disk, start, covers, crashes>>

(* A cancel, a stall or a stream error: flush and an fdatasync of its own,  *)
(* whose result is ignored; the offset is written all the same.             *)
LeaveLoop(w) ==
    /\ pc[w] = "read"
    /\ Flush(w)
    /\ covers' = [covers EXCEPT ![w] = cached']
    /\ Goto(w, "exitSync")
    /\ UNCHANGED <<gateVars, saveVars, dbVars, buf, disk, start, crashes>>

ExitSync(w) == Synced(w) \/ ("exit" \in Failing /\ UNCHANGED disk)

PersistOnExit(w) ==
    /\ pc[w] = "exitSync"
    /\ ExitSync(w)
    /\ EndSync(w)
    /\ db' = [db EXCEPT ![w] = buf[w]]
    /\ Goto(w, "stopped")
    /\ UNCHANGED <<gateVars, saveVars, table, batch, buf, cached, crashes>>

(* do_segment_with_retry, or a new assignment: continue from the database. *)
Retry(w) ==
    /\ pc[w] = "stopped" /\ db[w] < Size
    /\ buf' = [buf EXCEPT ![w] = db[w]]
    /\ durable' = [durable EXCEPT ![w] = db[w]]
    /\ pendOff' = [pendOff EXCEPT ![w] = 0]
    /\ pendT' = [pendT EXCEPT ![w] = 0]
    /\ Goto(w, "read")
    /\ UNCHANGED <<gateVars, dbVars, cached, disk, snap, snapT, got, start,
                   covers, crashes>>

Worker(w) ==
    \/ WriteChunk(w) \/ PeriodicSave(w) \/ StreamEnd(w) \/ ReuseRecent(w)
    \/ ReuseCovering(w) \/ Lead(w) \/ SyncOk(w) \/ SyncFails(w)
    \/ SaveProgress(w) \/ FinishSegment(w) \/ LeaveLoop(w) \/ PersistOnExit(w)
    \/ Retry(w)

-----------------------------------------------------------------------------
(* The coordinator's db_flush tick: take_durable_progress_rows drops the    *)
(* rows of segments known to be completed, then one batch write keeps the   *)
(* larger offset.                                                           *)
TakeRows ==
    /\ batch = Zero
    /\ \E dropped \in SUBSET {w \in Workers : pc[w] = "done"} :
         batch' = [w \in Workers |-> IF w \in dropped THEN 0 ELSE table[w]]
    /\ table' = Zero
    /\ UNCHANGED <<gateVars, saveVars, pc, buf, cached, disk, start, covers, db,
                   crashes>>

MergeRow_Overwrites(w) == IF batch[w] = 0 THEN db[w] ELSE batch[w]
MergeRow(w) == Larger(db[w], batch[w])

WriteBatch ==
    /\ db' = [w \in Workers |-> MergeRow(w)]
    /\ batch' = Zero
    /\ UNCHANGED <<gateVars, saveVars, pc, buf, cached, disk, start, covers,
                   table, crashes>>

(* Power is lost: buffers, page cache and process state are gone, and the   *)
(* next run resumes from the database.  (No instant survives, so the clock  *)
(* need not restart.)                                                       *)
Crash ==
    /\ crashes < MaxCrashes
    /\ crashes' = crashes + 1
    /\ syncing' = FALSE /\ lastStart' = 0
    /\ cached' = disk
    /\ pc' = [w \in Workers |-> IF db[w] = Size THEN "done" ELSE "read"]
    /\ buf' = db /\ durable' = db
    /\ snap' = Zero /\ snapT' = Zero
    /\ got' = Zero
    /\ pendOff' = Zero /\ pendT' = Zero
    /\ start' = Zero
    /\ covers' = [w \in Workers |-> Zero]
    /\ table' = Zero /\ batch' = Zero
    /\ UNCHANGED <<clock, disk, db>>

Init ==
    /\ clock = 0 /\ syncing = FALSE /\ lastStart = 0
    /\ pc = [w \in Workers |-> "read"]
    /\ buf = Zero /\ cached = Zero
    /\ disk = Zero
    /\ snap = Zero /\ snapT = Zero
    /\ got = Zero /\ durable = Zero
    /\ pendOff = Zero /\ pendT = Zero
    /\ start = Zero
    /\ covers = [w \in Workers |-> Zero]
    /\ table = Zero /\ batch = Zero
    /\ db = Zero
    /\ crashes = 0

Next == \/ \E w \in Workers : Worker(w)
        \/ TakeRows \/ WriteBatch \/ Crash

Spec == Init /\ [][Next]_vars

(* A worker that can decide does so: the wait in the gate polls every 50 ms,*)
(* and an fdatasync returns.                                                *)
Fairness ==
    \A w \in Workers :
      /\ WF_vars(ReuseRecent(w) \/ ReuseCovering(w) \/ Lead(w))
      /\ WF_vars(SyncOk(w) \/ SyncFails(w))

FairSpec == Spec /\ Fairness

-----------------------------------------------------------------------------
(* Properties *)

Labels == {"read", "stale", "staleSync", "covering", "coverSync", "save",
           "finish", "exitSync", "stopped", "done"}

(* Every variable has its type; no offset exceeds the segment. *)
TypeOK ==
    /\ clock \in Nat /\ lastStart \in Nat /\ crashes \in Nat
    /\ syncing \in BOOLEAN
    /\ pc \in [Workers -> Labels]
    /\ buf \in [Workers -> 0..Size] /\ cached \in [Workers -> 0..Size]
    /\ disk \in [Workers -> 0..Size]
    /\ snap \in [Workers -> 0..Size] /\ snapT \in [Workers -> Nat]
    /\ got \in [Workers -> Nat] /\ durable \in [Workers -> 0..Size]
    /\ pendOff \in [Workers -> 0..Size] /\ pendT \in [Workers -> Nat]
    /\ start \in [Workers -> Nat]
    /\ table \in [Workers -> 0..Size] /\ batch \in [Workers -> 0..Size]
    /\ db \in [Workers -> 0..Size]
    /\ covers \in [Workers -> [Workers -> 0..Size]]

(* BUG-COORD-FSYNC: the offset in the database never exceeds the bytes that *)
(* are on the disk, so a resume after a power loss leaves no hole.          *)
DbDurable == \A w \in Workers : db[w] <= disk[w]

(* One fdatasync runs in the gate at a time, and the gate is shut only      *)
(* while it runs, so nobody waits for an fdatasync that is not running.     *)
GateSerial ==
    /\ \A v, w \in Workers : Syncing(v) /\ Syncing(w) => v = w
    /\ syncing <=> (\E w \in Workers : Syncing(w))

(* A segment that counts as finished is whole on the disk and in the        *)
(* database: neither a power loss nor a late batch with an older offset of  *)
(* it, taken before it finished, takes it back.                             *)
FinishedWhole ==
    \A w \in Workers : pc[w] = "done" => disk[w] = Size /\ db[w] = Size

(* Whoever waits in the gate gets out of it. *)
GateAnswers ==
    \A w \in Workers : pc[w] \in {"stale", "covering"}
                         ~> pc[w] \notin {"stale", "covering"}

=============================================================================

--------------------------- MODULE SegmentCoordinator ---------------------------
(***************************************************************************)
(* One multi-segment download (segment_coordinator.rs): the coordinator's  *)
(* event loop, the workers, the shared seg_states and the segment rows of  *)
(* the database.  The coordinator cuts the file into segments, gives them  *)
(* to workers, splits the segment of a busy worker for an idle one, merges *)
(* segments into a stream that is still open, and extends the plan when    *)
(* the server reports a larger file, all while the workers are writing.    *)
(*                                                                         *)
(* The coordinator's private map (segments), what the workers see          *)
(* (segStates) and what a resume sees (rows) change in different steps,    *)
(* because the code awaits the database in between; `co` is the place in   *)
(* the handler.  fdatasync belongs to FileSyncGate: here a flushed byte    *)
(* that a row claims survives a crash and every other byte may be lost.    *)
(***************************************************************************)
EXTENDS Integers, FiniteSets, Sequences, FiniteSetsExt, Functions

CONSTANTS
    Workers,        \* worker slots; a retired slot is reused
    FileSize,       \* bytes of the file
    ServerSizes,    \* sizes a response may report (a file that still grows)
    Totals,         \* sizes a start may plan with
    Estimates,      \* values of size_is_estimate: the size is a hint, Range is unproved
    ServerRange,    \* what the first response may say about Range support
    SegmentCount,   \* initial_segment_count
    WorkerCap,      \* worker_cap: bound of the ramp
    MinSplits,      \* values of current_min_split
    TailMinSplit,   \* TAIL_MIN_SPLIT_BYTES
    MaxSegments,    \* MAX_SEGMENTS
    MaxRetries,     \* MAX_RETRIES
    MaxExpansions,  \* MAX_SIZE_EXPANSIONS
    MaxChunk,       \* bound: bytes of a network chunk
    Faults,         \* which faults happen
    MaxFaults,      \* bound: how many
    MaxSessions     \* bound: starts of the download

NoSeg == -1

ASSUME FileAssumption ==
    /\ FileSize \in Nat \ {0} /\ Totals \subseteq 1..FileSize
    /\ ServerSizes \subseteq 1..FileSize /\ FileSize \in ServerSizes
ASSUME CountAssumption == SegmentCount \in Nat \ {0} /\ WorkerCap \in Nat \ {0}
ASSUME SplitAssumption == MinSplits \subseteq Nat \ {0} /\ TailMinSplit \in Nat \ {0}
ASSUME FlagAssumption == Estimates \subseteq BOOLEAN /\ ServerRange \subseteq BOOLEAN
ASSUME WorkerAssumption ==
    IsFiniteSet(Workers) /\ NoSeg \notin Workers /\ WorkerCap <= Cardinality(Workers)
ASSUME BoundAssumption ==
    /\ MaxSegments \in Nat /\ MaxRetries \in Nat /\ MaxExpansions \in Nat
    /\ MaxChunk \in Nat /\ MaxFaults \in Nat /\ MaxSessions \in Nat

VARIABLES
    segments,       \* index -> LiveSegment
    nextIndex,      \* next_index
    total,          \* effective_total_bytes = planned_total
    segStates,      \* seg_states: index -> end_byte, downloaded_bytes
    rows,           \* task_segments
    worker,         \* the workers
    events,         \* the event channel
    co,             \* where the coordinator is
    job,            \* locals of the running handler
    allowed,        \* allowed_workers
    serial,         \* serial_mode
    strikes,        \* reject_strikes
    expansions,     \* in-place expansions
    openSeg,        \* open_ended_streaming
    verdict,        \* range_verdict
    sensitive,      \* conn_sensitive
    served,         \* total_downloaded > 0
    verified,       \* tasks.range_verified
    cancelled,      \* worker_cancel
    err,            \* final_error
    result,         \* what the last run returned
    written,        \* bytes of the temporary file that have been flushed
    faults, sessions \* bounds

fileVars == <<rows, written>>
planVars == <<segments, nextIndex, total>>
modeVars == <<allowed, serial, strikes, expansions, openSeg>>
netVars == <<verdict, sensitive, served, verified>>
endVars == <<cancelled, err, result>>
boundVars == <<faults, sessions>>
vars == <<segments, nextIndex, total, segStates, rows, worker, events, co, job, allowed,
          serial, strikes, expansions, openSeg, verdict, sensitive, served, verified,
          cancelled, err, result, written, faults, sessions>>

Smaller(a, b) == IF a < b THEN a ELSE b
Larger(a, b) == IF a > b THEN a ELSE b

(***************************************************************************)
(* Segments                                                                *)
(***************************************************************************)

size(s) == Larger(s.end - s.start + 1, 0)
remaining(s) == Larger(size(s) - s.dl, 0)
Bytes(s) == s.start .. s.end

In(S, state) == {i \in DOMAIN S : S[i].state = state}
all_done(S) == In(S, "Completed") = DOMAIN S

(* validate_coverage: the ranges cover [0, t - 1] with no gap and no overlap. *)
validate_coverage(S, t) ==
    /\ \A i \in DOMAIN S : 0 <= S[i].start /\ S[i].start <= S[i].end /\ S[i].end < t
    /\ \A b \in 0 .. t - 1 : \E i \in DOMAIN S : b \in Bytes(S[i])
    /\ \A i, j \in DOMAIN S : i # j => (S[i].end < S[j].start \/ S[j].end < S[i].start)

(* build_fresh_segments: `count` equal parts, the last one takes the rest. *)
build_fresh_segments(count, t) ==
    [i \in 0 .. count - 1 |->
        [start |-> i * (t \div count),
         end |-> IF i = count - 1 THEN t - 1 ELSE (i + 1) * (t \div count) - 1,
         dl |-> 0]]

(* A segment of the map from its row. *)
LiveSegment(row) ==
    [start |-> row.start, end |-> row.end, dl |-> row.dl,
     state |-> IF row.dl >= size(row) THEN "Completed" ELSE "Pending"]

Row(s) == [start |-> s.start, end |-> s.end, dl |-> s.dl]

With(S, i, s) == [k \in DOMAIN S \cup {i} |-> IF k = i THEN s ELSE S[k]]

(* sync_downloaded_from_shared: the progress of the active segments. *)
sync_downloaded_from_shared ==
    [i \in DOMAIN segments |->
        IF segments[i].state = "Active" /\ i \in DOMAIN segStates
        THEN [segments[i] EXCEPT !.dl = segStates[i].dl] ELSE segments[i]]

(* rebuild_seg_states: new ranges; the progress stays the workers' own. *)
rebuild_seg_states(S) ==
    [i \in DOMAIN S |->
        [end |-> S[i].end, dl |-> IF i \in DOMAIN segStates THEN segStates[i].dl ELSE S[i].dl]]

(* Mutant: no answer yet counts as a yes. *)
range_ok_Assumed == verdict # "no"

(* The server has shown that it serves ranges. *)
range_ok == verdict = "yes"

(***************************************************************************)
(* Finding work: a map, the segment to work on and the one it was cut from *)
(***************************************************************************)

NoWork(S) == [segs |-> S, child |-> NoSeg, parent |-> NoSeg]

(* Mutant: the segment given away stays pending. *)
find_next_pending_only_StaysPending(S) ==
    IF In(S, "Pending") = {} THEN NoWork(S)
    ELSE [segs |-> S, child |-> Min(In(S, "Pending")), parent |-> NoSeg]

find_next_pending_only(S) ==
    IF In(S, "Pending") = {} THEN NoWork(S)
    ELSE LET i == Min(In(S, "Pending"))
         IN  [segs |-> [S EXCEPT ![i].state = "Active"], child |-> i, parent |-> NoSeg]

Splittable(S, m) == {i \in In(S, "Active") : remaining(S[i]) >= m}

(* max_by_key: the last one of the longest. *)
Longest(S, m) ==
    Max({i \in Splittable(S, m) :
                 \A j \in Splittable(S, m) : remaining(S[j]) <= remaining(S[i])})

split_point(s) == s.start + s.dl + (s.end - (s.start + s.dl) + 1) \div 2

CanSplit(S, m) ==
    /\ Cardinality(DOMAIN S \ In(S, "Completed")) < MaxSegments
    /\ Splittable(S, m) # {}
    /\ LET s == S[Longest(S, m)]
       IN  split_point(s) > s.start + s.dl /\ split_point(s) <= s.end

(* Mutant: the parent keeps its end. *)
SplitInHalf_KeepsParent(S, m, state) ==
    LET p == Longest(S, m)
        cut == split_point(S[p])
    IN  [segs |-> With(S, nextIndex, [start |-> cut, end |-> S[p].end, dl |-> 0, state |-> state]),
         child |-> nextIndex, parent |-> p]

(* try_split_largest ("Active" child) and try_proactive_split ("Pending"). *)
SplitInHalf(S, m, state) ==
    LET p == Longest(S, m)
        cut == split_point(S[p])
    IN  [segs |-> With([S EXCEPT ![p].end = cut - 1], nextIndex,
                       [start |-> cut, end |-> S[p].end, dl |-> 0, state |-> state]),
         child |-> nextIndex, parent |-> p]

(* A straggler that is worth a split below the normal threshold. *)
Straggler(S, m) ==
    m > TailMinSplit /\ \E i \in In(S, "Active") : remaining(S[i]) >= 2 * TailMinSplit

SplitLargest(S, m, state) ==
    IF CanSplit(S, m) THEN SplitInHalf(S, m, state)
    ELSE IF Straggler(S, m) /\ CanSplit(S, TailMinSplit)
         THEN SplitInHalf(S, TailMinSplit, state)
         ELSE NoWork(S)

find_next_work(S, m) ==
    IF In(S, "Pending") # {} THEN find_next_pending_only(S) ELSE SplitLargest(S, m, "Active")

(* Serial mode: nothing while somebody works, and never a split. *)
SerialWork(S) == IF In(S, "Active") # {} THEN NoWork(S) ELSE find_next_pending_only(S)

(***************************************************************************)
(* Workers (spawn_worker, do_segment_with_retry, do_segment)               *)
(***************************************************************************)

(* base = seg_start, from = actual_start - seg_start, req = seg_end of the request,
   last = the last byte of the response, off = seg_downloaded, kept = the flushed part
   of it, left = write_len, whole = boundary_reached, plain = no_range. *)
Off == [pc |-> "off", seg |-> NoSeg, base |-> 0, from |-> 0, req |-> 0, last |-> 0, off |-> 0,
        kept |-> 0, left |-> 0, whole |-> FALSE, open |-> FALSE, plain |-> FALSE, tries |-> 0]

(* The assignment of segment i to a worker. *)
Assigned(S, i, open, plain) ==
    [Off EXCEPT !.pc = "connect", !.seg = i, !.base = S[i].start, !.from = S[i].dl,
                !.req = S[i].end, !.open = open, !.plain = plain]

Event(kind, w, n) == [kind |-> kind, w |-> w, seg |-> worker[w].seg, n |-> n]

Fault(f) == f \in Faults /\ faults < MaxFaults /\ faults' = faults + 1

Become(w, rec) == worker' = [worker EXCEPT ![w] = rec]

(* WorkerEvent::Done or Failed behind what is in the channel; the worker then waits. *)
ReportAfter(queue, w, kind, n) ==
    /\ Become(w, [Off EXCEPT !.pc = "reported", !.seg = worker[w].seg])
    /\ events' = Append(queue, Event(kind, w, n))

Report(w, kind, n) == ReportAfter(events, w, kind, n)

(* update_seg_state: only downloaded_bytes, never end_byte. *)
update_seg_state(w, n) ==
    segStates' = IF worker[w].seg \in DOMAIN segStates
                 THEN [segStates EXCEPT ![worker[w].seg].dl = n] ELSE segStates

(* Mutant: the file is dropped without a flush. *)
Flush_Dropped(w) == UNCHANGED written

(* BufWriter::flush *)
Flush(w) == written' = written \cup
    (worker[w].base + worker[w].kept .. worker[w].base + worker[w].off - 1)

(* update_segment_progress_bounded: the row must begin where the worker's segment does. *)
update_segment_progress_bounded(w) ==
    LET i == worker[w].seg
    IN  rows' = IF i \in DOMAIN rows /\ rows[i].start = worker[w].base
                THEN [rows EXCEPT ![i].dl = Smaller(worker[w].off, size(rows[i]))] ELSE rows

(* What a worker does before it leaves a stream: flush, sync, shared state, row. *)
SaveExit(w) ==
    IF worker[w].pc = "read"
    THEN Flush(w) /\ update_seg_state(w, worker[w].off) /\ update_segment_progress_bounded(w)
    ELSE UNCHANGED <<written, segStates, rows>>

(* After an error that is worth a retry: the attempt that failed began at `from`. *)
RetryOrReport(queue, w, kind) ==
    LET last == worker[w].tries + 1 >= MaxRetries
        plainLost == worker[w].plain /\ worker[w].from > 0 /\ verdict = "no"
    IN  \/ /\ last \/ plainLost
           /\ ReportAfter(queue, w, kind, 0)
        \/ /\ ~last /\ ~plainLost
           /\ Become(w, [worker[w] EXCEPT !.pc = "retry", !.tries = @ + 1, !.off = 0,
                                          !.kept = 0, !.left = 0, !.last = 0, !.whole = FALSE])
           /\ events' = queue

(* Nothing is left of the segment: Ok without a request. *)
SkipSegment(w) ==
    /\ worker[w].pc = "connect" /\ worker[w].base + worker[w].from > worker[w].req
    /\ Report(w, "done", worker[w].req - worker[w].base + 1)
    /\ UNCHANGED <<planVars, segStates, fileVars, co, job, modeVars, netVars, endVars, boundVars>>

Connecting(w) == worker[w].pc = "connect" /\ worker[w].base + worker[w].from <= worker[w].req

(* 200 instead of 206: final while nothing has been downloaded, else transient. *)
RangeNotSupported(queue, w) ==
    /\ sensitive' = TRUE
    /\ IF served THEN RetryOrReport(queue, w, "range") ELSE ReportAfter(queue, w, "range", 0)

(* The response: the verdict on Range (once), its status, the size it reports. *)
Respond(w) ==
    /\ Connecting(w)
    /\ \E supports \in IF verdict = "unknown" THEN ServerRange ELSE {verdict = "yes"},
          reported \in {n \in ServerSizes : n >= total} :
        LET usable == supports \/ (worker[w].open /\ worker[w].base + worker[w].from = 0)
            queue == IF verdict = "unknown"
                     THEN Append(events, Event("verdict", w, IF supports THEN 1 ELSE 0))
                     ELSE events
        IN  /\ verdict' = IF supports THEN "yes" ELSE "no"
            /\ \/ ~usable /\ RangeNotSupported(queue, w)
               \/ usable /\ reported > total /\ ReportAfter(queue, w, "larger", reported)
                  /\ UNCHANGED sensitive
               \/ /\ usable /\ reported = total
                  /\ Become(w, [worker[w] EXCEPT !.pc = "read", !.off = worker[w].from,
                                  !.kept = worker[w].from,
                                  !.last = IF worker[w].open THEN reported - 1 ELSE worker[w].req])
                  /\ events' = queue
                  /\ UNCHANGED sensitive
    /\ UNCHANGED <<planVars, segStates, fileVars, co, job, modeVars, served, verified, endVars, boundVars>>

(* The bytes a worker may still write: up to the boundary it sees now. *)
Position(w) == worker[w].base + worker[w].off
Budget(w) == Larger(segStates[worker[w].seg].end - Position(w) + 1, 0)

(* One chunk: the boundary is read before it is written, and may move in between. *)
ReadChunk(w) ==
    /\ worker[w].pc = "read"
    /\ \E len \in 1 .. MaxChunk :
        /\ Position(w) + len - 1 <= worker[w].last
        /\ Become(w, IF Budget(w) = 0
                     THEN [worker[w] EXCEPT !.pc = "finish", !.whole = TRUE]
                     ELSE [worker[w] EXCEPT !.pc = "write", !.left = Smaller(len, Budget(w)),
                                            !.whole = Budget(w) < len])
    /\ UNCHANGED <<planVars, segStates, fileVars, events, co, job, modeVars, netVars,
                   endVars, boundVars>>

(* The chunk's sub-chunks; a cut chunk ends the segment. *)
WriteChunk(w) ==
    LET off == worker[w].off + worker[w].left
    IN  /\ worker[w].pc = "write"
        /\ Become(w, [worker[w] EXCEPT !.pc = IF worker[w].whole THEN "finish" ELSE "read",
                                       !.off = off, !.left = 0])
        /\ update_seg_state(w, off)
        /\ served' = TRUE
        /\ UNCHANGED <<planVars, fileVars, events, co, job, modeVars, verdict, sensitive, verified,
                       endVars, boundVars>>

(* The periodic save flushes; the rows follow in FlushTick. *)
PeriodicFlush(w) ==
    /\ worker[w].pc = "read" /\ worker[w].kept < worker[w].off
    /\ Flush(w)
    /\ Become(w, [worker[w] EXCEPT !.kept = worker[w].off])
    /\ UNCHANGED <<planVars, segStates, rows, events, co, job, modeVars, netVars, endVars, boundVars>>

(* The stream is over, at its end or (a fault) earlier. *)
StreamEnd(w) ==
    LET ended == Position(w) > worker[w].last
    IN  /\ worker[w].pc = "read"
        /\ \/ ended /\ UNCHANGED faults
           \/ ~ended /\ Fault("drop")
        /\ Become(w, [worker[w] EXCEPT !.pc = "finish"])
        /\ UNCHANGED <<planVars, segStates, fileVars, events, co, job, modeVars, netVars,
                       endVars, sessions>>

(* Mutant: the end of the stream is the end of the segment. *)
Truncated_Never(w) == FALSE

(* The stream ended before the boundary, which may have moved. *)
Truncated(w) ==
    ~worker[w].whole /\ ~cancelled /\ Position(w) <= segStates[worker[w].seg].end

(* After the loop: flush and fdatasync, then the check for a short read. *)
FinishSegment(w) ==
    /\ worker[w].pc = "finish"
    /\ Flush(w)
    /\ \/ /\ Truncated(w)
          /\ update_seg_state(w, worker[w].off)
          /\ update_segment_progress_bounded(w)
          /\ RetryOrReport(events, w, "fatal")
       \/ /\ ~Truncated(w)
          /\ Become(w, [worker[w] EXCEPT !.pc = "save", !.kept = worker[w].off])
          /\ UNCHANGED <<segStates, rows, events>>
    /\ UNCHANGED <<planVars, co, job, modeVars, netVars, endVars, boundVars>>

(* The completed segment goes to the shared state, the row and the coordinator. *)
SaveDone(w) ==
    /\ worker[w].pc = "save"
    /\ update_seg_state(w, worker[w].off)
    /\ update_segment_progress_bounded(w)
    /\ Report(w, "done", worker[w].off)
    /\ UNCHANGED <<planVars, written, co, job, modeVars, netVars, endVars, boundVars>>

(* The next attempt takes its start and end from the row. *)
Retry(w) ==
    LET i == worker[w].seg
        row == IF i \in DOMAIN rows THEN rows[i]
               ELSE [start |-> worker[w].base, end |-> worker[w].req, dl |-> worker[w].from]
    IN  /\ worker[w].pc = "retry"
        /\ \/ /\ i \in DOMAIN rows /\ worker[w].base + row.dl > row.end
              /\ Report(w, "done", row.dl)
           \/ /\ i \notin DOMAIN rows \/ worker[w].base + row.dl <= row.end
              /\ Become(w, [worker[w] EXCEPT !.pc = "connect", !.from = row.dl, !.req = row.end])
              /\ UNCHANGED events
        /\ UNCHANGED <<planVars, segStates, fileVars, co, job, modeVars, netVars, endVars, boundVars>>

(***************************************************************************)
(* What may go wrong for a worker                                          *)
(***************************************************************************)

(* 403, 429 or 400: reported at once. *)
Rejected(w) ==
    /\ Connecting(w) /\ Fault("reject")
    /\ Report(w, "reject", 0)
    /\ UNCHANGED <<planVars, segStates, fileVars, co, job, modeVars, netVars, endVars, sessions>>

(* A 200 from a server that supports Range. *)
TransientFull(w) ==
    /\ Connecting(w) /\ verdict = "yes" /\ Fault("range")
    /\ ~(worker[w].open /\ worker[w].base + worker[w].from = 0)
    /\ RangeNotSupported(events, w)
    /\ UNCHANGED <<planVars, segStates, fileVars, co, job, modeVars, verdict, served, verified,
                   endVars, sessions>>

(* A version change or a misaligned response: no retry. *)
Unusable(w) ==
    /\ Connecting(w) /\ Fault("fatal")
    /\ Report(w, "fatal", 0)
    /\ UNCHANGED <<planVars, segStates, fileVars, co, job, modeVars, netVars, endVars, sessions>>

(* A broken connection or a stall. *)
Broken(w) ==
    /\ Connecting(w) \/ worker[w].pc = "read"
    /\ Fault("drop")
    /\ SaveExit(w)
    /\ RetryOrReport(events, w, "fatal")
    /\ UNCHANGED <<planVars, co, job, modeVars, netVars, endVars, sessions>>

(* The same on a pinned CDN node, which is reported for another node to take over.
   Nodes are pinned only for a download whose Range support was proved before. *)
NodeFailed(w) ==
    /\ range_ok /\ (Connecting(w) \/ worker[w].pc = "read")
    /\ Fault("node")
    /\ SaveExit(w)
    /\ Report(w, "node", 0)
    /\ UNCHANGED <<planVars, co, job, modeVars, netVars, endVars, sessions>>

(* A write or a flush fails: the buffered bytes are gone, seg_states keeps counting them. *)
WriteError(w) ==
    /\ worker[w].pc \in {"read", "write", "finish"} /\ worker[w].kept < worker[w].off
    /\ Fault("write")
    /\ RetryOrReport(events, w, "fatal")
    /\ UNCHANGED <<planVars, segStates, fileVars, co, job, modeVars, netVars, endVars, sessions>>

(* The worker's task dies in a request, without an event. *)
Panic(w) ==
    /\ Connecting(w) /\ Fault("panic")
    /\ Become(w, [Off EXCEPT !.pc = "dead", !.seg = worker[w].seg])
    /\ UNCHANGED <<planVars, segStates, fileVars, events, co, job, modeVars, netVars, endVars, sessions>>

(* worker_cancel ends the task, a closed channel the worker that waits for it. *)
WorkerExit(w) ==
    /\ \/ /\ co = "drain" /\ worker[w].pc \in {"reported", "dead"}
          /\ Become(w, Off)
       \/ /\ cancelled /\ worker[w].pc \in {"connect", "read", "retry"}
          /\ Become(w, [Off EXCEPT !.pc = "dead", !.seg = worker[w].seg])
    /\ SaveExit(w)
    /\ UNCHANGED <<planVars, events, co, job, modeVars, netVars, endVars, boundVars>>

(***************************************************************************)
(* The coordinator's event loop                                            *)
(***************************************************************************)

(* w, seg: who reported what; child, parent: the change being persisted; then: what
   follows it; plain: the assignment is a plain GET; kind: the error reported. *)
NoJob == [w |-> NoSeg, seg |-> NoSeg, child |-> NoSeg, parent |-> NoSeg, then |-> "idle",
          plain |-> FALSE, kind |-> "none"]

Alive == {w \in Workers : worker[w].pc # "off"}

Head1 == Head(events)

(* At the select: a cancel comes first (biased). *)
Looping == co = "idle" /\ ~cancelled

(* The next event, if it is of this kind; a Done or a failure ends an open stream. *)
Take(kind) ==
    /\ Looping /\ events # <<>> /\ Head1.kind = kind
    /\ events' = Tail(events)

CloseStream == openSeg' = IF openSeg = Head1.seg THEN NoSeg ELSE openSeg

Reporter == [NoJob EXCEPT !.w = Head1.w, !.seg = Head1.seg, !.kind = Head1.kind]

(* Leave the loop: close the assignment channels, wait for the workers. *)
Break(error) == co' = "drain" /\ err' = error /\ job' = NoJob

(* Go on with the work found, or retire the worker that asked. *)
Dispatch(w, nw, then, plain) ==
    /\ segments' = nw.segs
    /\ nextIndex' = IF nw.parent = NoSeg THEN nextIndex ELSE nextIndex + 1
    /\ job' = [NoJob EXCEPT !.w = w, !.child = nw.child, !.parent = nw.parent,
                            !.then = then, !.plain = plain]
    /\ co' = "persist"
    /\ UNCHANGED <<worker, err>>

Retire(S) ==
    /\ segments' = S
    /\ worker' = [worker EXCEPT ![job.w] = Off]
    /\ UNCHANGED nextIndex

Shortfall(s, n) == 0 < n /\ n < size(s)

(* Done.  A short count (the range grew after the worker had stopped) leaves a new
   pending segment for the rest. *)
HandleDone ==
    LET s == segments[Head1.seg]
        n == Head1.n
    IN  /\ Take("done") /\ CloseStream
        /\ \/ /\ Shortfall(s, n)
              /\ segments' = With([segments EXCEPT ![Head1.seg] =
                                     [start |-> s.start, end |-> s.start + n - 1, dl |-> n,
                                      state |-> "Completed"]],
                                  nextIndex,
                                  [start |-> s.start + n, end |-> s.end, dl |-> 0,
                                   state |-> "Pending"])
              /\ nextIndex' = nextIndex + 1
              /\ job' = [Reporter EXCEPT !.child = nextIndex, !.parent = Head1.seg,
                                         !.then = "assign"]
              /\ co' = "persist"
           \/ /\ ~Shortfall(s, n)
              /\ segments' = [segments EXCEPT ![Head1.seg] =
                                  [s EXCEPT !.dl = Smaller(n, size(s)), !.state = "Completed"]]
              /\ UNCHANGED nextIndex
              /\ job' = Reporter
              /\ co' = "assign"
        /\ UNCHANGED <<total, segStates, fileVars, worker, allowed, serial, strikes, expansions,
                       netVars, endVars, boundVars>>

(* The second half of the Done handler: the next work of this worker. *)
Assign ==
    /\ co = "assign"
    /\ \E m \in MinSplits :
        LET S == sync_downloaded_from_shared
            nw == IF serial THEN SerialWork(S)
                  ELSE IF Cardinality(Alive) > allowed THEN NoWork(S)
                  ELSE find_next_work(S, m)
        IN  \/ nw.child # NoSeg /\ Dispatch(job.w, nw, "send", FALSE)
            \/ /\ nw.child = NoSeg /\ Retire(S)
               /\ IF all_done(S) THEN Break("none") ELSE co' = "idle" /\ job' = NoJob /\ UNCHANGED err
    /\ UNCHANGED <<total, segStates, fileVars, events, modeVars, netVars, cancelled, result, boundVars>>

(* Mutant: the parent's row keeps its end. *)
persist_segment_change_ChildOnly == With(rows, job.child, Row(segments[job.child]))

(* upsert_segment, persist_split: the child's row, and its parent's new end with it. *)
persist_segment_change ==
    LET child == With(rows, job.child, Row(segments[job.child]))
    IN  IF job.parent \in DOMAIN rows
        THEN [child EXCEPT ![job.parent].end = segments[job.parent].end]
        ELSE child

(* One transaction; a failure is only logged. *)
Persist ==
    /\ co = "persist"
    /\ \/ rows' = persist_segment_change /\ UNCHANGED faults
       \/ Fault("db") /\ UNCHANGED rows
    /\ co' = "publish"
    /\ UNCHANGED <<planVars, segStates, written, worker, events, job, modeVars, netVars,
                   endVars, sessions>>

(* rebuild_seg_states after the await, then the assignment is sent. *)
Publish ==
    /\ co = "publish"
    /\ segStates' = rebuild_seg_states(segments)
    /\ \/ /\ job.then \in {"assign", "redispatch"}
          /\ co' = job.then
          /\ UNCHANGED <<worker, job, openSeg>>
       \/ /\ job.then = "send"
          /\ Become(job.w, Assigned(segments, job.child, job.plain, job.plain))
          /\ openSeg' = IF job.plain THEN job.child ELSE openSeg
          /\ co' = "idle" /\ job' = NoJob
       \/ /\ job.then = "fill"
          /\ Become(job.w, Assigned(segments, job.child, FALSE, FALSE))
          /\ co' = "fill" /\ job' = NoJob
          /\ UNCHANGED openSeg
       \/ /\ job.then = "idle"
          /\ co' = "idle" /\ job' = NoJob
          /\ UNCHANGED <<worker, openSeg>>
    /\ UNCHANGED <<planVars, fileVars, events, allowed, serial, strikes, expansions, netVars,
                   endVars, boundVars>>

TailSegment(n) == [start |-> total, end |-> n - 1, dl |-> 0, state |-> "Pending"]

(* TrueSizeLarger: a tail segment up to the reported size, at most MaxExpansions times. *)
HandleLarger ==
    LET n == Head1.n
        free == [segments EXCEPT ![Head1.seg].state = "Pending"]
    IN  /\ Take("larger") /\ CloseStream
        /\ \/ /\ n > total /\ expansions < MaxExpansions
              /\ segments' = With(segments, nextIndex, TailSegment(n))
              /\ nextIndex' = nextIndex + 1
              /\ total' = n
              /\ expansions' = expansions + 1
              /\ job' = [Reporter EXCEPT !.child = nextIndex, !.then = "redispatch"]
              /\ co' = "persist"
              /\ UNCHANGED <<cancelled, err, faults>>
           \/ /\ n > total
              /\ \/ expansions >= MaxExpansions /\ UNCHANGED faults
                 \/ expansions < MaxExpansions /\ Fault("disk")
              /\ segments' = free
              /\ cancelled' = TRUE
              /\ Break("error")
              /\ UNCHANGED <<nextIndex, total, expansions>>
           \/ /\ n <= total
              /\ job' = Reporter /\ co' = "redispatch"
              /\ UNCHANGED <<planVars, expansions, cancelled, err, faults>>
        /\ UNCHANGED <<segStates, fileVars, worker, allowed, serial, strikes, netVars, result, sessions>>

(* CdnNodeFailed *)
HandleNode ==
    /\ Take("node") /\ CloseStream
    /\ job' = Reporter /\ co' = "redispatch"
    /\ UNCHANGED <<planVars, segStates, fileVars, worker, allowed, serial, strikes, expansions,
                   netVars, endVars, boundVars>>

(* Both give the worker, which is still alive, a pending segment again.  Without proof
   of Range only a plain GET from byte 0 may fly. *)
Redispatch ==
    LET S == [segments EXCEPT ![job.seg].state = "Pending"]
    IN  /\ co = "redispatch"
        /\ \E m \in MinSplits :
            LET nw == IF ~range_ok THEN find_next_pending_only(S)
                      ELSE IF serial THEN SerialWork(S) ELSE find_next_work(S, m)
                plain == ~range_ok
                usable == nw.child # NoSeg
                          /\ (plain => S[nw.child].start + S[nw.child].dl = 0)
            IN  \/ usable /\ Dispatch(job.w, nw, "send", plain)
                \/ ~usable /\ Retire(S) /\ co' = "idle" /\ job' = NoJob /\ UNCHANGED err
        /\ UNCHANGED <<total, segStates, fileVars, events, modeVars, netVars, cancelled, result, boundVars>>

(* has_other_in_flight *)
has_other_in_flight(i) == In(segments, "Active") \ {i} # {}

(* Mutant: contiguity is not checked. *)
Absorbed_AnyPending(S, o) ==
    IF o = NoSeg \/ o \notin In(S, "Active") THEN {}
    ELSE {i \in In(S, "Pending") : S[i].dl = 0 /\ S[i].start > S[o].end}

(* Pending segments without progress that continue the open stream's segment. *)
Absorbed(S, o) ==
    LET free == {i \in In(S, "Pending") : S[i].dl = 0}
    IN  IF o = NoSeg \/ o \notin In(S, "Active") THEN {}
        ELSE {i \in free : /\ S[i].start > S[o].end
                           /\ \A b \in S[o].end + 1 .. S[i].start :
                                 \E j \in free : b \in Bytes(S[j])}

NewEnd(S, o) == Max({S[i].end : i \in Absorbed(S, o)})

Merge(S, T, o) ==
    [i \in DOMAIN T \ Absorbed(S, o) |->
        IF i = o THEN [T[i] EXCEPT !.end = NewEnd(S, o)] ELSE T[i]]

(* Absorb what can be absorbed (database first), then go on with `next`. *)
Absorb(S, o, next) ==
    /\ segments' = S
    /\ openSeg' = o
    /\ co' = IF Absorbed(S, o) = {} THEN next ELSE "merge"

(* A rejection while others are served, or a 200 although there is progress: halve the
   connections the first time, then go serial; keep all data. *)
HandleRejection ==
    LET i == Head1.seg
    IN  /\ Take("reject") \/ Take("range")
        /\ IF Head1.kind = "reject" THEN has_other_in_flight(i) ELSE served
        /\ strikes' = strikes + 1
        /\ IF ~serial /\ strikes = 0 /\ Cardinality(Alive) > 2
           THEN allowed' = Larger(Cardinality(Alive) \div 2, 1) /\ UNCHANGED serial
           ELSE serial' = TRUE /\ UNCHANGED allowed
        /\ Absorb([segments EXCEPT ![i].state = "Pending"],
                  IF openSeg = i THEN NoSeg ELSE openSeg, "retire")
        /\ job' = [Reporter EXCEPT !.then = "retire"]
        /\ UNCHANGED <<nextIndex, total, segStates, fileVars, worker, expansions, netVars,
                       endVars, boundVars>>

(* persist_merge: one transaction; if it fails (not counted) nothing is absorbed. *)
MergeRows ==
    /\ co = "merge"
    /\ \/ /\ rows' = Merge(segments, rows, openSeg)
          /\ co' = "merged" /\ UNCHANGED <<job, faults>>
       \/ /\ "db" \in Faults /\ UNCHANGED <<rows, faults>>
          /\ co' = job.then
          /\ job' = IF job.then = "idle" THEN NoJob ELSE job
    /\ UNCHANGED <<planVars, segStates, written, worker, events, modeVars, netVars, endVars, sessions>>

MergeSegments ==
    LET S == Merge(segments, segments, openSeg)
    IN  /\ co = "merged"
        /\ segments' = S
        /\ segStates' = rebuild_seg_states(S)
        /\ co' = job.then
        /\ job' = IF job.then = "idle" THEN NoJob ELSE job
        /\ UNCHANGED <<nextIndex, total, fileVars, worker, events, modeVars, netVars, endVars, boundVars>>

(* The rejected worker is retired; with nobody left the download gives up: a plain
   single stream if nothing (or, for 200s, little) would be thrown away. *)
RetireRejected ==
    /\ co = "retire"
    /\ worker' = [worker EXCEPT ![job.w] = Off]
    /\ \/ /\ Alive # {job.w} \/ In(segments, "Active") # {} \/ all_done(segments)
          /\ co' = "idle" /\ job' = NoJob /\ UNCHANGED err
       \/ /\ Alive = {job.w} /\ In(segments, "Active") = {} /\ ~all_done(segments)
          /\ \E little \in BOOLEAN :
                Break(IF ~served \/ (job.kind = "range" /\ little) THEN "fallback" ELSE "error")
    /\ UNCHANGED <<planVars, segStates, fileVars, events, modeVars, netVars, cancelled, result, boundVars>>

(* Path B: stop the workers and report.  A rejection before the first byte becomes the
   single-stream fallback, like a missing Range. *)
HandleFatal ==
    LET i == Head1.seg
        kind == Head1.kind
    IN  /\ Take("fatal") \/ Take("reject") \/ Take("range")
        /\ ~(kind = "reject" /\ has_other_in_flight(i)) /\ ~(kind = "range" /\ served)
        /\ CloseStream
        /\ segments' = [segments EXCEPT ![i].state = "Pending"]
        /\ cancelled' = TRUE
        /\ Break(IF kind = "range" \/ (kind = "reject" /\ ~served) THEN "fallback" ELSE "error")
        /\ UNCHANGED <<nextIndex, total, segStates, fileVars, worker, allowed, serial, strikes,
                       expansions, netVars, result, boundVars>>

(* RangeVerdict: release the ramp, or live on the one stream there is. *)
HandleVerdict ==
    /\ Take("verdict")
    /\ \/ /\ Head1.n = 1
          /\ verified' = TRUE
          /\ UNCHANGED <<segments, co, job, openSeg, sensitive>>
       \/ /\ Head1.n = 0
          /\ sensitive' = TRUE
          /\ Absorb(segments, openSeg, "idle")
          /\ UNCHANGED <<job, verified>>
    /\ UNCHANGED <<nextIndex, total, segStates, fileVars, worker, allowed, serial, strikes,
                   expansions, verdict, served, endVars, boundVars>>

(***************************************************************************)
(* Timers of the loop                                                      *)
(***************************************************************************)

(* A timer is taken only if nothing is in the event channel (biased). *)
Quiet == Looping /\ events = <<>>

(* Cut the longest active segment in advance, unless work is waiting already. *)
ProactiveTick ==
    /\ Quiet /\ ~serial /\ ~sensitive /\ range_ok /\ ~all_done(segments)
    /\ \E m \in MinSplits :
        LET S == sync_downloaded_from_shared
            nw == IF In(S, "Pending") # {} THEN NoWork(S) ELSE SplitLargest(S, m, "Pending")
        IN  \/ nw.child # NoSeg /\ Dispatch(NoSeg, nw, "idle", FALSE)
            \/ nw.child = NoSeg /\ segments' = S /\ UNCHANGED <<nextIndex, co, job, worker, err>>
    /\ UNCHANGED <<total, segStates, fileVars, events, modeVars, netVars, cancelled, result, boundVars>>

(* The ramp: clear dead slots; the throughput decides how many connections are allowed. *)
RampTick ==
    /\ Quiet
    /\ worker' = [w \in Workers |-> IF worker[w].pc = "dead" THEN Off ELSE worker[w]]
    /\ \E n \in 1 .. WorkerCap :
        /\ serial \/ ~range_ok => n = allowed
        /\ allowed' = n
    /\ co' = "fill"
    /\ UNCHANGED <<planVars, segStates, fileVars, events, job, serial, strikes, expansions,
                   openSeg, netVars, endVars, boundVars>>

(* Mutant: serial mode is forgotten. *)
MayGrow_EvenSerial(S) == range_ok /\ ~all_done(S) /\ Cardinality(Alive) < allowed

MayGrow(S) == ~serial /\ range_ok /\ ~all_done(S) /\ Cardinality(Alive) < allowed

(* Mutant: the ramp does not look whether anybody is left. *)
NobodyLeft_Unchecked(S) == FALSE

NobodyLeft(S) == Alive = {} /\ ~all_done(S)

(* Spawn workers up to the allowance; with no worker and no work, leave the loop. *)
Fill ==
    /\ co = "fill"
    /\ \E m \in MinSplits :
        LET S == sync_downloaded_from_shared
            nw == IF MayGrow(S) THEN find_next_work(S, m) ELSE NoWork(segments)
        IN  \/ /\ nw.child # NoSeg
               /\ Dispatch(CHOOSE w \in Workers : w \notin Alive, nw, "fill", FALSE)
            \/ /\ nw.child = NoSeg
               /\ segments' = nw.segs
               /\ IF NobodyLeft(S) THEN Break("none")
                  ELSE co' = "idle" /\ job' = NoJob /\ UNCHANGED err
               /\ UNCHANGED <<nextIndex, worker>>
    /\ UNCHANGED <<total, segStates, fileVars, events, modeVars, netVars, cancelled, result, boundVars>>

(* Mutant: what is in the buffer counts as durable. *)
DurableOffset_Buffered(w) == worker[w].off

DurableOffset(w) == worker[w].kept

(* The batch of durable progress, also once more after the loop. *)
FlushTick(w) ==
    LET i == worker[w].seg
    IN  /\ Quiet \/ co = "drain"
        /\ worker[w].pc \in {"read", "write", "finish", "save"}
        /\ i \in DOMAIN segments /\ segments[i].state # "Completed"
        /\ i \in DOMAIN rows /\ rows[i].start = segments[i].start
        /\ rows' = [rows EXCEPT ![i].dl =
                       Larger(@, Smaller(DurableOffset(w), Smaller(size(rows[i]), size(segments[i]))))]
        /\ rows' # rows
        /\ UNCHANGED <<planVars, segStates, written, worker, events, co, job, modeVars, netVars,
                       endVars, boundVars>>

(***************************************************************************)
(* Sessions                                                                *)
(***************************************************************************)

(* The memory of the process. *)
Blank ==
    /\ segments' = <<>> /\ nextIndex' = 0 /\ segStates' = <<>>
    /\ worker' = [w \in Workers |-> Off] /\ events' = <<>>
    /\ co' = "down" /\ job' = NoJob
    /\ allowed' = 1 /\ serial' = FALSE /\ strikes' = 0 /\ expansions' = 0 /\ openSeg' = NoSeg
    /\ verdict' = "unknown" /\ sensitive' = FALSE /\ served' = FALSE
    /\ cancelled' = FALSE /\ err' = "none"

(* The rows a session begins with: as they are, or fresh ones if there are none or
   they do not cover the file. *)
InitialRows(t, count) ==
    IF DOMAIN rows # {} /\ validate_coverage(rows, t) THEN rows ELSE build_fresh_segments(count, t)

(* The first n indices of P (take(n) on the sorted pending segments). *)
FirstOf(P, n) ==
    {G \in SUBSET P : /\ Cardinality(G) = Smaller(n, Cardinality(P))
                      /\ \A i \in G, j \in P \ G : i < j}

(* The map made of the rows, and the first byte a worker would ask for is byte 0. *)
LiveSegments(R) == [i \in DOMAIN R |-> LiveSegment(R[i])]
AtZero(s) == s.start + s.dl = 0

(* The loop begins with the rows R and a worker for each of the segments given. *)
Launch(R, t, n, given, holder, estimate) ==
    LET S == LiveSegments(R)
    IN  /\ total' = t
        /\ rows' = R
        /\ segments' = [i \in DOMAIN S |->
              IF i \in given THEN [S[i] EXCEPT !.state = "Active"] ELSE S[i]]
        /\ nextIndex' = Max(DOMAIN S) + 1
        /\ segStates' = [i \in DOMAIN S |-> [end |-> S[i].end, dl |-> S[i].dl]]
        /\ worker' = [w \in Workers |->
              IF \E i \in given : holder[i] = w
              THEN LET i == CHOOSE k \in given : holder[k] = w
                   IN  Assigned(S, i, AtZero(S[i]), estimate /\ AtZero(S[i]))
              ELSE Off]
        /\ openSeg' = IF \E i \in given : AtZero(S[i])
                      THEN CHOOSE i \in given : AtZero(S[i]) ELSE NoSeg
        /\ allowed' = n
        /\ verdict' = IF estimate THEN "unknown" ELSE "yes"
        /\ served' = (\E i \in DOMAIN S : S[i].dl > 0)
        /\ co' = IF all_done(S) THEN "drain" ELSE "idle"

(* The sizes a start may plan with, and how many workers it begins with: if a segment
   starts at byte 0 with no progress, only its open-ended worker. *)
Planned(estimate) ==
    IF estimate /\ DOMAIN rows # {} THEN {Max({rows[i].end : i \in DOMAIN rows}) + 1}
    ELSE IF estimate THEN Totals ELSE {FileSize}
FirstWorkers(S, n) == IF \E i \in In(S, "Pending") : AtZero(S[i]) THEN 1 ELSE n

(* run_coordinated_download up to its loop: plan, shared state, the first workers. *)
Start ==
    /\ co = "down" /\ sessions < MaxSessions /\ result \in {"none", "cancelled", "error"}
    /\ \E hint \in Estimates, n \in 1 .. WorkerCap :
        LET estimate == hint /\ ~verified
        IN  \E t \in Planned(estimate) :
             LET R == InitialRows(t, IF estimate THEN 1 ELSE Smaller(SegmentCount, t))
                 pending == In(LiveSegments(R), "Pending")
             IN  \E given \in FirstOf(pending, FirstWorkers(LiveSegments(R), n)) :
                  Launch(R, t, n, given, CHOOSE h \in Injection(given, Workers) : TRUE, estimate)
    /\ sessions' = sessions + 1
    /\ result' = "none"
    /\ UNCHANGED <<events, job, serial, strikes, expansions, sensitive, verified, cancelled, err,
                   written, faults>>

(* The user cancels: the workers see it at once, the coordinator at its select. *)
UserCancel ==
    /\ co # "down" /\ ~cancelled /\ Fault("cancel")
    /\ cancelled' = TRUE
    /\ UNCHANGED <<planVars, segStates, fileVars, worker, events, co, job, modeVars, netVars,
                   err, result, sessions>>

HandleCancel ==
    /\ co = "idle" /\ cancelled
    /\ Break("cancelled")
    /\ UNCHANGED <<planVars, segStates, fileVars, worker, events, modeVars, netVars, cancelled,
                   result, boundVars>>

(* All workers are gone: the final verification and the last write of the rows. *)
Finish ==
    LET S == sync_downloaded_from_shared
        seg_total == MapThenSumSet(LAMBDA i : S[i].dl, DOMAIN S)
        ok == err = "none" /\ seg_total >= total /\ validate_coverage(S, total)
    IN  /\ co = "drain" /\ Alive = {}
        /\ rows' = IF ok THEN [i \in DOMAIN rows |->
                                 IF i \in DOMAIN S THEN [rows[i] EXCEPT !.dl = S[i].dl] ELSE rows[i]]
                   ELSE rows
        /\ result' = IF ok THEN "ok" ELSE IF err = "none" THEN "error" ELSE err
        /\ Blank
        /\ UNCHANGED <<total, verified, written, boundVars>>

(* Bytes a resume will not fetch again. *)
Claimed(i) == rows[i].start .. rows[i].start + Smaller(rows[i].dl, size(rows[i])) - 1

(* The process dies.  Only what the rows claim is sure to be on the disk. *)
Crash ==
    /\ co # "down" /\ Fault("crash")
    /\ written' = written \cap UNION {Claimed(i) : i \in DOMAIN rows}
    /\ result' = "none"
    /\ Blank
    /\ UNCHANGED <<total, verified, rows, sessions>>

Init ==
    /\ segments = <<>> /\ nextIndex = 0 /\ segStates = <<>> /\ total = FileSize
    /\ worker = [w \in Workers |-> Off] /\ events = <<>>
    /\ co = "down" /\ job = NoJob
    /\ allowed = 1 /\ serial = FALSE /\ strikes = 0 /\ expansions = 0 /\ openSeg = NoSeg
    /\ verdict = "unknown" /\ sensitive = FALSE /\ served = FALSE /\ verified = FALSE
    /\ cancelled = FALSE /\ err = "none" /\ result = "none"
    /\ rows = <<>> /\ written = {} /\ faults = 0 /\ sessions = 0

(* The coordinator's task: it takes an event, goes on with a handler, or ends. *)
Coordinator ==
    \/ HandleDone \/ Assign \/ Persist \/ Publish \/ HandleLarger \/ HandleNode \/ Redispatch
    \/ HandleRejection \/ MergeRows \/ MergeSegments \/ RetireRejected \/ HandleFatal
    \/ HandleVerdict \/ Fill \/ HandleCancel \/ Finish

Worker(w) ==
    \/ SkipSegment(w) \/ Respond(w) \/ ReadChunk(w) \/ WriteChunk(w) \/ StreamEnd(w)
    \/ FinishSegment(w) \/ SaveDone(w) \/ Retry(w) \/ WorkerExit(w)

Trouble(w) ==
    \/ Rejected(w) \/ TransientFull(w) \/ Unusable(w) \/ Broken(w) \/ NodeFailed(w)
    \/ WriteError(w) \/ Panic(w)

Next ==
    \/ Start \/ Coordinator \/ ProactiveTick \/ RampTick \/ UserCancel \/ Crash
    \/ \E w \in Workers : Worker(w) \/ Trouble(w) \/ PeriodicFlush(w) \/ FlushTick(w)

Spec == Init /\ [][Next]_vars

(* The coordinator's task goes on, the ramp's timer fires, and some worker makes a step
   while one can: a request is answered or times out. *)
FairSpec ==
    /\ Spec
    /\ WF_vars(Coordinator) /\ WF_vars(RampTick) /\ WF_vars(\E w \in Workers : Worker(w))

(***************************************************************************)
(* Properties                                                              *)
(***************************************************************************)

Segment == [start : Nat, end : Nat, dl : Nat, state : {"Pending", "Active", "Completed"}]

Kinds == {"done", "verdict", "larger", "range", "reject", "fatal", "node"}

WorkerRec ==
    [pc : {"off", "connect", "read", "write", "finish", "save", "retry", "reported", "dead"},
     seg : Int, base : Nat, from : Nat, req : 0 .. FileSize - 1, last : 0 .. FileSize - 1,
     off : Nat, kept : Nat, left : Nat, whole : BOOLEAN, open : BOOLEAN, plain : BOOLEAN,
     tries : Nat]

EventRec ==
    {e \in [kind : Kinds, w : Workers, seg : Int, n : Nat] : e.kind = "larger" => e.n \in 1 .. FileSize}

TypeOK ==
    /\ nextIndex \in Nat /\ total \in 1 .. FileSize
    /\ DOMAIN segments \subseteq 0 .. nextIndex - 1
    /\ \A i \in DOMAIN segments : segments[i] \in Segment
    /\ \A i \in DOMAIN segStates : segStates[i] \in [end : 0 .. FileSize - 1, dl : Nat]
    /\ \A i \in DOMAIN rows : i \in Nat /\ rows[i] \in [start : Nat, end : 0 .. FileSize - 1, dl : Nat]
    /\ written \subseteq 0 .. FileSize - 1
    /\ worker \in [Workers -> WorkerRec]
    /\ \A w \in Workers : /\ worker[w].base <= worker[w].req
                          /\ worker[w].base + worker[w].off + worker[w].left <= FileSize
                          /\ worker[w].pc # "write" => worker[w].left = 0
    /\ events \in Seq(EventRec)
    /\ co \in {"down", "idle", "assign", "persist", "publish", "redispatch", "merge", "merged",
               "retire", "fill", "drain"}
    /\ job \in [w : Workers \cup {NoSeg}, seg : Int, child : Int, parent : Int,
                then : {"idle", "assign", "redispatch", "send", "fill", "retire"},
                plain : BOOLEAN, kind : Kinds \cup {"none"}]
    /\ allowed \in 1 .. Cardinality(Workers) /\ serial \in BOOLEAN
    /\ strikes \in Nat /\ expansions \in Nat /\ openSeg \in Int
    /\ verdict \in {"unknown", "yes", "no"}
    /\ sensitive \in BOOLEAN /\ served \in BOOLEAN /\ verified \in BOOLEAN /\ cancelled \in BOOLEAN
    /\ err \in {"none", "error", "fallback", "cancelled"}
    /\ result \in {"none", "ok", "error", "fallback", "cancelled"}
    /\ faults \in Nat /\ sessions \in Nat

(* The plan always covers the file, without gap or overlap, whatever is split, merged,
   extended or found short in between (validate_coverage as an invariant of the map). *)
PlanCovers == co # "down" => validate_coverage(segments, total)

(* So do the rows, at every point where the process may die: a resume never has to throw
   the progress away (persist_split and persist_merge are single transactions). *)
RowsCover == DOMAIN rows # {} => validate_coverage(rows, Max({rows[i].end : i \in DOMAIN rows}) + 1)

(* What the rows call downloaded is in the file: neither a boundary that moved under a
   writing worker nor a reassignment makes a hole a resume would trust. *)
RowsTrue == \A i \in DOMAIN rows : Claimed(i) \subseteq written

(* A completed segment has all its bytes, also when its range was changed after the
   worker had stopped; and a download that reports success has written every byte. *)
NoHole ==
    /\ \A i \in DOMAIN segments :
          segments[i].state = "Completed" => Bytes(segments[i]) \subseteq written
    /\ result = "ok" => 0 .. total - 1 \subseteq written

(* An active segment has exactly one worker (or a report of one that is not handled yet),
   and a worker only ever has an active segment. *)
OneHolder ==
    co \in {"idle", "fill"} /\ ~cancelled =>
        /\ \A i \in In(segments, "Active") :
              Cardinality({w \in Workers : worker[w].seg = i}) <= 1
        /\ \A w \in Alive : segments[worker[w].seg].state = "Active"

(* Workers with a request in flight, or about to send one. *)
Busy == {w \in Workers : worker[w].pc \in {"connect", "read", "write", "finish", "save", "retry"}}

(* After the fall-back to serial mode the number of connections only falls, until there
   is one: no path of the coordinator opens a second one. *)
SerialShrinks ==
    [][serial /\ serial' => Cardinality(Busy') <= Larger(Cardinality(Busy), 1)]_vars

(* The plain GET of a download whose server has not shown that it supports Range stays
   the only connection: a second one could cost it the link's quota. *)
PlainAlone ==
    verdict # "yes" /\ (\E w \in Busy : worker[w].plain) => Cardinality(Busy) = 1

(* Every run ends: no order of failures, retirements and dead workers leaves the
   coordinator waiting for a worker that no longer exists. *)
RunEnds == (co # "down") ~> (co = "down")

=============================================================================

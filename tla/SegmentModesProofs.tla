------------------------- MODULE SegmentModesProofs -------------------------
(***************************************************************************)
(* How many connections there are.  Serial mode never opens a second one,  *)
(* and the plain GET of a download whose server has not proved Range stays *)
(* alone.  Both depend on what a handler has found before it awaited the   *)
(* database; Modes says what is still true when it goes on.                *)
(*                                                                         *)
(* Then who is left: nobody who is needed leaves the loop, and so it is    *)
(* left without an error only when everything is complete (Whole).         *)
(***************************************************************************)
EXTENDS SegmentRowsProofs

-----------------------------------------------------------------------------
(* The invariant *)

(* Whatever begins at byte 0 has made progress: a plain GET, which can only *)
(* begin at the first byte, has nowhere to go.                              *)
Began(s) == s.start = 0 => s.dl > 0
Going(r) ==
    /\ ~r.plain
    /\ r.base = 0 => r.from > 0 /\ (r.pc \in {"read", "write", "finish", "save"} => r.off > 0)
Begun ==
    /\ \A i \in DOMAIN segments : Open(segments[i]) => Began(segments[i])
    /\ \A i \in DOMAIN segStates \cap DOMAIN segments :
          Open(segments[i]) /\ segments[i].start = 0 => segStates[i].dl > 0
    /\ \A i \in DOMAIN rows : Began(rows[i])
    /\ \A w \in Busy : Going(worker[w])
    /\ ~job.plain

(* Without proof of Range there is one worker, or no plain GET can be. *)
Single == \A v, w \in Alive : v = w
Lone == verdict = "yes" \/ Single \/ Begun

(* Workers and rows begin where their segments do. *)
Anchored ==
    /\ \A w \in Busy : /\ worker[w].seg \in In(segments, "Active")
                       /\ worker[w].base = segments[worker[w].seg].start
    /\ \A i \in DOMAIN rows : rows[i].start <= rows[i].end
    /\ co # "down" => \A i \in DOMAIN rows :
         i < nextIndex /\ (i \in DOMAIN segments => rows[i].start = segments[i].start)

(* What is being given away is open; in serial mode nobody is at work then, *)
(* and a new worker is hired only without it and with proof of Range.       *)
Giving == co \in {"persist", "publish"}
Given ==
    /\ Giving => Open(segments[job.child])
    /\ Giving /\ job.then = "send" /\ serial => Busy = {}
    /\ Giving /\ job.then = "fill" => verdict = "yes" /\ ~serial
    /\ co = "down" => ~serial

Modes == Anchored /\ Given /\ Lone

-----------------------------------------------------------------------------
(* The steps of a worker *)

LEMMA WorkerAt ==
  ASSUME Modes, IInv, NEW w \in Busy
  PROVE  /\ w \in Workers /\ worker[w].pc \in BusyPcs /\ DOMAIN worker = Workers /\ TypeOK
         /\ worker[w] \in WorkerRec /\ w \in Alive
         /\ worker[w].seg \in DOMAIN segments /\ segments[worker[w].seg].state = "Active"
         /\ worker[w].base = segments[worker[w].seg].start /\ Open(segments[worker[w].seg])
         /\ worker[w].base \in Nat /\ worker[w].off \in Nat /\ worker[w].from \in Nat
         /\ worker[w].left \in Nat /\ worker[w].req \in Nat /\ worker[w].base <= worker[w].req
         /\ co # "down"
<1>1. w \in Workers /\ worker[w].pc \in BusyPcs /\ TypeOK /\ worker[w] \in WorkerRec /\ w \in Alive
  BY BusyIs, WorkerType DEF IInv, Alive, BusyPcs
<1>2. DOMAIN worker = Workers
  BY <1>1 DEF TypeOK
<1>3. co # "down"
  <2>1. co = "down" => worker[w] = Off
    BY <1>1 DEF IInv, Shared
  <2> QED BY <1>1, <2>1, OffFacts DEF BusyPcs
<1>4. /\ worker[w].seg \in DOMAIN segments /\ segments[worker[w].seg].state = "Active"
  BY DEF Modes, Anchored, In
<1>5. worker[w].base = segments[worker[w].seg].start
  BY DEF Modes, Anchored
<1>6. Open(segments[worker[w].seg])
  BY <1>4 DEF Open
<1>7. /\ worker[w].base \in Nat /\ worker[w].off \in Nat /\ worker[w].from \in Nat
      /\ worker[w].left \in Nat /\ worker[w].req \in Nat /\ worker[w].base <= worker[w].req
  <2>1. worker[w].req \in 0 .. FileSize - 1 /\ worker[w].base <= worker[w].req
    BY <1>1, WorkerType
  <2>2. worker[w].base \in Nat /\ worker[w].off \in Nat /\ worker[w].from \in Nat /\ worker[w].left \in Nat
    BY <1>1 DEF WorkerRec
  <2> QED BY <2>1, <2>2
<1> QED BY <1>1, <1>2, <1>3, <1>4, <1>5, <1>6, <1>7

(* Rows that may follow while somebody works: the same ranges, and none     *)
(* goes back to nothing.                                                    *)
RowsGoOn ==
    /\ Same(rows', rows)
    /\ Begun => \A i \in DOMAIN rows : Began(rows[i]) => Began(rows'[i])

LEMMA SavedRow ==
  ASSUME TypeOK, \A i \in DOMAIN rows : rows[i].start <= rows[i].end,
         NEW w \in Workers, update_segment_progress_bounded(w),
         Begun /\ worker[w].base = 0 => worker[w].off > 0
  PROVE  RowsGoOn
<1> DEFINE i == worker[w].seg
<1>0. TypeRows /\ TypeWorker /\ Same(rows', rows)
  BY TypeParts, UpdateRow
<1>1. CASE rows' = rows
  BY <1>0, <1>1 DEF RowsGoOn
<1>2. CASE i \in DOMAIN rows /\ rows[i].start = worker[w].base
  <2>1. rows[i] \in RowRec /\ worker[w].off \in Nat
    BY <1>2, WorkerType DEF TypeOK, RowRec
  <2>2. PICK n : n = Smaller(worker[w].off, size(rows[i]))
    OBVIOUS
  <2>3. worker[w].off > 0 => n > 0
    BY <1>2, <2>1, <2>2, FileAssumption DEF RowRec, Smaller, Larger, size
  <2>4. rows' = [rows EXCEPT ![i].dl = n]
    BY <1>2, <2>2 DEF update_segment_progress_bounded
  <2>5. /\ rows'[i].dl = n /\ rows'[i].start = worker[w].base
        /\ \A j \in DOMAIN rows : j # i => rows'[j] = rows[j]
    BY <1>2, <2>1, <2>4 DEF RowRec
  <2> QED BY <1>0, <2>3, <2>5 DEF RowsGoOn, Began
<1> QED BY <1>1, <1>2 DEF update_segment_progress_bounded

LEMMA RowsAnchored ==
  ASSUME Anchored, RowsGoOn, UNCHANGED <<segments, nextIndex, co>>
  PROVE  /\ \A i \in DOMAIN rows' : rows'[i].start <= rows'[i].end
         /\ co' # "down" => \A i \in DOMAIN rows' :
              i < nextIndex' /\ (i \in DOMAIN segments' => rows'[i].start = segments'[i].start)
         /\ Begun => \A i \in DOMAIN rows' : Began(rows'[i])
BY DEF Anchored, RowsGoOn, Same, SameRange, Begun

(* The move of a worker, with what it counts and stores. *)
Fairly(w, r) ==
    /\ Become(w, r) /\ r.seg = worker[w].seg
    /\ r.pc \in BusyPcs => r.base = worker[w].base /\ (Begun => Going(r))
    /\ \/ UNCHANGED segStates
       \/ \E n \in Nat : update_seg_state(w, n) /\ (Begun /\ worker[w].base = 0 => n > 0)
    /\ UNCHANGED rows \/ update_segment_progress_bounded(w)
    /\ UNCHANGED rows \/ (Begun /\ worker[w].base = 0 => worker[w].off > 0)
    /\ UNCHANGED <<segments, nextIndex, co, job, serial>>
    /\ verdict = "yes" => verdict' = "yes"

LEMMA FairlyModes ==
  ASSUME Modes, IInv, NEW w \in Busy, NEW r, Fairly(w, r)
  PROVE  Modes'
<1> DEFINE i == worker[w].seg
           base == worker[w].base
<1>0. /\ w \in Workers /\ w \in Alive /\ DOMAIN worker = Workers /\ i \in DOMAIN segments
      /\ base = segments[i].start /\ base \in Nat /\ worker[w].off \in Nat
      /\ i \in In(segments, "Active") /\ TypeOK
  BY WorkerAt DEF Modes, Anchored
<1>1. worker'[w] = r /\ r.seg = i /\ \A v \in Workers : v # w => worker'[v] = worker[v]
  BY <1>0 DEF Fairly, Become
<1>2. Busy' \subseteq Busy /\ Alive' \subseteq Alive
  <2>1. ASSUME NEW v \in Busy' PROVE v \in Busy
    BY <1>1, <2>1, BusyIs, BusyIsNext
  <2>2. ASSUME NEW v \in Alive' PROVE v \in Alive
    BY <1>0, <1>1, <2>2 DEF Alive
  <2> QED BY <2>1, <2>2
<1>3. RowsGoOn
  <2>1. CASE UNCHANGED rows
    BY <2>1 DEF RowsGoOn, Same, SameRange
  <2>2. CASE ~UNCHANGED rows
    BY <1>0, <2>2, SavedRow DEF Fairly, Modes, Anchored
  <2> QED BY <2>1, <2>2
<1>4. Anchored'
  <2>1. ASSUME NEW v \in Busy'
        PROVE  worker'[v].seg \in In(segments, "Active") /\ worker'[v].base = segments[worker'[v].seg].start
    <3>1. CASE v = w
      BY <1>0, <1>1, <2>1, <3>1, BusyIsNext DEF Fairly
    <3>2. CASE v # w
      BY <1>1, <1>2, <2>1, <3>2, BusyIs DEF Modes, Anchored
    <3> QED BY <3>1, <3>2
  <2>2. UNCHANGED <<segments, nextIndex, co>>
    BY DEF Fairly
  <2> QED BY <1>3, <2>1, <2>2, RowsAnchored DEF Modes, Anchored, In
<1>5. Given'
  BY <1>2 DEF Fairly, Modes, Given, Giving
<1>6. ASSUME Begun, verdict' # "yes" PROVE Lone'
  <2>1. \A j \in DOMAIN rows' : Began(rows'[j])
    BY <1>3, <1>6, RowsAnchored DEF Modes, Fairly
  <2>2. \A v \in Busy' : Going(worker'[v])
    <3>1. ASSUME NEW v \in Busy' PROVE Going(worker'[v])
      <4>1. CASE v = w
        BY <1>1, <1>6, <3>1, <4>1, BusyIsNext DEF Fairly
      <4>2. CASE v # w
        BY <1>1, <1>2, <1>6, <3>1, <4>2, BusyIs DEF Begun
      <4> QED BY <4>1, <4>2
    <3> QED BY <3>1
  <2>3. \A j \in DOMAIN segStates' \cap DOMAIN segments :
          Open(segments[j]) /\ segments[j].start = 0 => segStates'[j].dl > 0
    <3>1. CASE segStates' = segStates
      BY <1>6, <3>1 DEF Begun
    <3>2. ASSUME NEW n \in Nat, i \in DOMAIN segStates, segStates' = [segStates EXCEPT ![i].dl = n],
                 base = 0 => n > 0
          PROVE  \A j \in DOMAIN segStates' \cap DOMAIN segments :
                    Open(segments[j]) /\ segments[j].start = 0 => segStates'[j].dl > 0
      <4>1. segStates[i] \in [end : 0 .. FileSize - 1, dl : Nat]
        BY <1>0, <3>2 DEF TypeOK
      <4>2. /\ segStates'[i].dl = n /\ DOMAIN segStates' = DOMAIN segStates
            /\ \A j \in DOMAIN segStates : j # i => segStates'[j] = segStates[j]
        BY <3>2, <4>1
      <4> QED BY <1>0, <1>6, <3>2, <4>2 DEF Begun
    <3>3. CASE segStates' # segStates
      BY <1>6, <3>2, <3>3 DEF Fairly, update_seg_state
    <3> QED BY <3>1, <3>3
  <2> QED BY <1>6, <2>1, <2>2, <2>3 DEF Begun, Lone, Fairly
<1>7. ASSUME Single PROVE Lone'
  BY <1>2, <1>7 DEF Single, Lone
<1>8. ASSUME verdict' = "yes" PROVE Lone'
  BY <1>8 DEF Lone
<1>9. Lone'
  BY <1>6, <1>7, <1>8 DEF Lone, Modes, Fairly
<1> QED BY <1>4, <1>5, <1>9 DEF Modes

(* What every action of a worker leaves alone. *)
Elsewhere == UNCHANGED <<segments, nextIndex, co, job, serial>> /\ (verdict = "yes" => verdict' = "yes")

(* It leaves its stream without going back, ... *)
Leaving(w) ==
    \/ UNCHANGED <<segStates, rows>>
    \/ /\ worker[w].pc \in {"read", "finish", "save"}
       /\ update_seg_state(w, worker[w].off) /\ update_segment_progress_bounded(w)

LEMMA LeavingModes ==
  ASSUME Modes, IInv, NEW w \in Busy, Elsewhere, Leaving(w), NEW r, Become(w, r), r.seg = worker[w].seg,
         r.pc \in BusyPcs => r.base = worker[w].base /\ (Begun => Going(r))
  PROVE  Modes'
<1>1. worker[w].off \in Nat
  BY WorkerAt
<1>2. worker[w].pc \in {"read", "finish", "save"} /\ Begun /\ worker[w].base = 0 => worker[w].off > 0
  BY DEF Begun, Going
<1>3. Fairly(w, r)
  BY <1>1, <1>2 DEF Fairly, Elsewhere, Leaving
<1> QED BY <1>3, FairlyModes

(* ... reports, ... *)
LEMMA ReportModes ==
  ASSUME Modes, IInv, NEW w \in Busy, Elsewhere, Leaving(w), NEW q, NEW kind, NEW n, ReportAfter(q, w, kind, n)
  PROVE  Modes'
<1>1. PICK r : r = [Off EXCEPT !.pc = "reported", !.seg = worker[w].seg]
  OBVIOUS
<1>2. r.pc = "reported" /\ r.seg = worker[w].seg
  BY <1>1, WorkerAt, WorkerType, OffFacts
<1>3. Become(w, r)
  BY <1>1 DEF ReportAfter
<1> QED BY <1>2, <1>3, LeavingModes DEF BusyPcs

(* ... tries again, ... *)
LEMMA RetryModes ==
  ASSUME Modes, IInv, NEW w \in Busy, Elsewhere, Leaving(w), NEW q, NEW kind, RetryOrReport(q, w, kind)
  PROVE  Modes'
<1>1. CASE ReportAfter(q, w, kind, 0)
  BY <1>1, ReportModes
<1>2. CASE Become(w, [worker[w] EXCEPT !.pc = "retry", !.tries = @ + 1, !.off = 0,
                                       !.kept = 0, !.left = 0, !.last = 0, !.whole = FALSE])
  <2>1. PICK r : r = [worker[w] EXCEPT !.pc = "retry", !.tries = @ + 1, !.off = 0,
                                       !.kept = 0, !.left = 0, !.last = 0, !.whole = FALSE]
    OBVIOUS
  <2>2. /\ r.pc = "retry" /\ r.seg = worker[w].seg /\ r.base = worker[w].base /\ r.from = worker[w].from
        /\ r.plain = worker[w].plain
    BY <2>1, WorkerAt DEF WorkerRec
  <2>3. Begun => Going(r)
    BY <2>2 DEF Begun, Going
  <2> QED BY <1>2, <2>1, <2>2, <2>3, LeavingModes
<1> QED BY <1>1, <1>2 DEF RetryOrReport

(* ... or is lost. *)
LEMMA LostModes ==
  ASSUME Modes, IInv, NEW w \in Busy, Elsewhere, Leaving(w),
         Become(w, [Off EXCEPT !.pc = "dead", !.seg = worker[w].seg])
  PROVE  Modes'
<1>1. PICK r : r = [Off EXCEPT !.pc = "dead", !.seg = worker[w].seg]
  OBVIOUS
<1>2. r.pc = "dead" /\ r.seg = worker[w].seg
  BY <1>1, WorkerAt, WorkerType, OffFacts
<1> QED BY <1>1, <1>2, LeavingModes DEF BusyPcs

(* A worker that goes on in its stream. *)
LEMMA StreamModes ==
  ASSUME Modes, IInv, NEW w \in Busy, Elsewhere, UNCHANGED rows,
         worker[w].pc \in {"read", "write", "finish"},
         NEW r, Become(w, r), r.seg = worker[w].seg, r.base = worker[w].base, r.from = worker[w].from,
         r.plain = worker[w].plain, r.off \in Nat, r.off >= worker[w].off,
         UNCHANGED segStates \/ update_seg_state(w, r.off)
  PROVE  Modes'
<1>1. worker[w].off \in Nat
  BY WorkerAt
<1>2. Begun => Going(worker[w])
  BY DEF Begun
<1>3. Begun => Going(r)
  BY <1>1, <1>2 DEF Going
<1>4. Begun /\ worker[w].base = 0 => r.off > 0
  BY <1>1, <1>2 DEF Going
<1>5. Fairly(w, r)
  BY <1>3, <1>4 DEF Fairly, Elsewhere
<1> QED BY <1>5, FairlyModes

(* Each action of a worker. *)
LEMMA RespondModes ==
  ASSUME Modes, IInv, NEW w \in Workers, Respond(w) PROVE Modes'
<1>1. w \in Busy /\ worker[w].pc = "connect"
  BY DEF Respond, Connecting, Busy
<1>2. PICK supports \in IF verdict = "unknown" THEN ServerRange ELSE {verdict = "yes"},
           reported \in {n \in ServerSizes : n >= total} :
        LET usable == supports \/ (worker[w].open /\ worker[w].base + worker[w].from = 0)
            queue == IF verdict = "unknown"
                     THEN Append(events, Event("verdict", w, IF supports THEN 1 ELSE 0))
                     ELSE events
        IN  /\ verdict' = IF supports THEN "yes" ELSE "no"
            /\ \/ ~usable /\ RangeNotSupported(queue, w)
               \/ usable /\ reported > total /\ ReportAfter(queue, w, "larger", reported)
                  /\ UNCHANGED sensitive
               \/ /\ usable /\ reported = total
                  /\ Become(w, [worker[w] EXCEPT !.pc = "read", !.off = worker[w].from,
                                  !.kept = worker[w].from,
                                  !.last = IF worker[w].open THEN reported - 1 ELSE worker[w].req])
                  /\ events' = queue
                  /\ UNCHANGED sensitive
  BY DEF Respond
<1>3. Elsewhere
  <2>1. verdict = "yes" => verdict' = "yes"
    BY <1>2
  <2> QED BY <2>1 DEF Respond, Elsewhere, planVars, modeVars
<1>4. Leaving(w)
  BY DEF Respond, Leaving, fileVars
<1>5. \E queue, lst :
        \/ RangeNotSupported(queue, w)
        \/ ReportAfter(queue, w, "larger", reported)
        \/ Become(w, [worker[w] EXCEPT !.pc = "read", !.off = worker[w].from,
                        !.kept = worker[w].from, !.last = lst])
  BY <1>2
<1>6. PICK queue, lst :
        \/ RangeNotSupported(queue, w)
        \/ ReportAfter(queue, w, "larger", reported)
        \/ Become(w, [worker[w] EXCEPT !.pc = "read", !.off = worker[w].from,
                        !.kept = worker[w].from, !.last = lst])
  BY <1>5
<1>7. CASE RangeNotSupported(queue, w)
  BY <1>1, <1>3, <1>4, <1>7, ReportModes, RetryModes DEF RangeNotSupported
<1>8. CASE ReportAfter(queue, w, "larger", reported)
  BY <1>1, <1>3, <1>4, <1>8, ReportModes
<1>9. CASE Become(w, [worker[w] EXCEPT !.pc = "read", !.off = worker[w].from,
                        !.kept = worker[w].from, !.last = lst])
  <2>1. PICK r : r = [worker[w] EXCEPT !.pc = "read", !.off = worker[w].from,
                              !.kept = worker[w].from, !.last = lst]
    OBVIOUS
  <2>2. /\ r.pc = "read" /\ r.seg = worker[w].seg /\ r.base = worker[w].base /\ r.from = worker[w].from
        /\ r.off = worker[w].from /\ r.plain = worker[w].plain
    BY <1>1, <2>1, WorkerAt DEF WorkerRec
  <2>3. Begun => Going(r)
    BY <1>1, <2>2 DEF Begun, Going
  <2> QED BY <1>1, <1>3, <1>4, <1>9, <2>1, <2>2, <2>3, LeavingModes
<1> QED BY <1>6, <1>7, <1>8, <1>9

LEMMA ReadChunkModes ==
  ASSUME Modes, IInv, NEW w \in Workers, ReadChunk(w) PROVE Modes'
<1>1. w \in Busy /\ worker[w].pc = "read"
  BY DEF ReadChunk, Busy
<1>2. Elsewhere /\ UNCHANGED <<segStates, rows>>
  BY DEF ReadChunk, Elsewhere, planVars, fileVars, modeVars, netVars
<1>3. PICK pc, n, whole : Become(w, [worker[w] EXCEPT !.pc = pc, !.left = n, !.whole = whole])
  <2>1. PICK len \in 1 .. MaxChunk :
          Become(w, IF Budget(w) = 0
                    THEN [worker[w] EXCEPT !.pc = "finish", !.whole = TRUE]
                    ELSE [worker[w] EXCEPT !.pc = "write", !.left = Smaller(len, Budget(w)),
                                           !.whole = Budget(w) < len])
    BY DEF ReadChunk
  <2>2. [worker[w] EXCEPT !.pc = "finish", !.whole = TRUE]
          = [worker[w] EXCEPT !.pc = "finish", !.left = worker[w].left, !.whole = TRUE]
    BY <1>1, WorkerAt DEF WorkerRec
  <2> QED BY <2>1, <2>2
<1>4. PICK r : r = [worker[w] EXCEPT !.pc = pc, !.left = n, !.whole = whole]
  OBVIOUS
<1>5. /\ r.seg = worker[w].seg /\ r.base = worker[w].base /\ r.from = worker[w].from
      /\ r.off = worker[w].off /\ r.plain = worker[w].plain
  BY <1>1, <1>4, WorkerAt DEF WorkerRec
<1>6. Become(w, r)
  BY <1>3, <1>4
<1>7. r.off \in Nat /\ r.off >= worker[w].off
  BY <1>1, <1>5, WorkerAt
<1> QED BY <1>1, <1>2, <1>5, <1>6, <1>7, StreamModes

LEMMA WriteChunkModes ==
  ASSUME Modes, IInv, NEW w \in Workers, WriteChunk(w) PROVE Modes'
<1>1. w \in Busy /\ worker[w].pc = "write"
  BY DEF WriteChunk, Busy
<1>2. Elsewhere /\ UNCHANGED rows
  BY DEF WriteChunk, Elsewhere, planVars, fileVars, modeVars, netVars
<1>3. PICK off, pc : /\ off = worker[w].off + worker[w].left
                     /\ pc = IF worker[w].whole THEN "finish" ELSE "read"
  OBVIOUS
<1>4. PICK r : r = [worker[w] EXCEPT !.pc = pc, !.off = off, !.left = 0]
  OBVIOUS
<1>5. Become(w, r) /\ update_seg_state(w, off)
  BY <1>3, <1>4 DEF WriteChunk
<1>6. /\ r.seg = worker[w].seg /\ r.base = worker[w].base /\ r.from = worker[w].from
      /\ r.off = off /\ r.plain = worker[w].plain
  BY <1>1, <1>4, WorkerAt DEF WorkerRec
<1>7. off \in Nat /\ off >= worker[w].off
  BY <1>1, <1>3, WorkerAt
<1> QED BY <1>1, <1>2, <1>5, <1>6, <1>7, StreamModes

LEMMA StreamEndModes ==
  ASSUME Modes, IInv, NEW w \in Workers, StreamEnd(w) PROVE Modes'
<1>1. w \in Busy /\ worker[w].pc = "read"
  BY DEF StreamEnd, Busy
<1>2. Elsewhere /\ UNCHANGED <<segStates, rows>>
  BY DEF StreamEnd, Elsewhere, planVars, fileVars, modeVars, netVars
<1>3. PICK r : r = [worker[w] EXCEPT !.pc = "finish"]
  OBVIOUS
<1>4. /\ r.seg = worker[w].seg /\ r.base = worker[w].base /\ r.from = worker[w].from
      /\ r.off = worker[w].off /\ r.plain = worker[w].plain
  BY <1>1, <1>3, WorkerAt DEF WorkerRec
<1>5. Become(w, r)
  BY <1>3 DEF StreamEnd
<1> QED BY <1>1, <1>2, <1>4, <1>5, WorkerAt, StreamModes

LEMMA PeriodicFlushModes ==
  ASSUME Modes, IInv, NEW w \in Workers, PeriodicFlush(w) PROVE Modes'
<1>1. w \in Busy /\ worker[w].pc = "read"
  BY DEF PeriodicFlush, Busy
<1>2. Elsewhere /\ UNCHANGED <<segStates, rows>>
  BY DEF PeriodicFlush, Elsewhere, planVars, modeVars, netVars
<1>3. PICK r : r = [worker[w] EXCEPT !.kept = worker[w].off]
  OBVIOUS
<1>4. /\ r.seg = worker[w].seg /\ r.base = worker[w].base /\ r.from = worker[w].from
      /\ r.off = worker[w].off /\ r.plain = worker[w].plain
  BY <1>1, <1>3, WorkerAt DEF WorkerRec
<1>5. Become(w, r)
  BY <1>3 DEF PeriodicFlush
<1> QED BY <1>1, <1>2, <1>4, <1>5, WorkerAt, StreamModes

LEMMA FinishSegmentModes ==
  ASSUME Modes, IInv, NEW w \in Workers, FinishSegment(w) PROVE Modes'
<1>1. w \in Busy /\ worker[w].pc = "finish"
  BY DEF FinishSegment, Busy
<1>2. Elsewhere
  BY DEF FinishSegment, Elsewhere, planVars, modeVars, netVars
<1>3. CASE /\ update_seg_state(w, worker[w].off) /\ update_segment_progress_bounded(w)
           /\ RetryOrReport(events, w, "fatal")
  BY <1>1, <1>2, <1>3, RetryModes DEF Leaving
<1>4. CASE /\ Become(w, [worker[w] EXCEPT !.pc = "save", !.kept = worker[w].off])
           /\ UNCHANGED <<segStates, rows, events>>
  <2>1. PICK r : r = [worker[w] EXCEPT !.pc = "save", !.kept = worker[w].off]
    OBVIOUS
  <2>2. /\ r.seg = worker[w].seg /\ r.base = worker[w].base /\ r.from = worker[w].from
        /\ r.off = worker[w].off /\ r.plain = worker[w].plain
    BY <1>1, <2>1, WorkerAt DEF WorkerRec
  <2>3. Become(w, r)
    BY <1>4, <2>1
  <2>4. r.off \in Nat /\ r.off >= worker[w].off
    BY <1>1, <2>2, WorkerAt
  <2>5. UNCHANGED segStates /\ UNCHANGED rows
    BY <1>4
  <2> QED BY <1>1, <1>2, <2>2, <2>3, <2>4, <2>5, StreamModes
<1> QED BY <1>3, <1>4 DEF FinishSegment

LEMMA RetryActionModes ==
  ASSUME Modes, IInv, NEW w \in Workers, Retry(w) PROVE Modes'
<1> DEFINE i == worker[w].seg
           row == IF i \in DOMAIN rows THEN rows[i]
                  ELSE [start |-> worker[w].base, end |-> worker[w].req, dl |-> worker[w].from]
<1>1. w \in Busy /\ worker[w].pc = "retry"
  BY DEF Retry, Busy
<1>2. Elsewhere /\ Leaving(w)
  BY DEF Retry, Elsewhere, Leaving, planVars, fileVars, modeVars, netVars
<1>3. Begun /\ worker[w].base = 0 => row.dl > 0
  <2>1. CASE i \in DOMAIN rows
    <3>1. rows[i].start = worker[w].base
      BY <1>1, <2>1, WorkerAt DEF Modes, Anchored
    <3> QED BY <2>1, <3>1 DEF Begun, Began
  <2>2. CASE i \notin DOMAIN rows
    BY <1>1, <2>2 DEF Begun, Going
  <2> QED BY <2>1, <2>2
<1>4. CASE ReportAfter(events, w, "done", row.dl)
  BY <1>1, <1>2, <1>4, ReportModes
<1>5. CASE Become(w, [worker[w] EXCEPT !.pc = "connect", !.from = row.dl, !.req = row.end])
  <2> HIDE DEF row
  <2>1. PICK r : r = [worker[w] EXCEPT !.pc = "connect", !.from = row.dl, !.req = row.end]
    OBVIOUS
  <2>2. /\ r.pc = "connect" /\ r.seg = worker[w].seg /\ r.base = worker[w].base /\ r.from = row.dl
        /\ r.plain = worker[w].plain
    BY <1>1, <2>1, WorkerAt DEF WorkerRec
  <2>3. Begun => Going(r)
    BY <1>1, <1>3, <2>2 DEF Begun, Going
  <2> QED BY <1>1, <1>2, <1>5, <2>1, <2>2, <2>3, LeavingModes
<1>6. \/ ReportAfter(events, w, "done", row.dl)
      \/ Become(w, [worker[w] EXCEPT !.pc = "connect", !.from = row.dl, !.req = row.end])
  BY DEF Retry, Report
<1> QED BY <1>4, <1>5, <1>6

LEMMA ReportedModes ==
  ASSUME Modes, IInv, NEW w \in Workers, SkipSegment(w) \/ SaveDone(w) PROVE Modes'
<1>1. w \in Busy
  BY DEF SkipSegment, SaveDone, Busy
<1>2. Elsewhere
  BY DEF SkipSegment, SaveDone, Elsewhere, planVars, modeVars, netVars
<1>3. Leaving(w)
  BY DEF SkipSegment, SaveDone, Leaving, fileVars
<1>4. \E n : ReportAfter(events, w, "done", n)
  BY DEF SkipSegment, SaveDone, Report
<1> QED BY <1>1, <1>2, <1>3, <1>4, ReportModes

LEMMA TroubleModes ==
  ASSUME Modes, IInv, NEW w \in Workers, Trouble(w) PROVE Modes'
<1>1. w \in Busy
  BY DEF Trouble, Rejected, TransientFull, Unusable, Broken, NodeFailed, WriteError, Panic, Connecting, Busy
<1>2. Elsewhere
  BY DEF Trouble, Rejected, TransientFull, Unusable, Broken, NodeFailed, WriteError, Panic, Elsewhere,
         planVars, modeVars, netVars
<1>3. Leaving(w)
  <2>1. SaveExit(w) => Leaving(w)
    BY DEF SaveExit, Leaving
  <2> QED BY <2>1 DEF Trouble, Rejected, TransientFull, Unusable, Broken, NodeFailed, WriteError, Panic,
                      Leaving, fileVars
<1>4. \/ \E kind : ReportAfter(events, w, kind, 0) \/ RetryOrReport(events, w, kind)
      \/ Become(w, [Off EXCEPT !.pc = "dead", !.seg = worker[w].seg])
  BY DEF Trouble, Rejected, TransientFull, Unusable, Broken, NodeFailed, WriteError, Panic,
         RangeNotSupported, Report
<1> QED BY <1>1, <1>2, <1>3, <1>4, ReportModes, RetryModes, LostModes

(* The batch of durable progress makes no row smaller. *)
LEMMA FlushTickModes ==
  ASSUME Modes, IInv, NEW w \in Workers, FlushTick(w) PROVE Modes'
<1> DEFINE i == worker[w].seg
           m == Smaller(DurableOffset(w), Smaller(size(rows[i]), size(segments[i])))
<1>1. i \in DOMAIN rows /\ rows' = [rows EXCEPT ![i].dl = Larger(rows[i].dl, m)]
  BY DEF FlushTick
<1>2. UNCHANGED <<segments, nextIndex, co, job, segStates, worker, serial, verdict>>
  BY DEF FlushTick, planVars, modeVars, netVars
<1>3. rows[i] \in RowRec /\ segments[i] \in Segment /\ worker[w].kept \in Nat
  BY <1>1, WorkerType DEF FlushTick, IInv, TypeOK, RowRec, WorkerRec
<1>4. m \in Int
  BY <1>3 DEF DurableOffset, Smaller, size, Larger, RowRec, Segment
<1> HIDE DEF m
<1>5. PICK n : n = Larger(rows[i].dl, m)
  OBVIOUS
<1>6. rows[i].dl > 0 => n > 0
  BY <1>3, <1>4, <1>5 DEF Larger, RowRec
<1>7. /\ rows'[i].start = rows[i].start /\ rows'[i].end = rows[i].end /\ rows'[i].dl = n
      /\ DOMAIN rows' = DOMAIN rows /\ \A j \in DOMAIN rows : j # i => rows'[j] = rows[j]
  BY <1>1, <1>3, <1>5 DEF RowRec
<1>8. RowsGoOn
  BY <1>6, <1>7 DEF RowsGoOn, Same, SameRange, Began
<1>9. Busy' = Busy /\ Alive' = Alive
  BY <1>2 DEF Busy, Alive
<1>10. Anchored'
  BY <1>2, <1>8, <1>9, RowsAnchored DEF Modes, Anchored, In
<1>11. Given'
  BY <1>2, <1>9 DEF Modes, Given, Giving
<1>12. Begun => Begun'
  <2>1. ASSUME Begun PROVE \A j \in DOMAIN rows' : Began(rows'[j])
    BY <1>2, <1>8, <2>1, RowsAnchored DEF Modes
  <2> QED BY <1>2, <1>9, <2>1 DEF Begun
<1>13. Lone'
  BY <1>2, <1>9, <1>12 DEF Modes, Lone, Single
<1> QED BY <1>10, <1>11, <1>13 DEF Modes

-----------------------------------------------------------------------------
(* The steps of the coordinator: the plan *)

(* A plan that may follow: no segment moves its start, none goes back to    *)
(* nothing, and a new one does not begin at the first byte.                 *)
Moved(T) ==
    /\ \A i \in DOMAIN segments :
         /\ i \in DOMAIN T /\ T[i].start = segments[i].start
         /\ Open(T[i]) => Open(segments[i]) /\ (Begun => Began(T[i]))
    /\ \A i \in DOMAIN T \ DOMAIN segments : i = nextIndex /\ T[i].start > 0

LEMMA MovedModes ==
  ASSUME Modes, IInv, co # "down", co' # "down", Moved(segments'),
         nextIndex' \in {nextIndex, nextIndex + 1}, UNCHANGED <<rows, segStates, verdict>>,
         AtWork, Alive' \subseteq Alive, \A w \in Busy : segments'[worker[w].seg].state = "Active",
         Given', verdict = "yes" \/ Single \/ ~job'.plain
  PROVE  Modes'
<1>0. nextIndex \in Nat /\ DOMAIN rows \subseteq Nat
  BY DEF IInv, TypeOK
<1>1. ASSUME NEW w \in Busy'
      PROVE  worker'[w].seg \in In(segments', "Active") /\ worker'[w].base = segments'[worker'[w].seg].start
  <2>1. w \in Busy /\ worker'[w] = worker[w]
    BY <1>1 DEF AtWork
  <2> QED BY <2>1 DEF Modes, Anchored, Moved, In
<1>2. ASSUME NEW i \in DOMAIN rows
      PROVE  i < nextIndex' /\ (i \in DOMAIN segments' => rows[i].start = segments'[i].start)
  <2>1. i < nextIndex /\ i \in Nat /\ (i \in DOMAIN segments => rows[i].start = segments[i].start)
    BY <1>0 DEF Modes, Anchored
  <2> QED BY <1>0, <2>1 DEF Moved
<1>3. Anchored'
  BY <1>1, <1>2 DEF Modes, Anchored
<1>4. ASSUME Begun, ~job'.plain PROVE Begun'
  <2>1. ASSUME NEW i \in DOMAIN segments', Open(segments'[i]) PROVE Began(segments'[i])
    BY <1>4, <2>1 DEF Moved, Began
  <2>2. ASSUME NEW i \in DOMAIN segStates' \cap DOMAIN segments', Open(segments'[i]), segments'[i].start = 0
        PROVE  segStates'[i].dl > 0
    BY <1>4, <2>2 DEF Moved, Begun
  <2>3. \A w \in Busy' : Going(worker'[w])
    BY <1>4 DEF Begun, AtWork
  <2> QED BY <1>4, <2>1, <2>2, <2>3 DEF Begun
<1>5. Lone'
  BY <1>4 DEF Modes, Lone, Single
<1> QED BY <1>3, <1>5 DEF Modes

LEMMA SameMoved == Moved(segments)
BY DEF Moved, Begun

LEMMA SyncMoved ==
  ASSUME IInv PROVE Moved(sync_downloaded_from_shared)
<1>1. PICK S : S = sync_downloaded_from_shared
  OBVIOUS
<1>2. /\ DOMAIN S = DOMAIN segments
      /\ \A i \in DOMAIN segments :
           S[i] = IF segments[i].state = "Active" /\ i \in DOMAIN segStates
                  THEN [segments[i] EXCEPT !.dl = segStates[i].dl] ELSE segments[i]
  BY <1>1, SyncFacts DEF IInv, Same
<1>3. ASSUME NEW i \in DOMAIN segments
      PROVE  /\ S[i].start = segments[i].start
             /\ Open(S[i]) => Open(segments[i]) /\ (Begun => Began(S[i]))
  <2>1. segments[i] \in Segment
    BY DEF IInv, TypeOK
  <2>2. CASE segments[i].state = "Active" /\ i \in DOMAIN segStates
    <3>1. /\ S[i].start = segments[i].start /\ S[i].state = "Active" /\ S[i].dl = segStates[i].dl
      BY <1>2, <2>1, <2>2 DEF Segment
    <3> QED BY <2>2, <3>1 DEF Open, Begun, Began
  <2>3. CASE ~(segments[i].state = "Active" /\ i \in DOMAIN segStates)
    BY <1>2, <2>3 DEF Begun
  <2> QED BY <2>2, <2>3
<1>4. Moved(S)
  BY <1>2, <1>3 DEF Moved
<1> QED BY <1>1, <1>4

LEMMA FreedMoved ==
  ASSUME IInv, NEW i \in In(segments, "Active")
  PROVE  Moved([segments EXCEPT ![i].state = "Pending"])
<1>1. PICK T : T = [segments EXCEPT ![i].state = "Pending"]
  OBVIOUS
<1>2. i \in DOMAIN segments /\ segments[i].state = "Active" /\ segments[i] \in Segment
  BY DEF In, IInv, TypeOK
<1>3. /\ DOMAIN T = DOMAIN segments /\ \A j \in DOMAIN segments : j # i => T[j] = segments[j]
      /\ T[i].start = segments[i].start /\ T[i].dl = segments[i].dl /\ T[i].state = "Pending"
  BY <1>1, <1>2 DEF Segment
<1>4. Open(segments[i])
  BY <1>2 DEF Open
<1>5. Begun => Began(T[i])
  BY <1>2, <1>3, <1>4 DEF Begun, Began
<1>6. Moved(T)
  BY <1>3, <1>4, <1>5, SameMoved DEF Moved
<1> QED BY <1>1, <1>6

LEMMA DispatchMoved ==
  ASSUME IInv, NEW S, PlanType(S, nextIndex), Same(S, segments), Moved(S),
         NEW nw, NEW state \in {"Pending", "Active"}, Picked(S, nw) \/ Cut(S, nw, state)
  PROVE  /\ Moved(nw.segs)
         /\ \A i \in In(S, "Active") : nw.segs[i].state = "Active"
         /\ nw.child \in DOMAIN nw.segs /\ Open(nw.segs[nw.child])
<1>0. nextIndex \in Nat /\ DOMAIN S = DOMAIN segments
  BY DEF IInv, TypeOK, Same
<1>1. CASE Picked(S, nw)
  <2>1. /\ Same(nw.segs, S) /\ nw.child \in DOMAIN S /\ S[nw.child].state = "Pending"
        /\ \A i \in DOMAIN S : /\ nw.segs[i].dl = S[i].dl
                               /\ nw.segs[i].state = IF i = nw.child THEN "Active" ELSE S[i].state
    BY <1>0, <1>1, PickedPlan
  <2>2. \A i \in DOMAIN S : i # nw.child => nw.segs[i] = S[i]
    BY <1>1 DEF Picked
  <2>3. DOMAIN nw.segs = DOMAIN S /\ nw.segs[nw.child].start = S[nw.child].start
    BY <2>1 DEF Same, SameRange
  <2>4. Open(S[nw.child]) /\ Open(nw.segs[nw.child])
    BY <2>1 DEF Open
  <2>5. Open(segments[nw.child]) /\ (Begun => Began(nw.segs[nw.child]))
    BY <1>0, <2>1, <2>3, <2>4 DEF Moved, Began
  <2>6. Moved(nw.segs)
    BY <1>0, <2>1, <2>2, <2>3, <2>5 DEF Moved
  <2> QED BY <2>1, <2>3, <2>4, <2>6 DEF In
<1>2. ASSUME NEW cut \in Nat, CutAt(S, nw, state, cut)
      PROVE  /\ Moved(nw.segs)
             /\ \A i \in In(S, "Active") : nw.segs[i].state = "Active"
             /\ nw.child \in DOMAIN nw.segs /\ Open(nw.segs[nw.child])
  <2>1. /\ Halved(S, nw.segs, nw.parent, nw.child, cut)
        /\ nw.child = nextIndex /\ nw.parent \in In(S, "Active") /\ nw.parent # nw.child
        /\ nw.segs[nw.child].state = state
        /\ \A i \in DOMAIN S : i # nw.parent => nw.segs[i] = S[i]
        /\ \A i \in DOMAIN S : nw.segs[i].dl = S[i].dl
        /\ \A i \in DOMAIN S : nw.segs[i].state = S[i].state
    BY <1>0, <1>2, CutPlan
  <2>2. /\ DOMAIN nw.segs = DOMAIN S \cup {nextIndex} /\ nw.segs[nw.parent].start = S[nw.parent].start
        /\ nw.segs[nw.child].start = cut /\ nw.parent \in DOMAIN S /\ S[nw.parent].start < cut
    BY <2>1 DEF Halved
  <2>3. cut > 0
    <3>1. S[nw.parent].start \in Nat
      BY <2>2 DEF PlanType, Segment
    <3> QED BY <2>2, <3>1
  <2>4. Open(S[nw.parent]) /\ Open(nw.segs[nw.child])
    BY <2>1 DEF Open, In
  <2>5. Open(segments[nw.parent]) /\ (Begun => Began(nw.segs[nw.parent]))
    BY <1>0, <2>1, <2>2, <2>4 DEF Moved, Began
  <2>6. Moved(nw.segs)
    BY <1>0, <2>1, <2>2, <2>3, <2>5 DEF Moved
  <2> QED BY <2>1, <2>2, <2>4, <2>6 DEF In
<1> QED BY <1>1, <1>2 DEF Cut

(* Work is given away: in serial mode nobody else is at work, a worker is   *)
(* hired only in parallel mode and with proof of Range.                     *)
LEMMA DispatchModes ==
  ASSUME Modes, IInv, Looped, NEW S, PlanType(S, nextIndex), Same(S, segments), Moved(S), Others(S),
         NEW nw, NEW state \in {"Pending", "Active"}, Picked(S, nw) \/ Cut(S, nw, state),
         NEW w, NEW then \in {"send", "fill", "idle"}, NEW plain,
         Dispatch(w, nw, then, plain), UNCHANGED <<rows, segStates, serial, verdict>>,
         then = "send" /\ serial => Busy = {}, then = "fill" => verdict = "yes" /\ ~serial,
         verdict = "yes" \/ Single \/ ~plain
  PROVE  Modes'
<1>1. /\ Moved(nw.segs)
      /\ \A i \in In(S, "Active") : nw.segs[i].state = "Active"
      /\ nw.child \in DOMAIN nw.segs /\ Open(nw.segs[nw.child])
  BY DispatchMoved
<1>2. /\ segments' = nw.segs /\ co' = "persist" /\ nextIndex' \in {nextIndex, nextIndex + 1}
      /\ job'.child = nw.child /\ job'.then = then /\ job'.plain = plain /\ worker' = worker
  BY DEF Dispatch, NoJob
<1>3. AtWork /\ Busy' = Busy /\ Alive' = Alive
  BY <1>2 DEF AtWork, Busy, Alive
<1>4. \A v \in Busy : segments'[worker[v].seg].state = "Active"
  BY <1>1, <1>2, BusyElsewhere DEF Others
<1>5. Given'
  BY <1>1, <1>2, <1>3 DEF Given, Giving
<1> QED BY <1>1, <1>2, <1>3, <1>4, <1>5, MovedModes DEF Looped

(* Nothing is given away. *)
LEMMA RestModes ==
  ASSUME Modes, IInv, co # "down", NEW S, Moved(S), segments' = S, nextIndex' = nextIndex,
         \A v \in Busy : S[worker[v].seg].state = "Active",
         co' \notin {"down", "persist", "publish"}, AtWork, Alive' \subseteq Alive,
         UNCHANGED <<rows, segStates, verdict>>, ~job'.plain
  PROVE  Modes'
<1>1. Given'
  BY DEF Given, Giving
<1> QED BY <1>1, MovedModes

LEMMA RetiredAlive ==
  ASSUME IInv, worker' = [worker EXCEPT ![job.w] = Off]
  PROVE  AtWork /\ Alive' \subseteq Alive
<1>1. DOMAIN worker = Workers
  BY DEF IInv, TypeOK
<1>2. \A v \in Workers : worker'[v] = IF v = job.w THEN Off ELSE worker[v]
  BY <1>1
<1>3. AtWork
  BY RetiredAtWork
<1>4. Off.pc = "off"
  BY OffFacts
<1>5. \A v \in Workers : worker'[v].pc # "off" => worker[v].pc # "off"
  BY <1>2, <1>4
<1>6. Alive' \subseteq Alive
  BY <1>5 DEF Alive
<1> QED BY <1>3, <1>6

LEMMA NoJobPlain == ~NoJob.plain /\ ~Reporter.plain
BY DEF NoJob, Reporter

(* The rest of a segment that was found short begins behind what was        *)
(* counted, and that is not nothing.                                        *)
LEMMA HandleDoneModes ==
  ASSUME Modes, IInv, HandleDone PROVE Modes'
<1> DEFINE i == Head1.seg
           n == Head1.n
           s == segments[i]
<1>1. Take("done") /\ UNCHANGED <<rows, segStates, worker, verdict, serial>>
  BY DEF HandleDone, fileVars, netVars
<1>2. /\ co = "idle" /\ Looped /\ Head1 \in EventRec
      /\ Reported(Head1.w) /\ i \in In(segments, "Active")
      /\ \A v \in Alive \ {Head1.w} : worker[v].seg # i
  BY <1>1, TakeFacts
<1>3. PlanType(segments, nextIndex) /\ nextIndex \in Nat /\ i \in DOMAIN segments
  BY <1>2, TypeParts DEF IInv, TypePlan, In
<1>4. s \in Segment /\ nextIndex \notin DOMAIN segments /\ i # nextIndex /\ n \in Nat
  BY <1>2, <1>3, ReporterType DEF PlanType
<1>5. \A w \in Busy : worker[w].seg # i
  <2>1. \A w \in Busy : w \in Alive /\ w # Head1.w
    BY <1>2 DEF Busy, Alive, Reported
  <2> QED BY <1>2, <2>1
<1>6. \A w \in Busy : worker[w].seg \in DOMAIN segments /\ segments[worker[w].seg].state = "Active"
  BY DEF Modes, Anchored, In
<1>7. AtWork /\ Alive' \subseteq Alive
  BY <1>1 DEF AtWork, Busy, Alive
<1>8. s.start \in Nat
  BY <1>4 DEF Segment
<1>9. CASE Shortfall(s, n)
  <2>1. PICK r : r = [start |-> s.start, end |-> s.start + n - 1, dl |-> n, state |-> "Completed"]
    OBVIOUS
  <2>2. PICK c : c = [start |-> s.start + n, end |-> s.end, dl |-> 0, state |-> "Pending"]
    OBVIOUS
  <2>3. /\ segments' = With([segments EXCEPT ![i] = r], nextIndex, c)
        /\ job' = [Reporter EXCEPT !.child = nextIndex, !.parent = i, !.then = "assign"]
        /\ co' = "persist" /\ nextIndex' = nextIndex + 1
    BY <1>9, <2>1, <2>2 DEF HandleDone
  <2>4. /\ DOMAIN segments' = DOMAIN segments \cup {nextIndex}
        /\ segments'[i] = r /\ segments'[nextIndex] = c
        /\ \A j \in DOMAIN segments : j # i => segments'[j] = segments[j]
    BY <1>3, <1>4, <2>3 DEF With
  <2>5. r.start = s.start /\ ~Open(r) /\ c.start > 0 /\ Open(c)
    BY <1>4, <1>8, <1>9, <2>1, <2>2 DEF Open, Shortfall
  <2>6. Moved(segments')
    BY <2>4, <2>5, SameMoved DEF Moved
  <2>7. job'.child = nextIndex /\ job'.then = "assign" /\ ~job'.plain
    BY <2>3 DEF Reporter, NoJob
  <2>8. Given'
    BY <2>3, <2>4, <2>5, <2>7 DEF Given, Giving
  <2>9. \A w \in Busy : segments'[worker[w].seg].state = "Active"
    BY <1>5, <1>6, <2>4
  <2> QED BY <1>1, <1>2, <1>7, <2>3, <2>6, <2>7, <2>8, <2>9, MovedModes
<1>10. CASE ~Shortfall(s, n)
  <2>1. PICK r : r = [s EXCEPT !.dl = Smaller(n, size(s)), !.state = "Completed"]
    OBVIOUS
  <2>2. segments' = [segments EXCEPT ![i] = r] /\ co' = "assign" /\ nextIndex' = nextIndex /\ job' = Reporter
    BY <1>10, <2>1 DEF HandleDone
  <2>3. r.start = s.start /\ ~Open(r)
    BY <1>4, <2>1 DEF Segment, Open
  <2>4. DOMAIN segments' = DOMAIN segments /\ segments'[i] = r
        /\ \A j \in DOMAIN segments : j # i => segments'[j] = segments[j]
    BY <1>3, <2>2
  <2>5. Moved(segments')
    BY <2>3, <2>4, SameMoved DEF Moved
  <2>6. \A w \in Busy : segments'[worker[w].seg].state = "Active"
    BY <1>5, <1>6, <2>4
  <2> QED BY <1>1, <1>2, <1>7, <2>2, <2>5, <2>6, NoJobPlain, RestModes
<1> QED BY <1>9, <1>10

(* A report that frees its segment, or leaves the plan alone. *)
LEMMA TakenModes ==
  ASSUME Modes, IInv, NEW kind, Take(kind),
         \/ segments' = segments
         \/ kind # "verdict" /\ segments' = [segments EXCEPT ![Head1.seg].state = "Pending"],
         nextIndex' = nextIndex, co' \notin {"down", "persist", "publish"},
         UNCHANGED <<rows, segStates, worker, verdict>>, ~job'.plain
  PROVE  Modes'
<1>1. co # "down" /\ AtWork /\ Alive' \subseteq Alive
  BY DEF AtWork, Busy, Alive, Take, Looping
<1>2. \A w \in Busy : worker[w].seg \in DOMAIN segments /\ segments[worker[w].seg].state = "Active"
  BY DEF Modes, Anchored, In
<1>3. CASE segments' = segments
  BY <1>1, <1>2, <1>3, SameMoved, RestModes
<1>4. CASE kind # "verdict" /\ segments' = [segments EXCEPT ![Head1.seg].state = "Pending"]
  <2>1. /\ Reported(Head1.w) /\ Head1.seg \in In(segments, "Active")
        /\ \A v \in Alive \ {Head1.w} : worker[v].seg # Head1.seg
    BY <1>4, TakeFacts
  <2>2. \A w \in Busy : w \in Alive /\ w # Head1.w
    BY <2>1 DEF Busy, Alive, Reported
  <2>3. \A w \in Busy : segments'[worker[w].seg].state = "Active"
    BY <1>2, <1>4, <2>1, <2>2
  <2>4. Moved(segments')
    BY <1>4, <2>1, FreedMoved
  <2> QED BY <1>1, <2>3, <2>4, RestModes
<1> QED BY <1>3, <1>4

LEMMA EventsModes ==
  ASSUME Modes, IInv, HandleNode \/ HandleRejection \/ HandleFatal \/ HandleVerdict
  PROVE  Modes'
<1>1. CASE HandleNode
  <2>1. Take("node") /\ segments' = segments /\ nextIndex' = nextIndex /\ co' = "redispatch" /\ job' = Reporter
        /\ UNCHANGED <<rows, segStates, worker, verdict>>
    BY <1>1 DEF HandleNode, planVars, fileVars, netVars
  <2> QED BY <2>1, NoJobPlain, TakenModes
<1>2. CASE HandleRejection
  <2>1. PICK kind \in {"reject", "range"} : Take(kind)
    BY <1>2 DEF HandleRejection
  <2>2. segments' = [segments EXCEPT ![Head1.seg].state = "Pending"] /\ nextIndex' = nextIndex
        /\ co' \in {"retire", "merge"} /\ UNCHANGED <<rows, segStates, worker, verdict>>
    BY <1>2 DEF HandleRejection, Absorb, fileVars, netVars
  <2>3. ~job'.plain
    BY <1>2 DEF HandleRejection, Reporter, NoJob
  <2> QED BY <2>1, <2>2, <2>3, TakenModes
<1>3. CASE HandleFatal
  <2>1. PICK kind \in {"fatal", "reject", "range"} : Take(kind)
    BY <1>3 DEF HandleFatal
  <2>2. segments' = [segments EXCEPT ![Head1.seg].state = "Pending"] /\ nextIndex' = nextIndex
        /\ co' = "drain" /\ job' = NoJob /\ UNCHANGED <<rows, segStates, worker, verdict>>
    BY <1>3 DEF HandleFatal, Break, fileVars, netVars
  <2> QED BY <2>1, <2>2, NoJobPlain, TakenModes
<1>4. CASE HandleVerdict
  <2>1. Take("verdict") /\ segments' = segments /\ nextIndex' = nextIndex
        /\ UNCHANGED <<rows, segStates, worker, verdict, job>>
    BY <1>4 DEF HandleVerdict, Absorb, fileVars
  <2>2. co' \in {"idle", "merge"} /\ job = NoJob
    BY <1>4, <2>1, TakeFacts DEF HandleVerdict, Absorb
  <2> QED BY <2>1, <2>2, NoJobPlain, TakenModes
<1> QED BY <1>1, <1>2, <1>3, <1>4

(* The tail of a larger file begins behind the file that was planned. *)
LEMMA HandleLargerModes ==
  ASSUME Modes, IInv, HandleLarger PROVE Modes'
<1> DEFINE i == Head1.seg
           n == Head1.n
<1>1. Take("larger") /\ UNCHANGED <<rows, segStates, worker, verdict, serial>>
  BY DEF HandleLarger, fileVars, netVars
<1>2. co = "idle" /\ n \in 1 .. FileSize
  BY <1>1, TakeFacts, LargerSize
<1>3. TypePlan /\ validate_coverage(segments, total)
  BY <1>2, TypeParts DEF IInv, PlanCovers
<1>4. CASE /\ n > total
           /\ segments' = With(segments, nextIndex, TailSegment(n))
           /\ nextIndex' = nextIndex + 1
           /\ job' = [Reporter EXCEPT !.child = nextIndex, !.then = "redispatch"]
           /\ co' = "persist"
  <2>1. \A j \in DOMAIN segments : segments'[j] = segments[j]
    BY <1>2, <1>3, <1>4, TailPlan
  <2>2. DOMAIN segments' = DOMAIN segments \cup {nextIndex} /\ segments'[nextIndex] = TailSegment(n)
    BY <1>4 DEF With
  <2>3. Open(TailSegment(n)) /\ TailSegment(n).start > 0
    BY <1>3, FileAssumption DEF TailSegment, Open, TypePlan
  <2>4. Moved(segments')
    BY <2>1, <2>2, <2>3, SameMoved DEF Moved
  <2>5. job'.child = nextIndex /\ job'.then = "redispatch" /\ ~job'.plain
    BY <1>4 DEF Reporter, NoJob
  <2>6. Given'
    BY <1>4, <2>2, <2>3, <2>5 DEF Given, Giving
  <2>7. \A w \in Busy : segments'[worker[w].seg].state = "Active"
    BY <2>1 DEF Modes, Anchored, In
  <2>8. AtWork /\ Alive' \subseteq Alive
    BY <1>1 DEF AtWork, Busy, Alive
  <2> QED BY <1>1, <1>2, <1>4, <2>4, <2>5, <2>6, <2>7, <2>8, MovedModes
<1>5. CASE /\ segments' = [segments EXCEPT ![i].state = "Pending"] /\ co' = "drain"
           /\ nextIndex' = nextIndex /\ job' = NoJob
  BY <1>1, <1>5, NoJobPlain, TakenModes
<1>6. CASE segments' = segments /\ co' = "redispatch" /\ nextIndex' = nextIndex /\ job' = Reporter
  BY <1>1, <1>6, NoJobPlain, TakenModes
<1>7. \/ /\ n > total
         /\ segments' = With(segments, nextIndex, TailSegment(n))
         /\ nextIndex' = nextIndex + 1
         /\ job' = [Reporter EXCEPT !.child = nextIndex, !.then = "redispatch"]
         /\ co' = "persist"
      \/ /\ segments' = [segments EXCEPT ![i].state = "Pending"] /\ co' = "drain"
         /\ nextIndex' = nextIndex /\ job' = NoJob
      \/ segments' = segments /\ co' = "redispatch" /\ nextIndex' = nextIndex /\ job' = Reporter
  BY DEF HandleLarger, Break, planVars
<1> QED BY <1>4, <1>5, <1>6, <1>7

(* Serial mode finds work only when nobody is at work. *)
LEMMA SerialAlone ==
  ASSUME IInv, NEW S, Others(S), SerialWork(S).child # NoSeg
  PROVE  Busy = {}
<1>1. In(S, "Active") = {}
  BY DEF SerialWork, NoWork
<1> QED BY <1>1, BusyElsewhere DEF Others

(* The handlers that look for work. *)
LEMMA AssignModes ==
  ASSUME Modes, IInv, Assign PROVE Modes'
<1>1. PICK m \in MinSplits :
        LET S == sync_downloaded_from_shared
            nw == IF serial THEN SerialWork(S)
                  ELSE IF Cardinality(Alive) > allowed THEN NoWork(S)
                  ELSE find_next_work(S, m)
        IN  \/ nw.child # NoSeg /\ Dispatch(job.w, nw, "send", FALSE)
            \/ /\ nw.child = NoSeg /\ Retire(S)
               /\ IF all_done(S) THEN Break("none") ELSE co' = "idle" /\ job' = NoJob /\ UNCHANGED err
  BY DEF Assign
<1>2. PICK S : S = sync_downloaded_from_shared
  OBVIOUS
<1>3. PICK nw : nw = IF serial THEN SerialWork(S)
                     ELSE IF Cardinality(Alive) > allowed THEN NoWork(S)
                     ELSE find_next_work(S, m)
  OBVIOUS
<1>4. \/ nw.child # NoSeg /\ Dispatch(job.w, nw, "send", FALSE)
      \/ Retire(S) /\ co' \in {"idle", "drain"} /\ job' = NoJob
  BY <1>1, <1>2, <1>3 DEF Break
<1>5. UNCHANGED <<rows, segStates, serial, verdict>> /\ Looped /\ co # "down"
  BY DEF Assign, fileVars, modeVars, netVars, Looped
<1>6. /\ PlanType(S, nextIndex) /\ Same(S, segments) /\ Others(S)
      /\ nextIndex \in Nat /\ total \in Nat /\ validate_coverage(S, total)
  BY <1>2, <1>5, SyncReady
<1>7. Found(S, nw) /\ Moved(S)
  BY <1>2, <1>3, <1>6, WorkFacts, SyncMoved
<1>8. CASE nw.child # NoSeg /\ Dispatch(job.w, nw, "send", FALSE)
  <2>1. Picked(S, nw) \/ Cut(S, nw, "Active")
    BY <1>7, <1>8 DEF Found, Nothing
  <2>2. serial => Busy = {}
    BY <1>3, <1>6, <1>8, SerialAlone
  <2> QED BY <1>5, <1>6, <1>7, <1>8, <2>1, <2>2, DispatchModes
<1>9. CASE Retire(S) /\ co' \in {"idle", "drain"} /\ job' = NoJob
  <2>1. \A v \in Busy : S[worker[v].seg].state = "Active"
    BY <1>6, BusyElsewhere DEF Others, In
  <2> QED BY <1>5, <1>7, <1>9, <2>1, RetiredAlive, NoJobPlain, RestModes DEF Retire
<1> QED BY <1>4, <1>8, <1>9

(* Without proof of Range a segment can only be sent if it begins at the    *)
(* first byte and has no progress: nobody else is at work then.             *)
LEMMA RedispatchModes ==
  ASSUME Modes, IInv, Redispatch PROVE Modes'
<1>1. PICK S : S = [segments EXCEPT ![job.seg].state = "Pending"]
  OBVIOUS
<1>2. PICK m \in MinSplits :
        LET nw == IF ~range_ok THEN find_next_pending_only(S)
                  ELSE IF serial THEN SerialWork(S) ELSE find_next_work(S, m)
            plain == ~range_ok
            usable == nw.child # NoSeg
                      /\ (plain => S[nw.child].start + S[nw.child].dl = 0)
        IN  \/ usable /\ Dispatch(job.w, nw, "send", plain)
            \/ ~usable /\ Retire(S) /\ co' = "idle" /\ job' = NoJob /\ UNCHANGED err
  BY <1>1 DEF Redispatch
<1>3. PICK nw : nw = IF ~range_ok THEN find_next_pending_only(S)
                     ELSE IF serial THEN SerialWork(S) ELSE find_next_work(S, m)
  OBVIOUS
<1>4. \/ /\ nw.child # NoSeg /\ Dispatch(job.w, nw, "send", ~range_ok)
         /\ ~range_ok => S[nw.child].start + S[nw.child].dl = 0
      \/ Retire(S) /\ co' = "idle" /\ job' = NoJob
  BY <1>2, <1>3
<1>5. /\ UNCHANGED <<rows, segStates, serial, verdict>> /\ co = "redispatch" /\ Looped
  BY DEF Redispatch, fileVars, modeVars, netVars, Looped
<1>6. /\ PlanType(segments, nextIndex) /\ nextIndex \in Nat /\ total \in Nat
      /\ validate_coverage(segments, total) /\ Kept(job.seg) /\ Reported(job.w)
  BY <1>5, TypeParts, FileAssumption DEF IInv, TypePlan, PlanCovers, JobInv
<1>7. /\ PlanType(S, nextIndex) /\ Same(S, segments)
      /\ \A j \in DOMAIN segments : j # job.seg => S[j] = segments[j]
  BY <1>1, <1>6, Restated DEF Kept, In
<1>8. validate_coverage(S, total)
  BY <1>6, <1>7, CoverSame
<1>9. Found(S, nw)
  BY <1>3, <1>6, <1>7, <1>8, WorkFacts
<1>10. Moved(S)
  BY <1>1, <1>6, FreedMoved DEF Kept
<1>11. Others(S)
  <2>1. \A v \in Alive \ {job.w} : worker[v].seg \in In(segments, "Active") /\ worker[v].seg # job.seg
    BY <1>5, <1>6 DEF IInv, Holding, Kept, HeldByOther
  <2> QED BY <1>7, <2>1 DEF Others, In, Same
<1>12. CASE /\ nw.child # NoSeg /\ Dispatch(job.w, nw, "send", ~range_ok)
            /\ ~range_ok => S[nw.child].start + S[nw.child].dl = 0
  <2>1. Picked(S, nw) \/ Cut(S, nw, "Active")
    BY <1>9, <1>12 DEF Found, Nothing
  <2>2. ASSUME ~range_ok PROVE Single
    <3>1. Picked(S, nw) \/ Nothing(S, nw)
      BY <1>3, <1>6, <1>7, <2>2, PickFacts
    <3>2. nw.child \in DOMAIN S /\ S[nw.child].state = "Pending" /\ S[nw.child] \in Segment
      BY <1>7, <1>12, <3>1 DEF Picked, Nothing, In, PlanType
    <3>3. S[nw.child].start = 0 /\ S[nw.child].dl = 0
      BY <1>12, <2>2, <3>2 DEF Segment
    <3>4. nw.child \in DOMAIN segments /\ Open(S[nw.child])
      BY <1>7, <3>2 DEF Same, Open
    <3>5. ~Began(S[nw.child])
      BY <3>3 DEF Began
    <3>6. ~Begun
      BY <1>10, <3>4, <3>5 DEF Moved
    <3> QED BY <2>2, <3>6 DEF Modes, Lone, range_ok
  <2>3. Single => Busy = {}
    <3>1. job.w \in Alive
      BY <1>6 DEF Reported, Alive
    <3> QED BY <3>1, BusyElsewhere DEF Single
  <2>4. serial => Busy = {}
    <3>1. CASE ~range_ok
      BY <2>2, <2>3, <3>1
    <3>2. CASE range_ok
      BY <1>3, <1>11, <1>12, <3>2, SerialAlone
    <3> QED BY <3>1, <3>2
  <2>5. verdict = "yes" \/ Single
    BY <2>2 DEF range_ok
  <2> QED BY <1>5, <1>7, <1>10, <1>11, <1>12, <2>1, <2>4, <2>5, DispatchModes
<1>13. CASE Retire(S) /\ co' = "idle" /\ job' = NoJob
  <2>1. \A v \in Busy : S[worker[v].seg].state = "Active"
    BY <1>11, BusyElsewhere DEF Others, In
  <2> QED BY <1>5, <1>10, <1>13, <2>1, RetiredAlive, NoJobPlain, RestModes DEF Retire
<1> QED BY <1>4, <1>12, <1>13

LEMMA ProactiveTickModes ==
  ASSUME Modes, IInv, ProactiveTick PROVE Modes'
<1>1. PICK m \in MinSplits :
        LET S == sync_downloaded_from_shared
            nw == IF In(S, "Pending") # {} THEN NoWork(S) ELSE SplitLargest(S, m, "Pending")
        IN  \/ nw.child # NoSeg /\ Dispatch(NoSeg, nw, "idle", FALSE)
            \/ nw.child = NoSeg /\ segments' = S /\ UNCHANGED <<nextIndex, co, job, worker, err>>
  BY DEF ProactiveTick
<1>2. PICK S : S = sync_downloaded_from_shared
  OBVIOUS
<1>3. PICK nw : nw = IF In(S, "Pending") # {} THEN NoWork(S) ELSE SplitLargest(S, m, "Pending")
  OBVIOUS
<1>4. UNCHANGED <<rows, segStates, serial, verdict>> /\ co = "idle" /\ Looped /\ job = NoJob
  <2>1. co = "idle"
    BY DEF ProactiveTick, Quiet, Looping
  <2>2. job = NoJob
    BY <2>1 DEF IInv, JobInv, Handling
  <2> QED BY <2>1, <2>2 DEF ProactiveTick, fileVars, modeVars, netVars, Looped
<1>5. \/ nw.child # NoSeg /\ Dispatch(NoSeg, nw, "idle", FALSE)
      \/ segments' = S /\ UNCHANGED <<nextIndex, co, job, worker>>
  BY <1>1, <1>2, <1>3
<1>6. /\ PlanType(S, nextIndex) /\ Same(S, segments) /\ Others(S)
      /\ nextIndex \in Nat /\ total \in Nat /\ validate_coverage(S, total)
  BY <1>2, <1>4, SyncReady
<1>7. Moved(S)
  BY <1>2, SyncMoved
<1>8. CASE nw.child # NoSeg /\ Dispatch(NoSeg, nw, "idle", FALSE)
  <2>1. Cut(S, nw, "Pending")
    BY <1>3, <1>6, <1>8, SplitFacts DEF Nothing, NoWork
  <2> QED BY <1>4, <1>6, <1>7, <1>8, <2>1, DispatchModes
<1>9. CASE segments' = S /\ UNCHANGED <<nextIndex, co, job, worker>>
  <2>1. AtWork /\ Alive' \subseteq Alive
    BY <1>9 DEF AtWork, Busy, Alive
  <2>2. \A v \in Busy : S[worker[v].seg].state = "Active"
    BY <1>6, BusyElsewhere DEF Others, In
  <2> QED BY <1>4, <1>7, <1>9, <2>1, <2>2, NoJobPlain, RestModes
<1> QED BY <1>5, <1>8, <1>9

LEMMA FillModes ==
  ASSUME Modes, IInv, Fill PROVE Modes'
<1>1. PICK S : S = sync_downloaded_from_shared
  OBVIOUS
<1>2. PICK m \in MinSplits :
        LET nw == IF MayGrow(S) THEN find_next_work(S, m) ELSE NoWork(segments)
        IN  \/ /\ nw.child # NoSeg
               /\ Dispatch(CHOOSE w \in Workers : w \notin Alive, nw, "fill", FALSE)
            \/ /\ nw.child = NoSeg
               /\ segments' = nw.segs
               /\ IF NobodyLeft(S) THEN Break("none")
                  ELSE co' = "idle" /\ job' = NoJob /\ UNCHANGED err
               /\ UNCHANGED <<nextIndex, worker>>
  BY <1>1 DEF Fill
<1>3. PICK nw : nw = IF MayGrow(S) THEN find_next_work(S, m) ELSE NoWork(segments)
  OBVIOUS
<1>4. \/ nw.child # NoSeg /\ Dispatch(CHOOSE w \in Workers : w \notin Alive, nw, "fill", FALSE)
      \/ /\ nw.child = NoSeg /\ segments' = nw.segs /\ co' \in {"idle", "drain"} /\ job' = NoJob
         /\ UNCHANGED <<nextIndex, worker>>
  BY <1>2, <1>3 DEF Break
<1>5. UNCHANGED <<rows, segStates, serial, verdict>> /\ Looped /\ co # "down"
  BY DEF Fill, fileVars, modeVars, netVars, Looped
<1>6. /\ PlanType(S, nextIndex) /\ Same(S, segments) /\ Others(S)
      /\ nextIndex \in Nat /\ total \in Nat /\ validate_coverage(S, total)
  BY <1>1, <1>5, SyncReady
<1>7. Found(S, nw) \/ nw = NoWork(segments)
  BY <1>3, <1>6, WorkFacts
<1>8. Moved(S) /\ Moved(segments) /\ Others(segments)
  BY <1>1, <1>5, SyncMoved, SameMoved, SegmentsReady
<1>9. CASE nw.child # NoSeg /\ Dispatch(CHOOSE w \in Workers : w \notin Alive, nw, "fill", FALSE)
  <2>1. Picked(S, nw) \/ Cut(S, nw, "Active")
    BY <1>7, <1>9 DEF Found, Nothing, NoWork
  <2>2. verdict = "yes" /\ ~serial
    BY <1>3, <1>9 DEF NoWork, MayGrow, range_ok
  <2> QED BY <1>5, <1>6, <1>8, <1>9, <2>1, <2>2, DispatchModes
<1>10. CASE /\ nw.child = NoSeg /\ segments' = nw.segs /\ co' \in {"idle", "drain"} /\ job' = NoJob
            /\ UNCHANGED <<nextIndex, worker>>
  <2>1. nw.segs = segments \/ nw.segs = S
    <3>1. CASE nw = NoWork(segments)
      BY <3>1 DEF NoWork
    <3>2. CASE Found(S, nw)
      <4>1. ~Picked(S, nw)
        BY <1>6, <1>10, PickedPlan
      <4>2. nw.child # nextIndex
        BY <1>6, <1>10 DEF NoSeg
      <4>3. ~Cut(S, nw, "Active")
        BY <4>2 DEF Cut, CutAt
      <4> QED BY <3>2, <4>1, <4>3 DEF Found, Nothing
    <3> QED BY <1>7, <3>1, <3>2
  <2>2. AtWork /\ Alive' \subseteq Alive
    BY <1>10 DEF AtWork, Busy, Alive
  <2>3. /\ \A v \in Busy : S[worker[v].seg].state = "Active"
        /\ \A v \in Busy : segments[worker[v].seg].state = "Active"
    BY <1>6, <1>8, BusyElsewhere DEF Others, In
  <2> QED BY <1>5, <1>8, <1>10, <2>1, <2>2, <2>3, NoJobPlain, RestModes
<1> QED BY <1>4, <1>9, <1>10

(* The ramp, a cancel, a worker that is retired or ends. *)
LEMMA LoopModes ==
  ASSUME Modes, IInv, RetireRejected \/ HandleCancel \/ RampTick
  PROVE  Modes'
<1>1. UNCHANGED <<segments, nextIndex, rows, segStates, verdict>> /\ co # "down"
  BY DEF RetireRejected, HandleCancel, RampTick, planVars, fileVars, netVars, Quiet, Looping
<1>2. co' \in {"idle", "fill", "drain"}
  BY DEF RetireRejected, HandleCancel, RampTick, Break
<1>3. ~job'.plain
  <2>1. CASE RetireRejected \/ HandleCancel
    BY <2>1, NoJobPlain DEF RetireRejected, HandleCancel, Break
  <2>2. CASE RampTick
    BY <2>2, NoJobPlain DEF RampTick, Quiet, Looping, IInv, JobInv, Handling
  <2> QED BY <2>1, <2>2
<1>4. AtWork /\ Alive' \subseteq Alive
  <2>1. CASE RetireRejected
    BY <2>1, RetiredAlive DEF RetireRejected
  <2>2. CASE HandleCancel
    BY <2>2 DEF HandleCancel, AtWork, Busy, Alive
  <2>3. CASE RampTick
    <3>1. worker' = [w \in Workers |-> IF worker[w].pc = "dead" THEN Off ELSE worker[w]]
      BY <2>3 DEF RampTick
    <3>2. \A w \in Workers : worker'[w] = IF worker[w].pc = "dead" THEN Off ELSE worker[w]
      BY <3>1
    <3>3. Off.pc = "off"
      BY OffFacts
    <3>4. AtWork
      BY <3>2, <3>3 DEF AtWork, Busy
    <3>5. \A w \in Workers : worker'[w].pc # "off" => worker[w].pc # "off"
      BY <3>2, <3>3
    <3>6. Alive' \subseteq Alive
      BY <3>5 DEF Alive
    <3> QED BY <3>4, <3>6
  <2> QED BY <2>1, <2>2, <2>3
<1>5. \A v \in Busy : segments[worker[v].seg].state = "Active"
  BY DEF Modes, Anchored, In
<1> QED BY <1>1, <1>2, <1>3, <1>4, <1>5, SameMoved, RestModes

(* Only the workers change, and nobody's work. *)
LEMMA SeatsModes ==
  ASSUME Modes, IInv, AtWork, Alive' \subseteq Alive,
         UNCHANGED <<segments, nextIndex, rows, segStates, verdict, co, job, serial>>
  PROVE  Modes'
<1>1. Anchored'
  BY DEF Modes, Anchored, AtWork, In
<1>2. Given'
  BY DEF Modes, Given, Giving, AtWork
<1>3. Begun => Begun'
  BY DEF Begun, AtWork
<1>4. Lone'
  BY <1>3 DEF Modes, Lone, Single
<1> QED BY <1>1, <1>2, <1>4 DEF Modes

LEMMA WorkerExitModes ==
  ASSUME Modes, IInv, NEW w \in Workers, WorkerExit(w) PROVE Modes'
<1>1. Elsewhere /\ SaveExit(w) /\ UNCHANGED verdict
  BY DEF WorkerExit, Elsewhere, planVars, modeVars, netVars
<1>2. CASE worker[w].pc \in {"reported", "dead"} /\ Become(w, Off)
  <2>1. UNCHANGED <<segStates, rows>>
    BY <1>1, <1>2 DEF SaveExit
  <2>2. DOMAIN worker = Workers
    BY DEF IInv, TypeOK
  <2>3. \A v \in Workers : worker'[v] = IF v = w THEN Off ELSE worker[v]
    BY <1>2, <2>2 DEF Become
  <2>4. AtWork /\ Alive' \subseteq Alive
    BY <1>2, <2>3, OffFacts, ZenonT(30) DEF AtWork, Busy, Alive
  <2> QED BY <1>1, <2>1, <2>4, SeatsModes DEF Elsewhere
<1>3. CASE worker[w].pc \in {"connect", "read", "retry"}
           /\ Become(w, [Off EXCEPT !.pc = "dead", !.seg = worker[w].seg])
  <2>1. w \in Busy
    BY <1>3 DEF Busy
  <2>2. Leaving(w)
    BY <1>1 DEF SaveExit, Leaving
  <2> QED BY <1>1, <1>3, <2>1, <2>2, LostModes
<1> QED BY <1>2, <1>3 DEF WorkerExit

LEMMA WorkersModes ==
  ASSUME Modes, IInv,
         \/ UserCancel \/ UNCHANGED vars
         \/ \E w \in Workers : Worker(w) \/ Trouble(w) \/ PeriodicFlush(w) \/ FlushTick(w)
  PROVE  Modes'
<1>1. CASE UserCancel \/ UNCHANGED vars
  <2>1. UNCHANGED <<segments, nextIndex, rows, segStates, verdict, co, job, serial, worker>>
    BY <1>1 DEF UserCancel, vars, planVars, fileVars, modeVars, netVars
  <2>2. AtWork /\ Alive' \subseteq Alive
    BY <2>1 DEF AtWork, Busy, Alive
  <2> QED BY <2>1, <2>2, SeatsModes
<1>2. ASSUME NEW w \in Workers, Worker(w) \/ Trouble(w) \/ PeriodicFlush(w) \/ FlushTick(w)
      PROVE  Modes'
  BY <1>2, RespondModes, ReadChunkModes, WriteChunkModes, StreamEndModes, FinishSegmentModes,
     ReportedModes, RetryActionModes, WorkerExitModes, TroubleModes, PeriodicFlushModes,
     FlushTickModes DEF Worker
<1> QED BY <1>1, <1>2

-----------------------------------------------------------------------------
(* The steps of the coordinator: the rows and the shared state *)

(* What is stored is open, so it has made progress if everything has. *)
LEMMA PersistModes ==
  ASSUME Modes, IInv, Persist PROVE Modes'
<1> DEFINE c == job.child
           p == job.parent
<1>1. /\ co = "persist" /\ co' = "publish" /\ (rows' = persist_segment_change \/ rows' = rows)
      /\ UNCHANGED <<segments, nextIndex, segStates, worker, job, serial, verdict>>
  BY DEF Persist, planVars, modeVars, netVars
<1>2. /\ TypePlan /\ validate_coverage(segments, total) /\ nextIndex \in Nat /\ PlanType(segments, nextIndex)
  BY <1>1, TypeParts DEF IInv, PlanCovers, TypePlan
<1>3. \A i \in DOMAIN segments : /\ segments[i] \in Segment /\ segments[i].start <= segments[i].end
                                 /\ i < nextIndex
  BY <1>2 DEF PlanType, validate_coverage
<1>4. c \in DOMAIN segments /\ Open(segments[c]) /\ (Begun => Began(segments[c]))
  BY <1>1 DEF Modes, Given, Giving, IInv, JobInv, Begun
<1>5. \A i \in DOMAIN rows' :
         /\ rows'[i].start <= rows'[i].end /\ i < nextIndex
         /\ i \in DOMAIN segments => rows'[i].start = segments[i].start
         /\ Begun => Began(rows'[i])
  <2>0. \A i \in DOMAIN rows :
           /\ rows[i].start <= rows[i].end /\ i < nextIndex
           /\ i \in DOMAIN segments => rows[i].start = segments[i].start
           /\ Begun => Began(rows[i])
    BY <1>1 DEF Modes, Anchored, Begun
  <2>1. CASE rows' = rows
    BY <2>0, <2>1
  <2>2. CASE rows' = persist_segment_change
    <3>1. PICK R : R = With(rows, c, Row(segments[c]))
      OBVIOUS
    <3>2. /\ DOMAIN R = DOMAIN rows \cup {c} /\ R[c] = Row(segments[c])
          /\ \A i \in DOMAIN rows : i # c => R[i] = rows[i]
      BY <3>1 DEF With
    <3>3. R[c].start = segments[c].start /\ R[c].end = segments[c].end /\ R[c].dl = segments[c].dl
      BY <3>2 DEF Row
    <3>4. ASSUME NEW i \in DOMAIN R
          PROVE  /\ R[i].start <= R[i].end /\ i < nextIndex
                 /\ i \in DOMAIN segments => R[i].start = segments[i].start
                 /\ Begun => Began(R[i])
      <4>1. CASE i = c
        BY <1>3, <1>4, <3>3, <4>1 DEF Began
      <4>2. CASE i # c
        BY <2>0, <3>2, <4>2
      <4> QED BY <4>1, <4>2
    <3>5. CASE p \notin DOMAIN rows
      <4>1. rows' = R
        BY <2>2, <3>1, <3>5 DEF persist_segment_change
      <4> QED BY <3>4, <4>1
    <3>6. CASE p \in DOMAIN rows
      <4>1. rows' = [R EXCEPT ![p].end = segments[p].end]
        BY <2>2, <3>1, <3>6 DEF persist_segment_change
      <4>2. p \in DOMAIN R /\ p \in Nat /\ p \in DOMAIN segments
        <5>1. p \in Nat
          BY <3>6 DEF IInv, TypeOK
        <5>2. p # NoSeg
          BY <5>1 DEF NoSeg
        <5> QED BY <1>1, <3>2, <3>6, <5>1, <5>2 DEF IInv, JobInv
      <4>3. /\ DOMAIN rows' = DOMAIN R /\ rows'[p] = [R[p] EXCEPT !.end = segments[p].end]
            /\ \A i \in DOMAIN R : i # p => rows'[i] = R[i]
        BY <4>1, <4>2
      <4>4. R[p] \in [start : Nat, end : Nat, dl : Nat]
        <5>1. CASE p = c
          BY <1>3, <1>4, <3>2, <5>1 DEF Row, Segment
        <5>2. CASE p # c
          BY <3>2, <3>6, <5>2 DEF IInv, TypeOK
        <5> QED BY <5>1, <5>2
      <4>5. rows'[p].start = R[p].start /\ rows'[p].end = segments[p].end /\ rows'[p].dl = R[p].dl
        BY <4>3, <4>4
      <4>6. /\ p < nextIndex /\ R[p].start = segments[p].start /\ (Begun => Began(R[p]))
        BY <3>4, <4>2
      <4>7. rows'[p].start <= rows'[p].end /\ (Begun => Began(rows'[p]))
        BY <1>3, <4>2, <4>5, <4>6 DEF Began
      <4> QED BY <3>4, <4>3, <4>5, <4>6, <4>7
    <3> QED BY <3>5, <3>6
  <2> QED BY <1>1, <2>1, <2>2
<1>6. Busy' = Busy /\ Alive' = Alive
  BY <1>1 DEF Busy, Alive
<1>7. Anchored'
  BY <1>1, <1>5, <1>6 DEF Modes, Anchored, In
<1>8. Given'
  BY <1>1, <1>6 DEF Modes, Given, Giving
<1>9. Begun => Begun'
  BY <1>1, <1>5, <1>6 DEF Begun
<1>10. Lone'
  BY <1>1, <1>6, <1>9 DEF Modes, Lone, Single
<1> QED BY <1>7, <1>8, <1>10 DEF Modes

LEMMA AssignedAt ==
  ASSUME NEW S, NEW i, NEW open, NEW plain
  PROVE  LET r == Assigned(S, i, open, plain)
         IN  /\ r.pc = "connect" /\ r.seg = i /\ r.base = S[i].start /\ r.from = S[i].dl
             /\ r.plain = plain
<1>1. PICK r : r = Assigned(S, i, open, plain)
  OBVIOUS
<1>2. /\ r.pc = "connect" /\ r.seg = i /\ r.base = S[i].start /\ r.from = S[i].dl
      /\ r.plain = plain
  BY <1>1 DEF Assigned, Off
<1> QED BY <1>1, <1>2

(* A worker that waited for an answer gets the segment, or one is hired. *)
LEMMA PublishModes ==
  ASSUME Modes, IInv, Publish PROVE Modes'
<1> DEFINE c == job.child
<1>1. /\ co = "publish" /\ segStates' = rebuild_seg_states(segments)
      /\ co' \in {"assign", "redispatch", "idle", "fill"}
      /\ UNCHANGED <<segments, nextIndex, rows, serial, verdict>>
      /\ job' = job \/ job' = NoJob
  BY DEF Publish, planVars, fileVars, netVars
<1>2. c \in DOMAIN segments /\ Open(segments[c])
  BY <1>1 DEF Modes, Given, Giving, IInv, JobInv
<1>3. \/ worker' = worker
      \/ /\ job.then \in {"send", "fill"}
         /\ \E open, plain : /\ worker' = [worker EXCEPT ![job.w] = Assigned(segments, c, open, plain)]
                             /\ plain = job.plain \/ plain = FALSE
  BY DEF Publish, Become
<1>4. DOMAIN worker = Workers
  BY DEF IInv, TypeOK
<1>5. ASSUME NEW v \in Workers, worker'[v] # worker[v]
      PROVE  /\ job.then \in {"send", "fill"} /\ v = job.w /\ worker'[v].pc = "connect"
             /\ worker'[v].seg = c /\ worker'[v].base = segments[c].start
             /\ worker'[v].from = segments[c].dl
             /\ worker'[v].plain = job.plain \/ worker'[v].plain = FALSE
             /\ segments[c].state = "Active"
  <2>1. job.then \in {"send", "fill"}
    BY <1>3, <1>5
  <2>2. PICK open, plain : /\ worker' = [worker EXCEPT ![job.w] = Assigned(segments, c, open, plain)]
                           /\ plain = job.plain \/ plain = FALSE
    BY <1>3, <1>5
  <2>3. v = job.w /\ worker'[v] = Assigned(segments, c, open, plain)
    BY <1>4, <1>5, <2>2
  <2>4. Kept(c)
    BY <1>1, <2>1 DEF IInv, JobInv
  <2> QED BY <2>1, <2>2, <2>3, <2>4, AssignedAt DEF Kept, In
<1>6. ASSUME NEW v \in Busy'
      PROVE  /\ worker'[v].seg \in In(segments, "Active")
             /\ worker'[v].base = segments[worker'[v].seg].start
             /\ Begun => Going(worker'[v])
  <2>0. v \in Workers /\ worker'[v].pc \in BusyPcs
    BY <1>6, BusyIsNext
  <2>1. CASE worker'[v] = worker[v]
    <3>1. v \in Busy
      BY <2>0, <2>1, BusyIs
    <3> QED BY <2>1, <3>1 DEF Modes, Anchored, Begun
  <2>2. CASE worker'[v] # worker[v]
    <3>1. Begun => ~worker'[v].plain /\ (worker'[v].base = 0 => worker'[v].from > 0)
      BY <1>2, <1>5, <2>0, <2>2 DEF Begun, Began
    <3> QED BY <1>2, <1>5, <2>0, <2>2, <3>1 DEF Going, In
  <2> QED BY <2>1, <2>2
<1>7. Anchored'
  BY <1>1, <1>6 DEF Modes, Anchored, In
<1>8. Given'
  BY <1>1 DEF Given, Giving
<1>9. Begun => Begun'
  <2>1. /\ DOMAIN segStates' = DOMAIN segments
        /\ \A i \in DOMAIN segments :
             segStates'[i].dl = IF i \in DOMAIN segStates THEN segStates[i].dl ELSE segments[i].dl
    BY <1>1 DEF rebuild_seg_states
  <2>2. ASSUME Begun
        PROVE  \A i \in DOMAIN segStates' \cap DOMAIN segments :
                 Open(segments[i]) /\ segments[i].start = 0 => segStates'[i].dl > 0
    BY <2>1, <2>2 DEF Begun, Began
  <2>3. Begun => ~job'.plain
    BY <1>1, NoJobPlain DEF Begun
  <2>4. Begun => \A v \in Busy' : Going(worker'[v])
    BY <1>6
  <2> QED BY <1>1, <2>2, <2>3, <2>4 DEF Begun
<1>10. Single /\ verdict # "yes" => Single'
  <2>1. ASSUME verdict # "yes" PROVE Alive' \subseteq Alive
    <3>1. ASSUME NEW v \in Alive' PROVE v \in Alive
      <4>1. CASE worker'[v] = worker[v]
        BY <3>1, <4>1 DEF Alive
      <4>2. CASE worker'[v] # worker[v]
        <5>1. job.then = "send" /\ v = job.w
          BY <1>1, <1>5, <2>1, <3>1, <4>2 DEF Alive, Modes, Given, Giving
        <5>2. Reported(job.w)
          BY <1>1, <5>1 DEF IInv, JobInv
        <5> QED BY <5>1, <5>2 DEF Reported, Alive
      <4> QED BY <4>1, <4>2
    <3> QED BY <3>1
  <2> QED BY <2>1 DEF Single
<1>11. Lone'
  BY <1>1, <1>9, <1>10 DEF Modes, Lone
<1> QED BY <1>7, <1>8, <1>11 DEF Modes

(* The stream that is still open takes over what lies behind it. *)
LEMMA MergeRowsModes ==
  ASSUME Modes, IInv, MergeRows PROVE Modes'
<1> DEFINE A == Absorbed(segments, openSeg)
           o == openSeg
<1>1. /\ co = "merge" /\ co' \in {"merged", "idle", "retire"}
      /\ rows' = rows \/ rows' = Merge(segments, rows, openSeg)
      /\ UNCHANGED <<segments, nextIndex, segStates, worker, serial, verdict>>
      /\ job' = job \/ job' = NoJob
  BY DEF MergeRows, planVars, modeVars, netVars, IInv, JobInv, NoJob
<1>2. /\ validate_coverage(segments, total) /\ total \in Nat \ {0} /\ Ranges(segments)
      /\ PlanType(segments, nextIndex) /\ A # {}
  BY <1>1, TypeParts, RowsRanges, FileAssumption DEF IInv, PlanCovers, TypePlan, JobInv
<1>3. PICK e : e = NewEnd(segments, o)
  OBVIOUS
<1>4. o \in DOMAIN segments /\ segments[o].start <= e
  <2>1. /\ o \in In(segments, "Active") /\ A \subseteq In(segments, "Pending")
        /\ \E a \in A : NewEnd(segments, o) = segments[a].end
        /\ \A a \in A : segments[o].end < segments[a].start
    BY <1>2, AbsorbedFacts
  <2>2. PICK a \in A : e = segments[a].end
    BY <1>3, <2>1
  <2>3. o \in DOMAIN segments /\ a \in DOMAIN segments /\ segments[o].end < segments[a].start
    BY <2>1 DEF In
  <2>4. /\ segments[o].start <= segments[o].end /\ segments[a].start <= segments[a].end
        /\ segments[o].start \in Int /\ segments[a].start \in Int
        /\ segments[o].end \in Int /\ segments[a].end \in Int
    BY <1>2, <2>3 DEF validate_coverage, Ranges
  <2> QED BY <2>2, <2>3, <2>4
<1>5. \A i \in DOMAIN rows' :
         /\ rows'[i].start <= rows'[i].end /\ i < nextIndex
         /\ i \in DOMAIN segments => rows'[i].start = segments[i].start
         /\ Begun => Began(rows'[i])
  <2>0. \A i \in DOMAIN rows :
           /\ rows[i].start <= rows[i].end /\ i < nextIndex
           /\ i \in DOMAIN segments => rows[i].start = segments[i].start
           /\ Begun => Began(rows[i])
    BY <1>1 DEF Modes, Anchored, Begun
  <2>1. CASE rows' = rows
    BY <2>0, <2>1
  <2>2. CASE rows' = Merge(segments, rows, openSeg)
    <3>1. /\ DOMAIN rows' = DOMAIN rows \ A
          /\ \A i \in DOMAIN rows' : rows'[i] = IF i = o THEN [rows[i] EXCEPT !.end = e] ELSE rows[i]
      BY <1>3, <2>2 DEF Merge
    <3>2. ASSUME NEW i \in DOMAIN rows'
          PROVE  /\ rows'[i].start <= rows'[i].end /\ i < nextIndex
                 /\ i \in DOMAIN segments => rows'[i].start = segments[i].start
                 /\ Begun => Began(rows'[i])
      <4>1. i \in DOMAIN rows /\ rows[i] \in RowRec
        BY <3>1 DEF IInv, TypeOK, RowRec
      <4>2. CASE i # o
        BY <2>0, <3>1, <4>1, <4>2
      <4>3. CASE i = o
        <5>1. rows'[i].start = rows[i].start /\ rows'[i].end = e /\ rows'[i].dl = rows[i].dl
          BY <3>1, <4>1, <4>3 DEF RowRec
        <5>2. /\ i < nextIndex /\ rows[i].start = segments[i].start
              /\ Begun => Began(rows[i])
          BY <1>4, <2>0, <4>1, <4>3
        <5> QED BY <1>4, <4>3, <5>1, <5>2 DEF Began
      <4> QED BY <4>2, <4>3
    <3> QED BY <3>2
  <2> QED BY <1>1, <2>1, <2>2
<1>6. Busy' = Busy /\ Alive' = Alive
  BY <1>1 DEF Busy, Alive
<1>7. Anchored'
  BY <1>1, <1>5, <1>6 DEF Modes, Anchored, In
<1>8. Given'
  BY <1>1 DEF Given, Giving
<1>9. Begun => Begun'
  BY <1>1, <1>5, <1>6, NoJobPlain DEF Begun
<1>10. Lone'
  BY <1>1, <1>6, <1>9 DEF Modes, Lone, Single
<1> QED BY <1>7, <1>8, <1>10 DEF Modes

LEMMA MergeSegmentsModes ==
  ASSUME Modes, IInv, MergeSegments PROVE Modes'
<1>1. PICK S : S = Merge(segments, segments, openSeg)
  OBVIOUS
<1>2. /\ co = "merged" /\ segments' = S /\ segStates' = rebuild_seg_states(S) /\ co' \in {"idle", "retire"}
      /\ UNCHANGED <<nextIndex, rows, worker, serial, verdict>>
      /\ job' = job \/ job' = NoJob
  BY <1>1 DEF MergeSegments, fileVars, modeVars, netVars, IInv, JobInv, NoJob
<1>3. /\ validate_coverage(segments, total) /\ total \in 1 .. FileSize /\ nextIndex \in Nat
      /\ PlanType(segments, nextIndex) /\ Absorbed(segments, openSeg) # {}
  BY <1>2, TypeParts DEF IInv, PlanCovers, TypePlan, JobInv
<1>4. /\ In(S, "Active") = In(segments, "Active") /\ DOMAIN S \subseteq DOMAIN segments
      /\ \A i \in DOMAIN S : /\ S[i].dl = segments[i].dl /\ S[i].state = segments[i].state
                             /\ S[i].start = segments[i].start
  <2>1. LET T == Merge(segments, segments, openSeg)
        IN  /\ In(T, "Active") = In(segments, "Active")
            /\ DOMAIN T = DOMAIN segments \ Absorbed(segments, openSeg)
            /\ \A i \in DOMAIN T : /\ T[i].dl = segments[i].dl /\ T[i].state = segments[i].state
                                   /\ T[i].start = segments[i].start
    BY <1>3, MergePlan
  <2> QED BY <1>1, <2>1
<1>5. Busy' = Busy /\ Alive' = Alive
  BY <1>2 DEF Busy, Alive
<1>6. Anchored'
  <2>1. ASSUME NEW w \in Busy
        PROVE  worker[w].seg \in In(S, "Active") /\ worker[w].base = S[worker[w].seg].start
    <3>1. worker[w].seg \in In(S, "Active") /\ worker[w].base = segments[worker[w].seg].start
      BY <1>4 DEF Modes, Anchored
    <3> QED BY <1>4, <3>1 DEF In
  <2>2. \A i \in DOMAIN rows :
           i < nextIndex /\ (i \in DOMAIN S => rows[i].start = S[i].start)
    BY <1>2, <1>4 DEF Modes, Anchored
  <2> QED BY <1>2, <1>5, <2>1, <2>2 DEF Modes, Anchored, In
<1>7. Given'
  BY <1>2 DEF Given, Giving
<1>8. ASSUME Begun PROVE Begun'
  <2>1. /\ DOMAIN segStates' = DOMAIN S
        /\ \A i \in DOMAIN S :
             segStates'[i].dl = IF i \in DOMAIN segStates THEN segStates[i].dl ELSE S[i].dl
    BY <1>2 DEF rebuild_seg_states
  <2>2. \A i \in DOMAIN S : Open(S[i]) => Open(segments[i]) /\ Began(S[i])
    BY <1>4, <1>8 DEF Open, Begun, Began
  <2>3. \A i \in DOMAIN segStates' \cap DOMAIN S :
           Open(S[i]) /\ S[i].start = 0 => segStates'[i].dl > 0
    BY <1>4, <1>8, <2>1, <2>2 DEF Begun, Began
  <2>4. ~job'.plain
    BY <1>2, <1>8, NoJobPlain DEF Begun
  <2>5. \A w \in Busy' : Going(worker'[w])
    BY <1>2, <1>5, <1>8 DEF Begun
  <2> QED BY <1>2, <1>8, <2>2, <2>3, <2>4, <2>5 DEF Begun
<1>9. Lone'
  BY <1>2, <1>5, <1>8 DEF Modes, Lone, Single
<1> QED BY <1>6, <1>7, <1>9 DEF Modes

-----------------------------------------------------------------------------
(* Sessions *)

(* Without a process there is no connection. *)
LEMMA BlankModes ==
  ASSUME Blank, \A i \in DOMAIN rows' : rows'[i].start <= rows'[i].end PROVE Modes'
<1>1. co' = "down" /\ serial' = FALSE /\ worker' = [w \in Workers |-> Off]
  BY DEF Blank
<1>2. \A w \in Workers : worker'[w].pc = "off"
  BY <1>1, OffFacts
<1>3. Busy' = {} /\ Alive' = {}
  BY <1>2 DEF Busy, Alive
<1>4. Anchored' /\ Given'
  BY <1>1, <1>3 DEF Anchored, Given, Giving
<1>5. Lone'
  BY <1>3 DEF Lone, Single
<1> QED BY <1>4, <1>5 DEF Modes

LEMMA EndModes ==
  ASSUME Modes, IInv, Finish \/ Crash PROVE Modes'
<1>1. CASE Crash
  BY <1>1, BlankModes DEF Crash, Modes, Anchored
<1>2. CASE Finish
  <2>1. PICK S : S = sync_downloaded_from_shared
    OBVIOUS
  <2>2. /\ Blank
        /\ \/ rows' = rows
           \/ rows' = [i \in DOMAIN rows |->
                         IF i \in DOMAIN S THEN [rows[i] EXCEPT !.dl = S[i].dl] ELSE rows[i]]
    BY <1>2, <2>1 DEF Finish
  <2>3. ASSUME NEW i \in DOMAIN rows'
        PROVE  rows'[i].start <= rows'[i].end
    <3>1. i \in DOMAIN rows /\ rows[i] \in RowRec /\ rows[i].start <= rows[i].end
      BY <2>2 DEF Modes, Anchored, IInv, TypeOK, RowRec
    <3>2. rows'[i].start = rows[i].start /\ rows'[i].end = rows[i].end
      BY <2>2, <3>1 DEF RowRec
    <3> QED BY <3>1, <3>2
  <2> QED BY <2>2, <2>3, BlankModes
<1> QED BY <1>1, <1>2

-----------------------------------------------------------------------------
(* A start *)

(* Whoever is hired at a start has one of the segments given away, and its  *)
(* holder is the only one for it: with one segment there is one worker.     *)
LEMMA StartedAlone ==
  ASSUME NEW given, IsFiniteSet(given), Cardinality(given) <= 1, NEW holder,
         \A w \in Workers : worker'[w] = Off \/ (worker'[w].seg \in given /\ holder[worker'[w].seg] = w)
  PROVE  Single'
<1>1. \A i, j \in given : i = j
  <2>1. Cardinality(given) \in Nat
    BY FS_CardinalityType
  <2>2. CASE Cardinality(given) = 0
    BY <2>2, FS_EmptySet
  <2>3. CASE Cardinality(given) = 1
    <3>1. \E x : given = {x}
      BY <2>3, FS_Singleton
    <3> QED BY <3>1
  <2> QED BY <2>1, <2>2, <2>3
<1>2. ASSUME NEW v \in Workers, worker'[v].pc # "off"
      PROVE  worker'[v].seg \in given /\ holder[worker'[v].seg] = v
  BY <1>2, OffFacts
<1>3. \A v, w \in Workers : worker'[v].pc # "off" /\ worker'[w].pc # "off" => v = w
  BY <1>1, <1>2
<1> QED BY <1>3 DEF Single, Alive

(* Nobody asks for byte 0: then whatever begins there has progress. *)
LEMMA StartBegun ==
  ASSUME NEW R, RowsType(R), \A i \in DOMAIN R : R[i].start <= R[i].end,
         ~\E i \in In(LiveSegments(R), "Pending") : AtZero(LiveSegments(R)[i]),
         NEW i \in DOMAIN R
  PROVE  Began(R[i])
<1>1. R[i].start \in Nat /\ R[i].dl \in Nat /\ R[i].end \in Int
  BY DEF RowsType, RowRec
<1>2. LiveSegments(R)[i] = LiveSegment(R[i]) /\ DOMAIN LiveSegments(R) = DOMAIN R
  BY DEF LiveSegments
<1>3. SUFFICES ASSUME R[i].start = 0, R[i].dl = 0 PROVE FALSE
  BY <1>1 DEF Began
<1>4. ~(R[i].dl >= size(R[i]))
  BY <1>1, <1>3 DEF size, Larger
<1>5. LiveSegment(R[i]).state = "Pending" /\ LiveSegment(R[i]).start = 0 /\ LiveSegment(R[i]).dl = 0
  BY <1>3, <1>4 DEF LiveSegment
<1>6. i \in In(LiveSegments(R), "Pending") /\ AtZero(LiveSegments(R)[i])
  BY <1>2, <1>5 DEF In, AtZero
<1> QED BY <1>6

LEMMA StartModes ==
  ASSUME Modes, IInv, Start PROVE Modes'
<1>0. TypeRows
  BY TypeParts DEF IInv
<1>1. /\ co = "down" /\ UNCHANGED <<job, serial>>
      /\ \E R, given : \E t \in 1 .. FileSize, n \in 1 .. WorkerCap, estimate \in BOOLEAN :
           \E m \in 1 .. n :
             /\ given \in FirstOf(In(LiveSegments(R), "Pending"), m)
             /\ RowsType(R) /\ validate_coverage(R, t)
             /\ Launch(R, t, n, given, CHOOSE h \in Injection(given, Workers) : TRUE, estimate)
             /\ (\E i \in In(LiveSegments(R), "Pending") : AtZero(LiveSegments(R)[i])) => m = 1
  BY <1>0, StartPlans
<1>2. PICK R, given : \E t \in 1 .. FileSize, n \in 1 .. WorkerCap, estimate \in BOOLEAN :
        \E m \in 1 .. n :
          /\ given \in FirstOf(In(LiveSegments(R), "Pending"), m)
          /\ RowsType(R) /\ validate_coverage(R, t)
          /\ Launch(R, t, n, given, CHOOSE h \in Injection(given, Workers) : TRUE, estimate)
          /\ (\E i \in In(LiveSegments(R), "Pending") : AtZero(LiveSegments(R)[i])) => m = 1
  BY <1>1
<1>3. PICK t \in 1 .. FileSize, n \in 1 .. WorkerCap, estimate \in BOOLEAN : \E m \in 1 .. n :
        /\ given \in FirstOf(In(LiveSegments(R), "Pending"), m)
        /\ RowsType(R) /\ validate_coverage(R, t)
        /\ Launch(R, t, n, given, CHOOSE h \in Injection(given, Workers) : TRUE, estimate)
        /\ (\E i \in In(LiveSegments(R), "Pending") : AtZero(LiveSegments(R)[i])) => m = 1
  BY <1>2
<1>4. PICK m \in 1 .. n :
        /\ given \in FirstOf(In(LiveSegments(R), "Pending"), m)
        /\ RowsType(R) /\ validate_coverage(R, t)
        /\ Launch(R, t, n, given, CHOOSE h \in Injection(given, Workers) : TRUE, estimate)
        /\ (\E i \in In(LiveSegments(R), "Pending") : AtZero(LiveSegments(R)[i])) => m = 1
  BY <1>3
<1>5. PICK S : S = LiveSegments(R)
  OBVIOUS
<1>6. PICK k \in Nat : k = Max(DOMAIN S) + 1
  BY <1>4, <1>5, LivePlan
<1>7. /\ PlanType(S, k) /\ IsFiniteSet(DOMAIN S) /\ validate_coverage(S, t)
      /\ DOMAIN S = DOMAIN R /\ given \subseteq In(S, "Pending") /\ given \subseteq DOMAIN S
  BY <1>4, <1>5, <1>6, LivePlan DEF FirstOf, In
<1>8. PICK holder : holder = CHOOSE h \in Injection(given, Workers) : TRUE
  OBVIOUS
<1>9. IsFiniteSet(In(S, "Pending")) /\ IsFiniteSet(given)
  <2>1. IsFiniteSet(In(S, "Pending"))
    BY <1>7, FS_Subset DEF In
  <2> QED BY <2>1, <1>7, FS_Subset
<1>10. holder \in Injection(given, Workers)
  <2>1. m \in Nat /\ m <= WorkerCap
    BY CountAssumption
  <2>2. Injection(given, Workers) # {}
    BY <2>1, <1>9, <1>4, <1>5, HolderExists
  <2> QED BY <2>2, <1>8
<1>11. /\ rows' = R /\ nextIndex' = k /\ co' \in {"drain", "idle"}
       /\ segments' = [i \in DOMAIN S |-> IF i \in given THEN [S[i] EXCEPT !.state = "Active"] ELSE S[i]]
       /\ segStates' = [i \in DOMAIN S |-> [end |-> S[i].end, dl |-> S[i].dl]]
       /\ worker' = [w \in Workers |->
             IF \E i \in given : holder[i] = w
             THEN LET i == CHOOSE j \in given : holder[j] = w
                  IN  Assigned(S, i, AtZero(S[i]), estimate /\ AtZero(S[i]))
             ELSE Off]
  BY <1>4, <1>5, <1>6, <1>8 DEF Launch
<1>12. \A w \in Workers :
          \/ worker'[w] = Off
          \/ worker'[w].pc = "connect" /\ worker'[w].seg \in given /\ holder[worker'[w].seg] = w
  BY <1>7, <1>10, <1>11, StartedWorkers, SMTT(30)
<1>13. ASSUME NEW i \in DOMAIN R
       PROVE  /\ S[i].start = R[i].start /\ S[i].dl = R[i].dl /\ i < k
              /\ segments'[i].start = R[i].start /\ segments'[i].dl = R[i].dl
              /\ i \in given => segments'[i].state = "Active"
  <2>1. S[i] \in Segment /\ i < k
    BY <1>7 DEF PlanType
  <2>2. S[i].start = R[i].start /\ S[i].dl = R[i].dl
    BY <1>5 DEF LiveSegments, LiveSegment
  <2>3. segments'[i] = IF i \in given THEN [S[i] EXCEPT !.state = "Active"] ELSE S[i]
    BY <1>7, <1>11
  <2> QED BY <2>1, <2>2, <2>3 DEF Segment
<1>14. DOMAIN segments' = DOMAIN R /\ DOMAIN segStates' = DOMAIN R /\ DOMAIN rows' = DOMAIN R
  BY <1>7, <1>11
<1>15. ASSUME NEW v \in Busy'
       PROVE  \E i \in given : /\ i \in DOMAIN R
                               /\ worker'[v] = Assigned(S, i, AtZero(S[i]), estimate /\ AtZero(S[i]))
  <2>1. v \in Workers /\ worker'[v].pc \in BusyPcs
    BY <1>15, BusyIsNext
  <2>2. \E j \in given : holder[j] = v
    <3>1. ~(\E j \in given : holder[j] = v) => worker'[v] = Off
      BY <1>11, <2>1
    <3> QED BY <2>1, <3>1, OffFacts DEF BusyPcs
  <2>3. PICK i : i = CHOOSE j \in given : holder[j] = v
    OBVIOUS
  <2>4. i \in given
    BY <2>2, <2>3
  <2>5. worker'[v] = Assigned(S, i, AtZero(S[i]), estimate /\ AtZero(S[i]))
    BY <1>11, <2>1, <2>2, <2>3
  <2> QED BY <1>7, <2>4, <2>5
<1>16. \A i \in DOMAIN R : R[i].start <= R[i].end
  BY <1>4 DEF validate_coverage
<1>17. Anchored'
  <2>1. ASSUME NEW v \in Busy'
        PROVE  /\ worker'[v].seg \in In(segments', "Active")
               /\ worker'[v].base = segments'[worker'[v].seg].start
    <3>1. PICK i \in given : /\ i \in DOMAIN R
                             /\ worker'[v] = Assigned(S, i, AtZero(S[i]), estimate /\ AtZero(S[i]))
      BY <1>15
    <3>2. worker'[v].seg = i /\ worker'[v].base = S[i].start
      BY <3>1, AssignedAt
    <3> QED BY <1>13, <1>14, <3>1, <3>2 DEF In
  <2>2. \A i \in DOMAIN rows' : /\ rows'[i].start <= rows'[i].end
                                /\ i < nextIndex' /\ rows'[i].start = segments'[i].start
    BY <1>11, <1>13, <1>14, <1>16
  <2> QED BY <2>1, <2>2 DEF Anchored
<1>18. Given'
  BY <1>11 DEF Given, Giving
<1>19. CASE \E i \in In(S, "Pending") : AtZero(S[i])
  <2>1. m = 1
    BY <1>4, <1>5, <1>19
  <2>2. Cardinality(given) = Smaller(1, Cardinality(In(S, "Pending")))
    BY <1>4, <1>5, <2>1 DEF FirstOf
  <2>3. Cardinality(given) <= 1
    BY <1>9, <2>2, FS_CardinalityType DEF Smaller
  <2>4. Single'
    BY <1>9, <1>12, <2>3, StartedAlone
  <2> QED BY <1>17, <1>18, <2>4 DEF Modes, Lone
<1>20. CASE ~\E i \in In(S, "Pending") : AtZero(S[i])
  <2>1. \A i \in DOMAIN R : Began(R[i])
    BY <1>4, <1>5, <1>16, <1>20, StartBegun
  <2>2. \A v \in Busy' : Going(worker'[v])
    <3>1. ASSUME NEW v \in Busy' PROVE Going(worker'[v])
      <4>1. PICK i \in given : /\ i \in DOMAIN R
                               /\ worker'[v] = Assigned(S, i, AtZero(S[i]), estimate /\ AtZero(S[i]))
        BY <1>15
      <4>2. ~AtZero(S[i])
        BY <1>7, <1>20
      <4>3. /\ worker'[v].pc = "connect" /\ worker'[v].base = S[i].start
            /\ worker'[v].from = S[i].dl /\ worker'[v].plain = (estimate /\ AtZero(S[i]))
        BY <4>1, AssignedAt
      <4>4. S[i].start = 0 => S[i].dl > 0
        BY <1>13, <2>1, <4>1 DEF Began
      <4> QED BY <4>2, <4>3, <4>4 DEF Going
    <3> QED BY <3>1
  <2>3. \A i \in DOMAIN R : segStates'[i].dl = R[i].dl
    BY <1>7, <1>11, <1>13
  <2>4. ~job'.plain
    BY <1>1, NoJobPlain DEF IInv, JobInv, Handling, Shared
  <2>5. /\ \A i \in DOMAIN segments' : Began(segments'[i])
        /\ \A i \in DOMAIN segments' : segments'[i].start = 0 => segStates'[i].dl > 0
        /\ \A i \in DOMAIN rows' : Began(rows'[i])
    <3>1. ASSUME NEW i \in DOMAIN R
          PROVE  /\ Began(segments'[i]) /\ Began(rows'[i])
                 /\ segments'[i].start = 0 => segStates'[i].dl > 0
      BY <1>11, <1>13, <2>1, <2>3 DEF Began
    <3> QED BY <1>14, <3>1
  <2>6. Begun'
    BY <1>14, <2>2, <2>4, <2>5 DEF Begun
  <2> QED BY <1>17, <1>18, <2>6 DEF Modes, Lone
<1> QED BY <1>19, <1>20

LEMMA InitModes ==
  ASSUME Init PROVE Modes
<1>1. /\ co = "down" /\ serial = FALSE /\ rows = <<>> /\ worker = [w \in Workers |-> Off]
  BY DEF Init
<1>2. \A w \in Workers : worker[w].pc = "off"
  BY <1>1, OffFacts
<1>3. Busy = {} /\ Alive = {} /\ DOMAIN rows = {}
  BY <1>1, <1>2 DEF Busy, Alive
<1>4. Anchored /\ Given
  BY <1>1, <1>3 DEF Anchored, Given, Giving
<1> QED BY <1>3, <1>4 DEF Modes, Lone, Single

LEMMA StepModes ==
  ASSUME Modes, IInv, [Next]_vars PROVE Modes'
<1>1. CASE Start BY <1>1, StartModes
<1>2. CASE Coordinator
  BY <1>2, HandleDoneModes, AssignModes, PersistModes, PublishModes, HandleLargerModes, EventsModes,
     RedispatchModes, MergeRowsModes, MergeSegmentsModes, LoopModes, FillModes, EndModes DEF Coordinator
<1>3. CASE ProactiveTick BY <1>3, ProactiveTickModes
<1>4. CASE RampTick BY <1>4, LoopModes
<1>5. CASE Crash BY <1>5, EndModes
<1>6. CASE \/ UserCancel \/ UNCHANGED vars
           \/ \E w \in Workers : Worker(w) \/ Trouble(w) \/ PeriodicFlush(w) \/ FlushTick(w)
  BY <1>6, WorkersModes
<1> QED BY <1>1, <1>2, <1>3, <1>4, <1>5, <1>6 DEF Next

-----------------------------------------------------------------------------
(* How many are at work *)

(* Nobody begins to work, or at most one worker is left. *)
Fewer == Busy' \subseteq Busy \/ \E x : Busy' \subseteq {x}

LEMMA FewerIsLess ==
  ASSUME Fewer
  PROVE  Cardinality(Busy') <= Larger(Cardinality(Busy), 1)
<1>1. Busy \subseteq Workers /\ Busy' \subseteq Workers
  BY DEF Busy
<1>2. IsFiniteSet(Busy) /\ IsFiniteSet(Busy')
  BY <1>1, WorkerAssumption, FS_Subset
<1>3. Cardinality(Busy) \in Nat /\ Cardinality(Busy') \in Nat
  BY <1>2, FS_CardinalityType
<1>4. CASE Busy' \subseteq Busy
  <2>1. Cardinality(Busy') <= Cardinality(Busy)
    BY <1>2, <1>4, FS_Subset
  <2> QED BY <1>3, <2>1 DEF Larger
<1>5. CASE \E x : Busy' \subseteq {x}
  <2>1. PICK x : Busy' \subseteq {x}
    BY <1>5
  <2>2. IsFiniteSet({x}) /\ Cardinality({x}) = 1
    BY FS_Singleton
  <2>3. Cardinality(Busy') <= 1
    BY <2>1, <2>2, FS_Subset
  <2> QED BY <1>3, <2>3 DEF Larger
<1> QED BY <1>4, <1>5 DEF Fewer

(* Workers that are only retired. *)
LEMMA RetiredFewer ==
  ASSUME \A w \in Workers : worker'[w] = worker[w] \/ worker'[w].pc \notin BusyPcs
  PROVE  Fewer
BY BusyIs, BusyIsNext DEF Fewer

LEMMA CoordinatorFewer ==
  ASSUME Modes, IInv, serial, Coordinator \/ ProactiveTick \/ RampTick
  PROVE  Fewer
<1>0. DOMAIN worker = Workers /\ Off.pc \notin BusyPcs
  BY OffFacts DEF IInv, TypeOK, BusyPcs
<1>1. CASE UNCHANGED worker
  BY <1>1, RetiredFewer
<1>2. CASE worker' = [worker EXCEPT ![job.w] = Off]
  <2>1. \A w \in Workers : worker'[w] = IF w = job.w THEN Off ELSE worker[w]
    BY <1>0, <1>2
  <2> QED BY <1>0, <2>1, RetiredFewer
<1>3. CASE Publish
  <2>1. CASE job.then = "fill"
    BY <1>3, <2>1 DEF Publish, Modes, Given, Giving
  <2>2. CASE job.then = "send"
    <3>1. Busy = {}
      BY <1>3, <2>2 DEF Publish, Modes, Given, Giving
    <3>2. PICK r : worker' = [worker EXCEPT ![job.w] = r]
      BY <1>3, <2>2 DEF Publish, Become
    <3>3. \A w \in Workers : w # job.w => worker'[w] = worker[w]
      BY <1>0, <3>2
    <3>4. Busy' \subseteq {job.w}
      BY <3>1, <3>3, BusyIs, BusyIsNext
    <3> QED BY <3>4 DEF Fewer
  <2>3. CASE job.then \notin {"fill", "send"}
    BY <1>1, <1>3, <2>3 DEF Publish
  <2> QED BY <2>1, <2>2, <2>3
<1>4. CASE Finish
  <2>1. worker' = [w \in Workers |-> Off]
    BY <1>4 DEF Finish, Blank
  <2> QED BY <1>0, <2>1, RetiredFewer
<1>5. CASE RampTick
  <2>1. worker' = [w \in Workers |-> IF worker[w].pc = "dead" THEN Off ELSE worker[w]]
    BY <1>5 DEF RampTick
  <2> QED BY <1>0, <2>1, RetiredFewer
<1>6. CASE HandleDone \/ Persist \/ HandleLarger \/ HandleNode \/ HandleRejection \/ MergeRows
           \/ MergeSegments \/ HandleFatal \/ HandleVerdict \/ HandleCancel \/ Fill \/ ProactiveTick
  BY <1>1, <1>6 DEF HandleDone, Persist, HandleLarger, HandleNode, HandleRejection, MergeRows,
     MergeSegments, HandleFatal, HandleVerdict, HandleCancel, Fill, ProactiveTick, Dispatch
<1>7. CASE Assign \/ Redispatch \/ RetireRejected
  BY <1>1, <1>2, <1>7 DEF Assign, Redispatch, RetireRejected, Retire, Dispatch
<1> QED BY <1>3, <1>4, <1>5, <1>6, <1>7 DEF Coordinator

LEMMA StepFewer ==
  ASSUME Modes, IInv, [Next]_vars, serial, serial'
  PROVE  Fewer
<1>0. TypeOK /\ Shared
  BY DEF IInv
<1>1. CASE Start
  BY <1>1 DEF Start, Modes, Given
<1>2. CASE Coordinator \/ ProactiveTick \/ RampTick
  BY <1>2, CoordinatorFewer
<1>3. CASE Crash
  <2>1. worker' = [w \in Workers |-> Off]
    BY <1>3 DEF Crash, Blank
  <2> QED BY <2>1, OffFacts, RetiredFewer DEF BusyPcs
<1>4. CASE UserCancel \/ UNCHANGED vars \/ \E w \in Workers : FlushTick(w)
  <2>1. UNCHANGED worker
    BY <1>4 DEF UserCancel, vars, FlushTick
  <2> QED BY <2>1, RetiredFewer
<1>5. ASSUME NEW w \in Workers, Worker(w) \/ Trouble(w) \/ PeriodicFlush(w)
      PROVE  Fewer
  <2>1. WorkerStep(w) \/ Gone(w)
    BY <1>0, <1>5, WorkerIsStep, TroubleIsStep, PeriodicFlushStep
  <2>2. CASE WorkerStep(w)
    BY <1>0, <2>2, MoveSeats DEF Fewer
  <2>3. CASE Gone(w)
    <3>1. DOMAIN worker = Workers /\ worker' = [worker EXCEPT ![w] = Off]
      BY <1>0, <2>3 DEF TypeOK, Gone
    <3>2. \A v \in Workers : worker'[v] = IF v = w THEN Off ELSE worker[v]
      BY <3>1
    <3> QED BY <3>2, OffFacts, RetiredFewer DEF BusyPcs
  <2> QED BY <2>1, <2>2, <2>3
<1> QED BY <1>1, <1>2, <1>3, <1>4, <1>5 DEF Next

(* Fall-back to serial mode: whatever reports, retries, ticks of the ramp   *)
(* and dead workers follow, and wherever the handler was when the fall-back *)
(* came, no connection is opened next to another one.                       *)
THEOREM SerialNeverGrows == Spec => SerialShrinks
<1>1. Init => Modes
  BY InitModes
<1>2. Modes /\ IInv /\ [Next]_vars => Modes'
  BY StepModes
<1>3. Modes /\ IInv /\ [Next]_vars
        => [serial /\ serial' => Cardinality(Busy') <= Larger(Cardinality(Busy), 1)]_vars
  BY StepFewer, FewerIsLess
<1> QED BY Inductive, <1>1, <1>2, <1>3, PTL DEF Spec, SerialShrinks

(* Size that is only a hint: the plain GET of a download whose server has   *)
(* not shown that it supports Range stays the only connection, through      *)
(* retries, redispatches, resumes and the merge of what lies behind it.     *)
THEOREM PlainStaysAlone == Spec => []PlainAlone
<1>1. Init => Modes
  BY InitModes
<1>2. Modes /\ IInv /\ [Next]_vars => Modes'
  BY StepModes
<1>3. Modes => PlainAlone
  <2> SUFFICES ASSUME Modes, verdict # "yes", NEW w \in Busy, worker[w].plain
               PROVE  Cardinality(Busy) = 1
    BY DEF PlainAlone
  <2>1. Single
    BY DEF Modes, Lone, Begun, Going
  <2>2. Busy = {w}
    BY <2>1 DEF Single, Busy, Alive
  <2> QED BY <2>2, FS_Singleton
<1> QED BY Inductive, <1>1, <1>2, <1>3, PTL DEF Spec

-----------------------------------------------------------------------------
(* Nobody leaves before the work is done *)

(* The first segment begins at the first byte and has a row. *)
FirstIn ==
    /\ co # "down" => 0 \in DOMAIN segments /\ segments[0].start = 0 /\ 0 \in DOMAIN rows
    /\ DOMAIN rows # {} => 0 \in DOMAIN rows /\ rows[0].start = 0

(* No byte of the first segment has been counted, or worker r is past it    *)
(* (n is what the row says).                                                *)
Fresh == segments[0].dl = 0 /\ (0 \in DOMAIN segStates => segStates[0].dl = 0)
Past(r, n) ==
    \/ r.pc \in {"read", "write", "finish", "save"} /\ r.off > 0
    \/ r.pc = "connect" /\ r.from > 0 /\ n > 0
    \/ r.pc = "retry" /\ n > 0

(* Without proof of Range an open stream is one of the first segment, and   *)
(* what is given away again is that segment from its first byte: a plain    *)
(* GET can fetch it.                                                        *)
FirstOnly(r) == r.open => r.seg = 0 /\ r.base = 0 /\ (Fresh \/ Past(r, rows[0].dl))
ReportsFresh(e) == e.kind # "node" /\ (e.kind = "larger" => e.seg = 0 /\ Fresh)
Redispatching == co = "redispatch" \/ (Giving /\ job.then = "redispatch")
Bare ==
    /\ \A w \in Busy : FirstOnly(worker[w])
    /\ \A k : IsReport(k) => ReportsFresh(events[k])
    /\ Redispatching => job.seg = 0 /\ Fresh
    /\ Giving /\ job.plain => job.child = 0 /\ Fresh

(* Whoever holds an active segment is there, or it is being given away. *)
Answered(i) ==
    \/ Redispatching /\ i = job.seg
    \/ Giving /\ job.then \in {"send", "fill"} /\ i = job.child
Owned == \A i \in In(segments, "Active") : HeldByOther(i) \/ Answered(i)
Staffed ==
    /\ Alive # {} \/ all_done(segments)
    /\ ~cancelled => \A w \in Workers : worker[w].pc # "dead"
Manned == Looped => Owned /\ Staffed /\ (verdict = "yes" \/ Bare)

(* The loop is left without an error only when everything is complete. *)
Closed == co = "drain" /\ err = "none" => all_done(segments)
Ended == result = "ok" => co = "down" /\ 0 .. total - 1 \subseteq written

Whole == FirstIn /\ Manned /\ Closed /\ Ended

-----------------------------------------------------------------------------
(* The steps of a worker *)

(* What a worker at work holds nobody else has, reports or is being given. *)
LEMMA HeldAlone ==
  ASSUME Truth, IInv, Looped, NEW w \in Busy
  PROVE  /\ \A v \in Busy : v # w => worker[v].seg # worker[w].seg
         /\ \A k : IsReport(k) => events[k].seg # worker[w].seg
         /\ Redispatching => job.seg # worker[w].seg
         /\ Giving => job.child # worker[w].seg
<1>1. Busy \subseteq Alive \ {job.w}
  BY BusyElsewhere
<1>2. \A u, v \in Alive \ {job.w} : u # v => worker[u].seg # worker[v].seg
  BY DEF IInv, Holding
<1>3. ASSUME NEW k, IsReport(k) PROVE events[k].seg # worker[w].seg
  <2>1. Reported(events[k].w) /\ worker[events[k].w].seg = events[k].seg /\ events[k].w # job.w
    BY <1>3 DEF IInv, Reports, Standing
  <2>2. events[k].w \in Alive \ {job.w} /\ events[k].w # w
    BY <2>1, BusyIs DEF Reported, Alive, BusyPcs
  <2> QED BY <1>1, <1>2, <2>1, <2>2
<1>4. ASSUME Redispatching PROVE job.seg # worker[w].seg
  <2>1. Kept(job.seg)
    BY <1>4 DEF Redispatching, Giving, IInv, JobInv
  <2> QED BY <1>1, <2>1 DEF Kept, HeldByOther
<1>5. ASSUME Giving PROVE job.child # worker[w].seg
  BY <1>5, ChildFree DEF Giving
<1> QED BY <1>1, <1>2, <1>3, <1>4, <1>5

(* The move of a worker. *)
LEMMA MoveBare ==
  ASSUME Truth, IInv, FirstIn, Looped, Bare, NEW w \in Busy, NEW r, Become(w, r), r.seg = worker[w].seg,
         r.pc \in BusyPcs /\ r.open => /\ worker[w].open /\ r.base = worker[w].base
                                       /\ Fresh' \/ Past(r, rows'[0].dl),
         UNCHANGED <<segments, co, job>>,
         UNCHANGED segStates \/ \E n \in Nat : update_seg_state(w, n),
         UNCHANGED rows \/ update_segment_progress_bounded(w),
         \A k : IsReport(k)' => (IsReport(k) /\ events'[k] = events[k]) \/ ReportsFresh(events[k])'
  PROVE  Bare'
<1> DEFINE i == worker[w].seg
<1>0. /\ w \in Workers /\ DOMAIN worker = Workers /\ 0 \in DOMAIN segments /\ 0 \in DOMAIN rows
      /\ FirstOnly(worker[w])
  BY BusyIs DEF IInv, TypeOK, FirstIn, Looped, Bare
<1>1. worker'[w] = r /\ r.seg = i /\ \A v \in Workers : v # w => worker'[v] = worker[v]
  BY <1>0 DEF Become
<1>2. i # 0 => (Fresh => Fresh') /\ rows'[0] = rows[0]
  <2>1. ASSUME i # 0 PROVE rows'[0] = rows[0]
    BY <1>0, <2>1 DEF update_segment_progress_bounded
  <2>2. ASSUME i # 0, Fresh, 0 \in DOMAIN segStates' PROVE segStates'[0].dl = 0
    <3>1. CASE UNCHANGED segStates
      BY <2>2, <3>1 DEF Fresh
    <3>2. ASSUME NEW n \in Nat, update_seg_state(w, n) PROVE segStates'[0].dl = 0
      BY <2>2, <3>2 DEF update_seg_state, Fresh
    <3> QED BY <3>1, <3>2
  <2> QED BY <2>1, <2>2 DEF Fresh
<1>3. ASSUME NEW v \in Busy' PROVE FirstOnly(worker[v])'
  <2>1. v \in Workers /\ worker'[v].pc \in BusyPcs
    BY <1>3, BusyIsNext
  <2>2. CASE v = w
    BY <1>0, <1>1, <2>1, <2>2 DEF FirstOnly
  <2>3. CASE v # w
    <3>1. worker'[v] = worker[v] /\ v \in Busy
      BY <1>1, <2>1, <2>3, BusyIs
    <3>2. FirstOnly(worker[v]) /\ worker[v].seg # i
      BY <2>3, <3>1, HeldAlone DEF Bare
    <3> QED BY <1>2, <3>1, <3>2 DEF FirstOnly
  <2> QED BY <2>2, <2>3
<1>4. ASSUME NEW k, IsReport(k)' PROVE ReportsFresh(events[k])'
  <2>1. CASE IsReport(k) /\ events'[k] = events[k]
    <3>1. ReportsFresh(events[k]) /\ events[k].seg # i
      BY <2>1, HeldAlone DEF Bare
    <3> QED BY <1>2, <2>1, <3>1 DEF ReportsFresh
  <2> QED BY <1>4, <2>1
<1>5. ASSUME Redispatching' PROVE job'.seg = 0 /\ Fresh'
  <2>1. Redispatching /\ job' = job
    BY <1>5 DEF Redispatching, Giving
  <2> QED BY <1>2, <2>1, HeldAlone DEF Bare
<1>6. ASSUME Giving', job'.plain PROVE job'.child = 0 /\ Fresh'
  <2>1. Giving /\ job' = job
    BY <1>6 DEF Giving
  <2> QED BY <1>2, <1>6, <2>1, HeldAlone DEF Bare
<1> QED BY <1>3, <1>4, <1>5, <1>6 DEF Bare

(* What an action of a worker leaves alone, and what it may store. *)
Aside(w) ==
    /\ UNCHANGED <<segments, co, job>>
    /\ UNCHANGED segStates \/ \E n \in Nat : update_seg_state(w, n)
    /\ UNCHANGED rows \/ update_segment_progress_bounded(w)

(* It reports, ... *)
LEMMA ReportBare ==
  ASSUME Truth, IInv, FirstIn, Looped, Bare, NEW w \in Busy, Aside(w), NEW q, Ahead(w, q), NEW kind, NEW n,
         kind # "node", ReportAfter(q, w, kind, n),
         kind = "larger" => /\ worker[w].pc = "connect" /\ worker[w].open /\ worker[w].from = 0
                            /\ UNCHANGED segStates
  PROVE  Bare'
<1>0. TypeEvents /\ TypeWorker /\ w \in Workers
  BY TypeParts, BusyIs DEF IInv
<1>1. PICK r : r = [Off EXCEPT !.pc = "reported", !.seg = worker[w].seg]
  OBVIOUS
<1>2. r.pc = "reported" /\ r.seg = worker[w].seg
  BY <1>0, <1>1, WorkerType, OffFacts DEF IInv
<1>3. PICK e : e = Event(kind, w, n)
  OBVIOUS
<1>4. Become(w, r) /\ events' = Append(q, e) /\ e.kind = kind /\ e.seg = worker[w].seg
  BY <1>1, <1>3 DEF ReportAfter, Event
<1>5. kind = "larger" => e.seg = 0 /\ Fresh'
  BY <1>4 DEF Bare, FirstOnly, Past, Fresh, Aside
<1>6. ReportsFresh(e)'
  BY <1>4, <1>5 DEF ReportsFresh
<1>7. \A k : IsReport(k)' => (IsReport(k) /\ events'[k] = events[k]) \/ events'[k] = e
  BY <1>0, <1>4, SentBehind
<1>8. \A k : IsReport(k)' => (IsReport(k) /\ events'[k] = events[k]) \/ ReportsFresh(events[k])'
  BY <1>6, <1>7 DEF ReportsFresh
<1> QED BY <1>2, <1>4, <1>8, MoveBare DEF Aside, BusyPcs

(* ... tries again, ... *)
LEMMA RetryBare ==
  ASSUME Truth, IInv, FirstIn, Looped, Bare, NEW w \in Busy, UNCHANGED <<segments, co, job>>,
         \/ worker[w].pc = "connect" /\ UNCHANGED <<segStates, rows>>
         \/ /\ worker[w].pc \in {"read", "finish"}
            /\ update_seg_state(w, worker[w].off) /\ update_segment_progress_bounded(w),
         NEW q, Ahead(w, q), NEW kind, kind \notin {"node", "larger"}, RetryOrReport(q, w, kind)
  PROVE  Bare'
<1>0. /\ TypeEvents /\ TypeWorker /\ w \in Workers /\ worker[w] \in WorkerRec /\ worker[w].off \in Nat
      /\ FirstOnly(worker[w]) /\ 0 \in DOMAIN rows /\ rows[0].start = 0
      /\ rows[0] \in RowRec /\ rows[0].start <= rows[0].end
  <2>1. /\ TypeEvents /\ TypeWorker /\ w \in Workers /\ worker[w] \in WorkerRec
    BY TypeParts, BusyIs, WorkerType DEF IInv
  <2>2. FirstOnly(worker[w]) /\ 0 \in DOMAIN rows /\ rows[0].start = 0
    BY DEF Bare, FirstIn, Looped
  <2>3. rows[0] \in RowRec /\ rows[0].start <= rows[0].end
    BY <2>2 DEF IInv, TypeOK, RowRec, Truth, RowsHold, RowTrue
  <2> QED BY <2>1, <2>2, <2>3 DEF WorkerRec
<1>1. Aside(w)
  BY <1>0 DEF Aside
<1>2. CASE ReportAfter(q, w, kind, 0)
  BY <1>1, <1>2, ReportBare
<1>3. CASE /\ Become(w, [worker[w] EXCEPT !.pc = "retry", !.tries = @ + 1, !.off = 0,
                                         !.kept = 0, !.left = 0, !.last = 0, !.whole = FALSE])
           /\ events' = q
  <2>1. PICK r : r = [worker[w] EXCEPT !.pc = "retry", !.tries = @ + 1, !.off = 0,
                                       !.kept = 0, !.left = 0, !.last = 0, !.whole = FALSE]
    OBVIOUS
  <2>2. /\ r.pc = "retry" /\ r.seg = worker[w].seg /\ r.base = worker[w].base /\ r.open = worker[w].open
    BY <1>0, <2>1 DEF WorkerRec
  <2>3. ASSUME worker[w].open PROVE Fresh' \/ rows'[0].dl > 0
    <3>1. worker[w].seg = 0 /\ worker[w].base = 0 /\ (Fresh \/ Past(worker[w], rows[0].dl))
      BY <1>0, <2>3 DEF FirstOnly
    <3>2. CASE worker[w].pc = "connect" /\ UNCHANGED <<segStates, rows>>
      BY <3>1, <3>2 DEF Fresh, Past
    <3>3. CASE /\ worker[w].pc \in {"read", "finish"}
               /\ update_seg_state(w, worker[w].off) /\ update_segment_progress_bounded(w)
      <4>1. CASE worker[w].off = 0
        <5>1. Fresh
          BY <3>1, <3>3, <4>1 DEF Past
        <5>2. 0 \in DOMAIN segStates' => segStates'[0].dl = 0
          <6>1. 0 \in DOMAIN segStates => segStates[0] \in [end : 0 .. FileSize - 1, dl : Nat]
            BY DEF IInv, TypeOK
          <6> QED BY <3>1, <3>3, <4>1, <6>1 DEF update_seg_state
        <5> QED BY <5>1, <5>2 DEF Fresh
      <4>2. CASE worker[w].off > 0
        <5>1. rows' = [rows EXCEPT ![0].dl = Smaller(worker[w].off, size(rows[0]))]
          BY <1>0, <3>1, <3>3 DEF update_segment_progress_bounded
        <5>2. Smaller(worker[w].off, size(rows[0])) > 0
          BY <1>0, <4>2, FileAssumption DEF RowRec, size, Larger, Smaller
        <5>3. rows'[0].dl = Smaller(worker[w].off, size(rows[0]))
          BY <1>0, <5>1 DEF RowRec
        <5> QED BY <5>2, <5>3
      <4> QED BY <1>0, <4>1, <4>2
    <3> QED BY <3>2, <3>3
  <2>4. r.pc \in BusyPcs /\ r.open => worker[w].open /\ r.base = worker[w].base /\ (Fresh' \/ Past(r, rows'[0].dl))
    BY <2>2, <2>3 DEF Past
  <2>5. \A k : IsReport(k)' => IsReport(k) /\ events'[k] = events[k]
    BY <1>0, <1>3, SentAhead
  <2>6. Become(w, r)
    BY <1>3, <2>1
  <2> QED BY <1>1, <2>2, <2>4, <2>5, <2>6, MoveBare DEF Aside
<1> QED BY <1>2, <1>3 DEF RetryOrReport

(* ... or goes on in its stream. *)
LEMMA StreamBare ==
  ASSUME Truth, IInv, FirstIn, Looped, Bare, NEW w \in Busy, UNCHANGED <<segments, co, job, rows, events>>,
         worker[w].pc \in {"read", "write", "finish"},
         NEW r, Become(w, r), r.seg = worker[w].seg, r.base = worker[w].base, r.open = worker[w].open,
         r.pc \in {"read", "write", "finish", "save"}, r.off \in Nat,
         \/ r.off = worker[w].off /\ UNCHANGED segStates
         \/ r.off > 0 /\ update_seg_state(w, r.off)
  PROVE  Bare'
<1>1. FirstOnly(worker[w])
  BY DEF Bare
<1>2. r.open => Fresh' \/ Past(r, rows'[0].dl)
  BY <1>1 DEF FirstOnly, Past, Fresh
<1>3. \A k : IsReport(k)' => IsReport(k) /\ events'[k] = events[k]
  BY DEF IsReport
<1> QED BY <1>2, <1>3, MoveBare

(* A step of a worker at work: nobody comes or goes. *)
LEMMA TurnWhole ==
  ASSUME Whole, IInv, NEW w \in Workers, WorkerStep(w), UNCHANGED <<cancelled, err, result>>,
         verdict = "yes" => verdict' = "yes", cancelled \/ worker'[w].pc # "dead",
         Looped /\ Bare => verdict' = "yes" \/ Bare'
  PROVE  Whole'
<1>1. /\ UNCHANGED <<segments, total, co, job>> /\ Same(rows', rows)
      /\ Alive' = Alive /\ \A v \in Workers : worker'[v].seg = worker[v].seg
      /\ \A v \in Workers : v # w => worker'[v] = worker[v]
  BY MoveSeats DEF IInv, WorkerStep
<1>2. co # "down"
  <2>1. co = "down" => worker[w] = Off
    BY DEF IInv, Shared
  <2> QED BY <2>1, OffFacts DEF WorkerStep, BusyPcs
<1>3. FirstIn'
  BY <1>1 DEF Whole, FirstIn, Same, SameRange
<1>4. Owned => Owned'
  BY <1>1 DEF Owned, HeldByOther, Answered, Redispatching, Giving, In, Alive
<1>5. Staffed => Staffed'
  BY <1>1 DEF Staffed, all_done, In
<1>6. Manned'
  BY <1>1, <1>4, <1>5 DEF Whole, Manned, Looped
<1>7. Closed' /\ Ended'
  BY <1>1, <1>2 DEF Whole, Closed, Ended, all_done, In
<1> QED BY <1>3, <1>6, <1>7 DEF Whole

LEMMA RespondBare ==
  ASSUME Truth, IInv, FirstIn, Looped, Bare, NEW w \in Workers, Respond(w), verdict' # "yes" PROVE Bare'
<1>1. w \in Busy /\ worker[w].pc = "connect" /\ worker[w] \in WorkerRec
  BY WorkerType DEF Respond, Connecting, Busy, IInv
<1>2. UNCHANGED <<segments, co, job>> /\ UNCHANGED <<written, segStates, rows>>
  BY DEF Respond, planVars, fileVars
<1>3. PICK reported \in {n \in ServerSizes : n >= total} :
        LET usable == worker[w].open /\ worker[w].base + worker[w].from = 0
            queue == IF verdict = "unknown" THEN Append(events, Event("verdict", w, 0)) ELSE events
        IN  \/ ~usable /\ RangeNotSupported(queue, w)
            \/ usable /\ reported > total /\ ReportAfter(queue, w, "larger", reported)
            \/ /\ usable /\ reported = total
               /\ Become(w, [worker[w] EXCEPT !.pc = "read", !.off = worker[w].from,
                               !.kept = worker[w].from,
                               !.last = IF worker[w].open THEN reported - 1 ELSE worker[w].req])
               /\ events' = queue
  BY DEF Respond
<1> DEFINE queue == IF verdict = "unknown" THEN Append(events, Event("verdict", w, 0)) ELSE events
<1>4. Ahead(w, queue)
  BY DEF Ahead, Event
<1> HIDE DEF queue
<1>5. PICK lst :
        \/ RangeNotSupported(queue, w)
        \/ /\ worker[w].open /\ worker[w].base + worker[w].from = 0
           /\ ReportAfter(queue, w, "larger", reported)
        \/ /\ Become(w, [worker[w] EXCEPT !.pc = "read", !.off = worker[w].from,
                           !.kept = worker[w].from, !.last = lst])
           /\ events' = queue
  BY <1>3 DEF queue
<1>6. FirstOnly(worker[w]) /\ worker[w].from \in Nat /\ worker[w].base \in Nat
  BY <1>1 DEF Bare, WorkerRec
<1>7. CASE RangeNotSupported(queue, w)
  <2>1. ReportAfter(queue, w, "range", 0) \/ RetryOrReport(queue, w, "range")
    BY <1>7 DEF RangeNotSupported
  <2>2. Aside(w)
    BY <1>2 DEF Aside
  <2> QED BY <1>1, <1>2, <1>4, <2>1, <2>2, ReportBare, RetryBare
<1>8. CASE /\ worker[w].open /\ worker[w].base + worker[w].from = 0
           /\ ReportAfter(queue, w, "larger", reported)
  <2>1. Aside(w) /\ worker[w].from = 0
    BY <1>2, <1>6, <1>8 DEF Aside
  <2> QED BY <1>1, <1>2, <1>4, <1>8, <2>1, ReportBare
<1>9. CASE /\ Become(w, [worker[w] EXCEPT !.pc = "read", !.off = worker[w].from,
                           !.kept = worker[w].from, !.last = lst])
           /\ events' = queue
  <2>1. PICK r : r = [worker[w] EXCEPT !.pc = "read", !.off = worker[w].from,
                              !.kept = worker[w].from, !.last = lst]
    OBVIOUS
  <2>2. /\ r.pc = "read" /\ r.seg = worker[w].seg /\ r.base = worker[w].base
        /\ r.off = worker[w].from /\ r.open = worker[w].open
    BY <1>1, <2>1 DEF WorkerRec
  <2>3. r.open => Fresh' \/ Past(r, rows'[0].dl)
    BY <1>1, <1>2, <1>6, <2>2 DEF FirstOnly, Past, Fresh
  <2>4. \A k : IsReport(k)' => IsReport(k) /\ events'[k] = events[k]
    BY <1>4, <1>9, SentAhead, TypeParts DEF IInv
  <2>5. Become(w, r)
    BY <1>9, <2>1
  <2> QED BY <1>1, <1>2, <2>2, <2>3, <2>4, <2>5, MoveBare
<1> QED BY <1>5, <1>7, <1>8, <1>9

LEMMA FlowBare ==
  ASSUME Truth, IInv, FirstIn, Looped, Bare, NEW w \in Workers,
         ReadChunk(w) \/ WriteChunk(w) \/ StreamEnd(w) \/ PeriodicFlush(w) \/ FinishSegment(w)
  PROVE  Bare'
<1>0. /\ w \in Busy /\ worker[w].pc \in {"read", "write", "finish"} /\ worker[w] \in WorkerRec
      /\ worker[w].off \in Nat /\ worker[w].left \in Nat /\ Sound(worker[w], written, cancelled)
  <2>1. w \in Busy /\ worker[w].pc \in {"read", "write", "finish"} /\ worker[w] \in WorkerRec
    BY WorkerType DEF ReadChunk, WriteChunk, StreamEnd, PeriodicFlush, FinishSegment, Busy, IInv
  <2> QED BY <2>1 DEF WorkerRec, Truth, WorkersTrue
<1>1. UNCHANGED <<segments, co, job>>
  BY DEF ReadChunk, WriteChunk, StreamEnd, PeriodicFlush, FinishSegment, planVars
<1>2. CASE ReadChunk(w)
  <2>1. PICK len \in 1 .. MaxChunk :
          Become(w, IF Budget(w) = 0
                    THEN [worker[w] EXCEPT !.pc = "finish", !.whole = TRUE]
                    ELSE [worker[w] EXCEPT !.pc = "write", !.left = Smaller(len, Budget(w)),
                                           !.whole = Budget(w) < len])
    BY <1>2 DEF ReadChunk
  <2>2. PICK r : r = IF Budget(w) = 0
                     THEN [worker[w] EXCEPT !.pc = "finish", !.whole = TRUE]
                     ELSE [worker[w] EXCEPT !.pc = "write", !.left = Smaller(len, Budget(w)),
                                            !.whole = Budget(w) < len]
    OBVIOUS
  <2>3. /\ r.pc \in {"write", "finish"} /\ r.seg = worker[w].seg /\ r.base = worker[w].base
        /\ r.off = worker[w].off /\ r.open = worker[w].open
    BY <1>0, <2>2 DEF WorkerRec
  <2>4. Become(w, r) /\ UNCHANGED <<segStates, rows, events>>
    BY <1>2, <2>1, <2>2 DEF ReadChunk, fileVars
  <2> QED BY <1>0, <1>1, <2>3, <2>4, StreamBare
<1>3. CASE WriteChunk(w)
  <2>1. PICK off, pc : /\ off = worker[w].off + worker[w].left
                       /\ pc = IF worker[w].whole THEN "finish" ELSE "read"
    OBVIOUS
  <2>2. PICK r : r = [worker[w] EXCEPT !.pc = pc, !.off = off, !.left = 0]
    OBVIOUS
  <2>3. worker[w].pc = "write" /\ Become(w, r) /\ update_seg_state(w, off) /\ UNCHANGED <<rows, events>>
    BY <1>3, <2>1, <2>2 DEF WriteChunk, fileVars
  <2>4. /\ r.pc \in {"read", "finish"} /\ r.seg = worker[w].seg /\ r.base = worker[w].base
        /\ r.off = off /\ r.open = worker[w].open
    BY <1>0, <2>1, <2>2 DEF WorkerRec
  <2>5. off \in Nat /\ off > 0
    BY <1>0, <2>1, <2>3 DEF Sound
  <2> QED BY <1>0, <1>1, <2>3, <2>4, <2>5, StreamBare
<1>4. CASE StreamEnd(w)
  <2>1. PICK r : r = [worker[w] EXCEPT !.pc = "finish"]
    OBVIOUS
  <2>2. /\ r.pc = "finish" /\ r.seg = worker[w].seg /\ r.base = worker[w].base
        /\ r.off = worker[w].off /\ r.open = worker[w].open
    BY <1>0, <2>1 DEF WorkerRec
  <2>3. Become(w, r) /\ UNCHANGED <<segStates, rows, events>>
    BY <1>4, <2>1 DEF StreamEnd, fileVars
  <2> QED BY <1>0, <1>1, <2>2, <2>3, StreamBare
<1>5. CASE PeriodicFlush(w)
  <2>1. PICK r : r = [worker[w] EXCEPT !.kept = worker[w].off]
    OBVIOUS
  <2>2. /\ r.pc = "read" /\ r.seg = worker[w].seg /\ r.base = worker[w].base
        /\ r.off = worker[w].off /\ r.open = worker[w].open
    BY <1>0, <1>5, <2>1 DEF WorkerRec, PeriodicFlush
  <2>3. Become(w, r) /\ UNCHANGED <<segStates, rows, events>>
    BY <1>5, <2>1 DEF PeriodicFlush
  <2> QED BY <1>0, <1>1, <2>2, <2>3, StreamBare
<1>6. CASE FinishSegment(w)
  <2>0. worker[w].pc = "finish"
    BY <1>6 DEF FinishSegment
  <2>1. CASE /\ update_seg_state(w, worker[w].off) /\ update_segment_progress_bounded(w)
             /\ RetryOrReport(events, w, "fatal")
    BY <1>0, <1>1, <2>0, <2>1, RetryBare DEF Ahead
  <2>2. CASE /\ Become(w, [worker[w] EXCEPT !.pc = "save", !.kept = worker[w].off])
             /\ UNCHANGED <<segStates, rows, events>>
    <3>1. PICK r : r = [worker[w] EXCEPT !.pc = "save", !.kept = worker[w].off]
      OBVIOUS
    <3>2. /\ r.pc = "save" /\ r.seg = worker[w].seg /\ r.base = worker[w].base
          /\ r.off = worker[w].off /\ r.open = worker[w].open
      BY <1>0, <3>1 DEF WorkerRec
    <3> QED BY <1>0, <1>1, <2>2, <3>1, <3>2, StreamBare
  <2> QED BY <1>6, <2>1, <2>2 DEF FinishSegment
<1> QED BY <1>2, <1>3, <1>4, <1>5, <1>6

(* A retry begins where the row says. *)
LEMMA AgainBare ==
  ASSUME Truth, IInv, FirstIn, Looped, Bare, NEW w \in Workers, Retry(w) PROVE Bare'
<1> DEFINE i == worker[w].seg
           row == IF i \in DOMAIN rows THEN rows[i]
                  ELSE [start |-> worker[w].base, end |-> worker[w].req, dl |-> worker[w].from]
<1>1. w \in Busy /\ worker[w].pc = "retry" /\ worker[w] \in WorkerRec
  BY WorkerType DEF Retry, Busy, IInv
<1>2. UNCHANGED <<segments, co, job>> /\ UNCHANGED <<segStates, rows>>
  BY DEF Retry, planVars, fileVars
<1>3. FirstOnly(worker[w]) /\ 0 \in DOMAIN rows
  BY <1>1 DEF Bare, FirstIn, Looped
<1>4. \/ ReportAfter(events, w, "done", row.dl)
      \/ /\ Become(w, [worker[w] EXCEPT !.pc = "connect", !.from = row.dl, !.req = row.end])
         /\ UNCHANGED events
  BY DEF Retry, Report
<1>5. CASE ReportAfter(events, w, "done", row.dl)
  BY <1>1, <1>2, <1>5, ReportBare DEF Aside, Ahead
<1>6. CASE /\ Become(w, [worker[w] EXCEPT !.pc = "connect", !.from = row.dl, !.req = row.end])
           /\ UNCHANGED events
  <2>1. i = 0 => row.dl = rows[0].dl
    BY <1>3
  <2> HIDE DEF row
  <2>2. PICK r : r = [worker[w] EXCEPT !.pc = "connect", !.from = row.dl, !.req = row.end]
    OBVIOUS
  <2>3. /\ r.pc = "connect" /\ r.seg = i /\ r.base = worker[w].base
        /\ r.from = row.dl /\ r.open = worker[w].open
    BY <1>1, <2>2 DEF WorkerRec
  <2>4. r.open => Fresh' \/ Past(r, rows'[0].dl)
    BY <1>1, <1>2, <1>3, <2>1, <2>3 DEF FirstOnly, Past, Fresh
  <2>5. \A k : IsReport(k)' => IsReport(k) /\ events'[k] = events[k]
    BY <1>6 DEF IsReport
  <2>6. Become(w, r)
    BY <1>6, <2>2
  <2> QED BY <1>1, <1>2, <2>3, <2>4, <2>5, <2>6, MoveBare
<1> QED BY <1>4, <1>5, <1>6

LEMMA OverBare ==
  ASSUME Truth, IInv, FirstIn, Looped, Bare, NEW w \in Workers, SkipSegment(w) \/ SaveDone(w) PROVE Bare'
<1>1. w \in Busy /\ worker[w] \in WorkerRec
  BY WorkerType DEF SkipSegment, SaveDone, Busy, IInv
<1>2. Aside(w)
  BY <1>1 DEF SkipSegment, SaveDone, Aside, planVars, fileVars, WorkerRec
<1>3. \E n : ReportAfter(events, w, "done", n)
  BY DEF SkipSegment, SaveDone, Report
<1> QED BY <1>1, <1>2, <1>3, ReportBare DEF Ahead

LEMMA TroubleBare ==
  ASSUME "write" \notin Faults, "panic" \notin Faults,
         Truth, IInv, FirstIn, Looped, Bare, verdict # "yes", NEW w \in Workers, Trouble(w)
  PROVE  Bare'
<1>1. ~WriteError(w) /\ ~Panic(w) /\ ~TransientFull(w) /\ ~NodeFailed(w)
  BY DEF WriteError, Panic, TransientFull, NodeFailed, Fault, range_ok
<1>2. CASE Rejected(w) \/ Unusable(w)
  <2>1. w \in Busy /\ Aside(w) /\ (ReportAfter(events, w, "reject", 0) \/ ReportAfter(events, w, "fatal", 0))
    BY <1>2 DEF Rejected, Unusable, Connecting, Report, Busy, Aside, planVars, fileVars
  <2> QED BY <2>1, ReportBare DEF Ahead
<1>3. CASE Broken(w)
  <2>1. /\ w \in Busy /\ UNCHANGED <<segments, co, job>> /\ RetryOrReport(events, w, "fatal")
        /\ \/ worker[w].pc = "connect" /\ UNCHANGED <<segStates, rows>>
           \/ /\ worker[w].pc = "read"
              /\ update_seg_state(w, worker[w].off) /\ update_segment_progress_bounded(w)
    BY <1>3 DEF Broken, SaveExit, Connecting, Busy, planVars
  <2> QED BY <2>1, RetryBare DEF Ahead
<1> QED BY <1>1, <1>2, <1>3 DEF Trouble

(* A worker that is ended by the cancellation leaves its stream. *)
LEMMA EndedBare ==
  ASSUME Truth, IInv, FirstIn, Looped, Bare, NEW w \in Workers, WorkerExit(w) PROVE Bare'
<1>1. /\ cancelled /\ worker[w].pc \in {"connect", "read", "retry"} /\ SaveExit(w)
      /\ Become(w, [Off EXCEPT !.pc = "dead", !.seg = worker[w].seg])
      /\ UNCHANGED <<segments, co, job>> /\ UNCHANGED events
  BY DEF WorkerExit, Looped, planVars
<1>2. w \in Busy /\ worker[w].seg \in Int /\ worker[w].off \in Nat
  BY <1>1, WorkerType DEF Busy, IInv
<1>3. PICK r : r = [Off EXCEPT !.pc = "dead", !.seg = worker[w].seg]
  OBVIOUS
<1>4. r.pc = "dead" /\ r.seg = worker[w].seg
  BY <1>2, <1>3, OffFacts
<1>5. /\ UNCHANGED segStates \/ \E n \in Nat : update_seg_state(w, n)
      /\ UNCHANGED rows \/ update_segment_progress_bounded(w)
  BY <1>1, <1>2 DEF SaveExit
<1>6. \A k : IsReport(k)' => IsReport(k) /\ events'[k] = events[k]
  BY <1>1 DEF IsReport
<1>7. Become(w, r) /\ r.pc \notin BusyPcs
  BY <1>1, <1>3, <1>4 DEF BusyPcs
<1> QED BY <1>1, <1>2, <1>4, <1>5, <1>6, <1>7, MoveBare

(* The rows only gain. *)
LEMMA StoredBare ==
  ASSUME IInv, FirstIn, Looped, Bare, NEW w \in Workers, FlushTick(w) PROVE Bare'
<1> DEFINE i == worker[w].seg
           m == Smaller(DurableOffset(w), Smaller(size(rows[i]), size(segments[i])))
<1>1. /\ UNCHANGED <<segments, segStates, co, job, worker, events>>
      /\ i \in DOMAIN rows /\ i \in DOMAIN segments /\ 0 \in DOMAIN rows
      /\ rows' = [rows EXCEPT ![i].dl = Larger(rows[i].dl, m)]
  BY DEF FlushTick, planVars, FirstIn, Looped
<1>2. /\ rows[i] \in RowRec /\ segments[i] \in Segment /\ worker[w].kept \in Nat /\ rows[0] \in RowRec
  BY <1>1, WorkerType DEF IInv, TypeOK, RowRec, WorkerRec
<1>3. m \in Int
  BY <1>2 DEF DurableOffset, Smaller, size, Larger, RowRec, Segment
<1> HIDE DEF m
<1>4. rows'[0].dl >= rows[0].dl
  BY <1>1, <1>2, <1>3 DEF Larger, RowRec
<1>5. ASSUME NEW v \in Busy PROVE FirstOnly(worker[v])'
  <2>1. FirstOnly(worker[v])
    BY DEF Bare
  <2>2. rows[0].dl \in Nat /\ rows'[0].dl \in Int
    BY <1>1, <1>2, <1>3 DEF Larger, RowRec
  <2> QED BY <1>1, <1>4, <2>1, <2>2 DEF FirstOnly, Past, Fresh
<1>6. Busy' = Busy
  BY <1>1 DEF Busy
<1>7. /\ \A k : IsReport(k)' => ReportsFresh(events[k])'
      /\ Redispatching' => job'.seg = 0 /\ Fresh'
      /\ Giving' /\ job'.plain => job'.child = 0 /\ Fresh'
  BY <1>1 DEF Bare, IsReport, ReportsFresh, Redispatching, Giving, Fresh
<1> QED BY <1>5, <1>6, <1>7 DEF Bare

(* A step that touches neither plan nor workers. *)
LEMMA QuietWhole ==
  ASSUME Whole, UNCHANGED <<segments, total, co, job, worker, err, result>>, written \subseteq written',
         Same(rows', rows), cancelled => cancelled', verdict = "yes" => verdict' = "yes",
         Looped /\ Bare => Bare'
  PROVE  Whole'
<1>1. FirstIn'
  BY DEF Whole, FirstIn, Same, SameRange
<1>2. Manned'
  BY DEF Whole, Manned, Looped, Owned, HeldByOther, Answered, Redispatching, Giving, In, Alive, Staffed, all_done
<1>3. Closed' /\ Ended'
  BY DEF Whole, Closed, Ended, all_done, In
<1> QED BY <1>1, <1>2, <1>3 DEF Whole

(* Only a panic or the cancellation ends a task without a report. *)
LEMMA NobodyDies ==
  ASSUME "panic" \notin Faults, TypeOK, NEW w \in Workers,
         (Worker(w) /\ ~WorkerExit(w)) \/ Trouble(w) \/ PeriodicFlush(w)
  PROVE  worker'[w].pc # "dead"
<1>1. worker[w] \in WorkerRec /\ DOMAIN worker = Workers /\ worker[w].seg \in Int
  BY WorkerType DEF TypeOK
<1>2. ASSUME NEW q, NEW kind, NEW n, ReportAfter(q, w, kind, n) PROVE worker'[w].pc = "reported"
  <2>1. PICK r : r = [Off EXCEPT !.pc = "reported", !.seg = worker[w].seg]
    OBVIOUS
  <2>2. r.pc = "reported"
    BY <1>1, <2>1, OffFacts
  <2>3. worker'[w] = r
    BY <1>1, <1>2, <2>1 DEF ReportAfter, Become
  <2> QED BY <2>2, <2>3
<1>3. ASSUME NEW q, NEW kind, RetryOrReport(q, w, kind) PROVE worker'[w].pc \in {"reported", "retry"}
  <2>1. CASE ReportAfter(q, w, kind, 0)
    BY <1>2, <2>1
  <2>2. CASE Become(w, [worker[w] EXCEPT !.pc = "retry", !.tries = @ + 1, !.off = 0,
                                         !.kept = 0, !.left = 0, !.last = 0, !.whole = FALSE])
    BY <1>1, <2>2 DEF Become, WorkerRec
  <2> QED BY <1>3, <2>1, <2>2 DEF RetryOrReport
<1>4. CASE SkipSegment(w) \/ SaveDone(w)
  BY <1>2, <1>4 DEF SkipSegment, SaveDone, Report
<1>5. CASE Respond(w)
  <2>1. PICK q, reported, lst :
          \/ RangeNotSupported(q, w) \/ ReportAfter(q, w, "larger", reported)
          \/ Become(w, [worker[w] EXCEPT !.pc = "read", !.off = worker[w].from,
                           !.kept = worker[w].from, !.last = lst])
    BY <1>5 DEF Respond
  <2>2. CASE RangeNotSupported(q, w)
    BY <1>2, <1>3, <2>2 DEF RangeNotSupported
  <2>3. CASE Become(w, [worker[w] EXCEPT !.pc = "read", !.off = worker[w].from,
                           !.kept = worker[w].from, !.last = lst])
    BY <1>1, <2>3 DEF Become, WorkerRec
  <2> QED BY <1>2, <2>1, <2>2, <2>3
<1>6. CASE ReadChunk(w)
  <2>1. PICK len \in 1 .. MaxChunk :
          Become(w, IF Budget(w) = 0
                    THEN [worker[w] EXCEPT !.pc = "finish", !.whole = TRUE]
                    ELSE [worker[w] EXCEPT !.pc = "write", !.left = Smaller(len, Budget(w)),
                                           !.whole = Budget(w) < len])
    BY <1>6 DEF ReadChunk
  <2> QED BY <1>1, <2>1 DEF Become, WorkerRec
<1>7. CASE WriteChunk(w)
  <2>1. PICK pc, off : /\ pc = IF worker[w].whole THEN "finish" ELSE "read"
                       /\ off = worker[w].off + worker[w].left
    OBVIOUS
  <2>2. Become(w, [worker[w] EXCEPT !.pc = pc, !.off = off, !.left = 0])
    BY <1>7, <2>1 DEF WriteChunk
  <2>3. pc # "dead"
    BY <2>1
  <2> QED BY <1>1, <2>2, <2>3 DEF Become, WorkerRec
<1>8. CASE StreamEnd(w) \/ PeriodicFlush(w)
  BY <1>1, <1>8 DEF StreamEnd, PeriodicFlush, Become, WorkerRec
<1>9. CASE FinishSegment(w)
  <2>1. CASE RetryOrReport(events, w, "fatal")
    BY <1>3, <2>1
  <2>2. CASE Become(w, [worker[w] EXCEPT !.pc = "save", !.kept = worker[w].off])
    BY <1>1, <2>2 DEF Become, WorkerRec
  <2> QED BY <1>9, <2>1, <2>2 DEF FinishSegment
<1>10. CASE Retry(w)
  <2>1. PICK n, from, req : ReportAfter(events, w, "done", n)
                            \/ Become(w, [worker[w] EXCEPT !.pc = "connect", !.from = from, !.req = req])
    BY <1>10 DEF Retry, Report
  <2>2. CASE Become(w, [worker[w] EXCEPT !.pc = "connect", !.from = from, !.req = req])
    BY <1>1, <2>2 DEF Become, WorkerRec
  <2> QED BY <1>2, <2>1, <2>2
<1>11. CASE Trouble(w)
  BY <1>2, <1>3, <1>11 DEF Trouble, Rejected, TransientFull, Unusable, Broken, NodeFailed, WriteError, Panic,
                           Fault, Report, RangeNotSupported
<1> QED BY <1>4, <1>5, <1>6, <1>7, <1>8, <1>9, <1>10, <1>11 DEF Worker

LEMMA WorkersWhole ==
  ASSUME "write" \notin Faults, "panic" \notin Faults, Whole, Truth, IInv,
         \/ UserCancel \/ UNCHANGED vars
         \/ \E w \in Workers : Worker(w) \/ Trouble(w) \/ PeriodicFlush(w) \/ FlushTick(w)
  PROVE  Whole'
<1>0. TypeOK /\ Shared /\ (Looped => FirstIn)
  BY DEF IInv, Whole
<1>1. CASE UserCancel \/ UNCHANGED vars
  <2>1. /\ UNCHANGED <<segments, segStates, rows, events, total, co, job, worker, err, result, written, verdict>>
        /\ cancelled => cancelled'
    BY <1>1 DEF UserCancel, vars, planVars, fileVars, netVars
  <2>2. Bare => Bare'
    BY <2>1 DEF Bare, FirstOnly, Past, Fresh, ReportsFresh, Redispatching, Giving, IsReport, Busy
  <2> QED BY <2>1, <2>2, SameSelf, QuietWhole
<1>2. ASSUME NEW w \in Workers, FlushTick(w) PROVE Whole'
  <2>1. /\ UNCHANGED <<segments, total, co, job, worker, err, result, written, verdict, cancelled>>
        /\ Same(rows', rows)
    BY <1>0, <1>2, FlushTickStep DEF FlushTick, planVars, endVars, netVars
  <2> QED BY <1>0, <1>2, <2>1, StoredBare, QuietWhole
<1>3. ASSUME NEW w \in Workers, WorkerStep(w), UNCHANGED <<cancelled, err, result>>,
             cancelled \/ worker'[w].pc # "dead", verdict = "yes" => verdict' = "yes",
             Looped /\ Bare => verdict' = "yes" \/ Bare'
      PROVE  Whole'
  BY <1>3, TurnWhole
<1>4. ASSUME NEW w \in Workers, Worker(w) \/ PeriodicFlush(w), ~WorkerExit(w) PROVE Whole'
  <2>1. WorkerStep(w)
    BY <1>0, <1>4, SkipSegmentStep, RespondStep, ReadChunkStep, WriteChunkStep, StreamEndStep,
       FinishSegmentStep, SaveDoneStep, RetryStep, PeriodicFlushStep DEF Worker
  <2>2. UNCHANGED <<cancelled, err, result>>
    BY <1>4 DEF Worker, SkipSegment, Respond, ReadChunk, WriteChunk, StreamEnd, FinishSegment, SaveDone,
                Retry, PeriodicFlush, endVars
  <2>3. verdict = "yes" => verdict' = "yes"
    BY <1>4 DEF Worker, SkipSegment, Respond, ReadChunk, WriteChunk, StreamEnd, FinishSegment, SaveDone,
                Retry, PeriodicFlush, netVars
  <2>4. Looped /\ Bare => verdict' = "yes" \/ Bare'
    BY <1>0, <1>4, RespondBare, FlowBare, AgainBare, OverBare DEF Worker
  <2>5. worker'[w].pc # "dead"
    BY <1>0, <1>4, NobodyDies
  <2> QED BY <1>3, <2>1, <2>2, <2>3, <2>4, <2>5
<1>5. ASSUME NEW w \in Workers, Trouble(w) PROVE Whole'
  <2>1. WorkerStep(w)
    BY <1>0, <1>5, TroubleIsStep
  <2>2. /\ UNCHANGED <<cancelled, err, result>> /\ UNCHANGED verdict
    BY <1>5 DEF Trouble, Rejected, TransientFull, Unusable, Broken, NodeFailed, WriteError, Panic, endVars, netVars
  <2>3. Looped /\ Bare => verdict' = "yes" \/ Bare'
    BY <1>0, <1>5, <2>2, TroubleBare
  <2>4. worker'[w].pc # "dead"
    BY <1>0, <1>5, NobodyDies
  <2> QED BY <1>3, <2>1, <2>2, <2>3, <2>4
<1>6. ASSUME NEW w \in Workers, WorkerExit(w) PROVE Whole'
  <2>1. UNCHANGED <<cancelled, err, result>> /\ UNCHANGED verdict
    BY <1>6 DEF WorkerExit, endVars, netVars
  <2>2. CASE WorkerStep(w)
    <3>1. cancelled
      BY <2>2, <1>6 DEF WorkerExit, WorkerStep, BusyPcs
    <3> QED BY <1>0, <1>3, <1>6, <2>1, <2>2, <3>1, EndedBare
  <2>3. CASE Gone(w)
    <3>1. UNCHANGED <<segments, total, rows, co>> /\ co = "drain"
      BY <2>3 DEF Gone
    <3> QED BY <2>1, <3>1 DEF Whole, FirstIn, Manned, Looped, Closed, Ended, all_done, In
  <2> QED BY <1>0, <1>6, <2>2, <2>3, WorkerExitStep
<1> QED BY <1>1, <1>2, <1>4, <1>5, <1>6

-----------------------------------------------------------------------------
(* The steps of the coordinator: events and work *)

(* The plan changes while the workers go on. *)
LEMMA PlanBare ==
  ASSUME Looped, Bare, UNCHANGED <<rows, segStates>>, AtWork,
         \A k : IsReport(k)' => \E l : IsReport(l) /\ events'[k] = events[l],
         \/ Fresh => segments'[0].dl = 0
         \/ /\ \A w \in Busy : worker[w].seg # 0
            /\ \A k : IsReport(k)' => events'[k].seg # 0,
         Redispatching' => job'.seg = 0 /\ Fresh',
         Giving' /\ job'.plain => job'.child = 0 /\ Fresh'
  PROVE  Bare'
<1>1. CASE Fresh => segments'[0].dl = 0
  <2>1. Fresh => Fresh'
    BY <1>1 DEF Fresh
  <2>2. ASSUME NEW v \in Busy' PROVE FirstOnly(worker[v])'
    <3>1. v \in Busy /\ worker'[v] = worker[v]
      BY <2>2 DEF AtWork
    <3>2. FirstOnly(worker[v])
      BY <3>1 DEF Bare
    <3> QED BY <2>1, <3>1, <3>2 DEF FirstOnly
  <2>3. ASSUME NEW k, IsReport(k)' PROVE ReportsFresh(events[k])'
    <3>1. PICK l : IsReport(l) /\ events'[k] = events[l]
      BY <2>3
    <3>2. ReportsFresh(events[l])
      BY <3>1 DEF Bare
    <3> QED BY <2>1, <3>1, <3>2 DEF ReportsFresh
  <2> QED BY <2>2, <2>3 DEF Bare
<1>2. CASE /\ \A w \in Busy : worker[w].seg # 0
           /\ \A k : IsReport(k)' => events'[k].seg # 0
  <2>2. ASSUME NEW v \in Busy' PROVE FirstOnly(worker[v])'
    <3>1. v \in Busy /\ worker'[v] = worker[v]
      BY <2>2 DEF AtWork
    <3>2. FirstOnly(worker[v])
      BY <3>1 DEF Bare
    <3> QED BY <1>2, <3>1, <3>2 DEF FirstOnly
  <2>3. ASSUME NEW k, IsReport(k)' PROVE ReportsFresh(events[k])'
    <3>1. PICK l : IsReport(l) /\ events'[k] = events[l]
      BY <2>3
    <3>2. ReportsFresh(events[l])
      BY <3>1 DEF Bare
    <3> QED BY <1>2, <2>3, <3>1, <3>2 DEF ReportsFresh
  <2> QED BY <2>2, <2>3 DEF Bare
<1> QED BY <1>1, <1>2

(* A step of the loop. *)
LEMMA LoopWhole ==
  ASSUME Whole, Looped, co' # "down", 0 \in DOMAIN segments', segments'[0].start = segments[0].start,
         UNCHANGED <<rows, result, verdict>>,
         Looped' => Owned' /\ Staffed' /\ (Bare /\ verdict # "yes" => Bare'),
         Closed'
  PROVE  Whole'
<1>1. FirstIn'
  BY DEF Whole, FirstIn, Looped
<1>2. Manned'
  BY DEF Whole, Manned
<1>3. Ended'
  BY DEF Whole, Ended, Looped
<1> QED BY <1>1, <1>2, <1>3 DEF Whole

(* The worker that reported is still there, and so is whoever holds another segment. *)
LEMMA TakenWhole ==
  ASSUME IInv, Owned, Staffed, NEW h, h = Head1, NEW kind, Take(kind), kind # "verdict", UNCHANGED worker, cancelled => cancelled',
         job'.w = h.w, In(segments', "Active") \subseteq In(segments, "Active"),
         h.seg \in In(segments', "Active") => Answered(h.seg)'
  PROVE  Owned' /\ Staffed'
<1>1. /\ co = "idle" /\ job = NoJob /\ Reported(h.w) /\ worker[h.w].seg = h.seg
  BY TakeFacts
<1>2. Alive' = Alive /\ h.w \in Alive
  BY <1>1 DEF Alive, Reported
<1>3. ASSUME NEW i \in In(segments', "Active"), i # h.seg PROVE HeldByOther(i)'
  <2>1. HeldByOther(i)
    BY <1>1, <1>3 DEF Owned, Answered, Redispatching, Giving
  <2> QED BY <1>1, <1>2, <1>3, <2>1 DEF HeldByOther
<1>4. Owned'
  BY <1>3 DEF Owned
<1>5. Staffed'
  BY <1>2 DEF Staffed
<1> QED BY <1>4, <1>5

LEMMA HeadReport ==
  ASSUME IInv, NEW kind, Take(kind), kind # "verdict"
  PROVE  IsReport(1) /\ Head1 = events[1]
<1>1. events \in Seq(EventRec) /\ events # <<>> /\ Head1.kind = kind
  BY DEF Take, IInv, TypeOK
<1> QED BY <1>1 DEF IsReport, Head1

(* The first segment is done when nobody is at work on it any more. *)
LEMMA HandleDoneWhole ==
  ASSUME Whole, IInv, HandleDone PROVE Whole'
<1> DEFINE i == Head1.seg
           n == Head1.n
           s == segments[i]
<1>1. Take("done") /\ UNCHANGED <<rows, segStates, worker, verdict, cancelled, result>>
  BY DEF HandleDone, fileVars, netVars, endVars
<1>2. /\ co = "idle" /\ Looped /\ Head1 \in EventRec
      /\ Reported(Head1.w) /\ i \in In(segments, "Active")
      /\ \A v \in Alive \ {Head1.w} : worker[v].seg # i
      /\ \A k : IsReport(k)' => IsReport(k + 1) /\ events'[k] = events[k + 1] /\ events[k + 1].w # Head1.w
  BY <1>1, TakeFacts
<1>3. /\ PlanType(segments, nextIndex) /\ nextIndex \in Nat /\ i \in DOMAIN segments
      /\ 0 \in DOMAIN segments
  BY <1>2, TypeParts DEF IInv, TypePlan, In, Whole, FirstIn
<1>4. s \in Segment /\ nextIndex \notin DOMAIN segments /\ i # nextIndex /\ n \in Nat /\ nextIndex # 0
  BY <1>2, <1>3, ReporterType DEF PlanType
<1>5. PICK r : /\ \/ /\ r = [start |-> s.start, end |-> s.start + n - 1, dl |-> n, state |-> "Completed"]
                     /\ Shortfall(s, n)
                  \/ /\ r = [s EXCEPT !.dl = Smaller(n, size(s)), !.state = "Completed"]
                     /\ ~Shortfall(s, n)
  OBVIOUS
<1>6. r.start = s.start /\ r.state = "Completed"
  <2>1. CASE r = [start |-> s.start, end |-> s.start + n - 1, dl |-> n, state |-> "Completed"]
    BY <2>1
  <2>2. CASE r = [s EXCEPT !.dl = Smaller(n, size(s)), !.state = "Completed"]
    BY <1>4, <2>2 DEF Segment
  <2> QED BY <1>5, <2>1, <2>2
<1>7. /\ segments'[i] = r
      /\ \A j \in DOMAIN segments : j \in DOMAIN segments' /\ (j # i => segments'[j] = segments[j])
      /\ \A j \in DOMAIN segments' \ DOMAIN segments : segments'[j].state = "Pending"
      /\ co' \in {"persist", "assign"} /\ job'.w = Head1.w /\ ~job'.plain
      /\ Giving' => job'.then = "assign"
  <2>1. CASE Shortfall(s, n)
    <3>1. PICK c : c = [start |-> s.start + n, end |-> s.end, dl |-> 0, state |-> "Pending"]
      OBVIOUS
    <3>2. /\ segments' = With([segments EXCEPT ![i] = r], nextIndex, c)
          /\ job' = [Reporter EXCEPT !.child = nextIndex, !.parent = i, !.then = "assign"]
          /\ co' = "persist"
      BY <1>5, <2>1, <3>1 DEF HandleDone
    <3>3. /\ DOMAIN segments' = DOMAIN segments \cup {nextIndex}
          /\ segments'[i] = r /\ segments'[nextIndex] = c
          /\ \A j \in DOMAIN segments : j # i => segments'[j] = segments[j]
      BY <1>3, <1>4, <3>2 DEF With
    <3>4. c.state = "Pending"
      BY <3>1
    <3>5. job'.w = Head1.w /\ ~job'.plain /\ job'.then = "assign"
      BY <3>2 DEF Reporter, NoJob
    <3> QED BY <1>3, <3>2, <3>3, <3>4, <3>5
  <2>2. CASE ~Shortfall(s, n)
    <3>1. segments' = [segments EXCEPT ![i] = r] /\ co' = "assign" /\ job' = Reporter
      BY <1>5, <2>2 DEF HandleDone
    <3>2. DOMAIN segments' = DOMAIN segments /\ segments'[i] = r
          /\ \A j \in DOMAIN segments : j # i => segments'[j] = segments[j]
      BY <1>3, <3>1
    <3> QED BY <3>1, <3>2 DEF Reporter, NoJob, Giving
  <2> QED BY <2>1, <2>2
<1>8. In(segments', "Active") \subseteq In(segments, "Active") /\ i \notin In(segments', "Active")
  BY <1>6, <1>7 DEF In
<1>9. Owned /\ Staffed
  BY <1>2 DEF Whole, Manned
<1>10. Owned' /\ Staffed'
  BY <1>1, <1>7, <1>8, <1>9, TakenWhole
<1>11. 0 \in DOMAIN segments' /\ segments'[0].start = segments[0].start
  BY <1>3, <1>6, <1>7
<1>12. ASSUME Bare PROVE Bare'
  <2>1. AtWork
    BY <1>1 DEF AtWork, Busy
  <2>2. \A k : IsReport(k)' => \E l : IsReport(l) /\ events'[k] = events[l]
    BY <1>2
  <2>3. CASE i = 0
    <3>1. \A w \in Busy : worker[w].seg # 0
      BY <1>2, <2>3 DEF Busy, Alive, Reported
    <3>2. ASSUME NEW k, IsReport(k)' PROVE events'[k].seg # 0
      <4>1. IsReport(k + 1) /\ events'[k] = events[k + 1] /\ events[k + 1].w # Head1.w
        BY <1>2, <3>2
      <4>2. Reported(events[k + 1].w) /\ worker[events[k + 1].w].seg = events[k + 1].seg
        BY <1>2, <4>1 DEF IInv, Reports, Standing
      <4>3. events[k + 1].w \in Alive \ {Head1.w}
        BY <4>1, <4>2 DEF Reported, Alive
      <4> QED BY <1>2, <2>3, <4>1, <4>2, <4>3
    <3> QED BY <1>1, <1>2, <1>7, <1>12, <2>1, <2>2, <3>1, <3>2, PlanBare DEF Redispatching, Giving
  <2>4. CASE i # 0
    <3>1. Fresh => segments'[0].dl = 0
      BY <1>3, <1>7, <2>4 DEF Fresh
    <3> QED BY <1>1, <1>2, <1>7, <1>12, <2>1, <2>2, <3>1, PlanBare DEF Redispatching, Giving
  <2> QED BY <2>3, <2>4
<1>13. Closed'
  BY <1>7 DEF Closed
<1> QED BY <1>1, <1>2, <1>7, <1>10, <1>11, <1>12, <1>13, LoopWhole

(* What is given back is pending, with what it had. *)
LEMMA FreedPlan ==
  ASSUME Whole, IInv, Looped, NEW i \in In(segments, "Active"), NEW S, S = [segments EXCEPT ![i].state = "Pending"]
  PROVE  /\ PlanType(S, nextIndex) /\ Same(S, segments) /\ DOMAIN S = DOMAIN segments
         /\ In(S, "Active") = In(segments, "Active") \ {i} /\ i \in In(S, "Pending")
         /\ 0 \in DOMAIN S /\ S[0].start = segments[0].start /\ S[0].dl = segments[0].dl
<1>1. PlanType(segments, nextIndex) /\ i \in DOMAIN segments /\ 0 \in DOMAIN segments
  BY TypeParts DEF IInv, TypePlan, In, Whole, FirstIn, Looped
<1>2. /\ PlanType(S, nextIndex) /\ Same(S, segments) /\ S[i].state = "Pending" /\ S[i].dl = segments[i].dl
      /\ \A j \in DOMAIN segments : j # i => S[j] = segments[j]
  BY <1>1, Restated
<1> QED BY <1>1, <1>2 DEF Same, SameRange, In

LEMMA EventsWhole ==
  ASSUME Whole, IInv, HandleNode \/ HandleRejection \/ HandleFatal \/ HandleVerdict \/ HandleCancel
  PROVE  Whole'
<1>0. Looped /\ co = "idle"
  BY DEF HandleNode, HandleRejection, HandleFatal, HandleVerdict, HandleCancel, Take, Looping, Looped
<1>1. 0 \in DOMAIN segments /\ Owned /\ Staffed /\ (verdict = "yes" \/ Bare)
  BY <1>0 DEF Whole, FirstIn, Manned, Looped
<1>2. CASE HandleNode
  <2>1. /\ Take("node") /\ co' = "redispatch" /\ job' = Reporter
        /\ UNCHANGED <<segments, rows, segStates, worker, verdict, cancelled, result>>
    BY <1>2 DEF HandleNode, planVars, fileVars, netVars, endVars
  <2>2. verdict = "yes"
    <3>1. IsReport(1) /\ Head1 = events[1] /\ Head1.kind = "node"
      BY <2>1, HeadReport DEF Take
    <3> QED BY <1>1, <3>1 DEF Bare, ReportsFresh
  <2>3. job'.w = Head1.w /\ job'.seg = Head1.seg
    BY <2>1 DEF Reporter, NoJob
  <2>4. PICK h : h = Head1
    OBVIOUS
  <2>5. Answered(h.seg)'
    BY <2>1, <2>3, <2>4 DEF Answered, Redispatching
  <2>6. Owned' /\ Staffed'
    BY <1>1, <2>1, <2>3, <2>4, <2>5, TakenWhole
  <2> QED BY <1>0, <1>1, <2>1, <2>2, <2>6, LoopWhole DEF Closed
<1>3. CASE HandleRejection
  <2>1. PICK kind \in {"reject", "range"} : Take(kind)
    BY <1>3 DEF HandleRejection
  <2>2. /\ segments' = [segments EXCEPT ![Head1.seg].state = "Pending"]
        /\ co' \in {"retire", "merge"} /\ job' = [Reporter EXCEPT !.then = "retire"]
        /\ UNCHANGED <<rows, segStates, worker, verdict, cancelled, result>>
    BY <1>3 DEF HandleRejection, Absorb, fileVars, netVars, endVars
  <2>3. Head1.seg \in In(segments, "Active")
    BY <2>1, TakeFacts
  <2>4. /\ In(segments', "Active") = In(segments, "Active") \ {Head1.seg} /\ 0 \in DOMAIN segments'
        /\ segments'[0].start = segments[0].start /\ segments'[0].dl = segments[0].dl
    BY <1>0, <2>2, <2>3, FreedPlan
  <2>5. job'.w = Head1.w
    BY <2>2 DEF Reporter, NoJob
  <2>6. Owned' /\ Staffed'
    BY <1>1, <2>1, <2>2, <2>4, <2>5, TakenWhole
  <2>7. ASSUME Bare PROVE Bare'
    <3>1. \A k : IsReport(k)' => \E l : IsReport(l) /\ events'[k] = events[l]
      BY <2>1, TakenEvents
    <3>2. AtWork
      BY <2>2 DEF AtWork, Busy
    <3> QED BY <1>0, <2>2, <2>4, <2>7, <3>1, <3>2, PlanBare DEF Fresh, Redispatching, Giving
  <2> QED BY <1>0, <1>1, <2>2, <2>4, <2>6, <2>7, LoopWhole DEF Closed
<1>4. CASE HandleFatal
  <2>1. PICK kind \in {"fatal", "reject", "range"} : Take(kind)
    BY <1>4 DEF HandleFatal
  <2>2. /\ segments' = [segments EXCEPT ![Head1.seg].state = "Pending"] /\ co' = "drain"
        /\ err' # "none" /\ UNCHANGED <<rows, verdict, result>>
    BY <1>4 DEF HandleFatal, Break, fileVars, netVars
  <2>3. Head1.seg \in In(segments, "Active")
    BY <2>1, TakeFacts
  <2>4. 0 \in DOMAIN segments' /\ segments'[0].start = segments[0].start
    BY <1>0, <2>2, <2>3, FreedPlan
  <2> QED BY <1>0, <2>2, <2>4, LoopWhole DEF Closed, Looped
<1>5. CASE HandleVerdict
  <2>1. /\ Take("verdict") /\ co' \in {"idle", "merge"}
        /\ UNCHANGED <<segments, rows, segStates, worker, verdict, cancelled, result, job>>
    BY <1>0, <1>5 DEF HandleVerdict, Absorb, fileVars, endVars
  <2>2. Owned' /\ Staffed'
    BY <1>0, <1>1, <2>1 DEF Owned, HeldByOther, Answered, Redispatching, Giving, Alive, In, Staffed, all_done
  <2>3. ASSUME Bare PROVE Bare'
    <3>1. \A k : IsReport(k)' => \E l : IsReport(l) /\ events'[k] = events[l]
      BY <2>1, TakenEvents
    <3>2. AtWork
      BY <2>1 DEF AtWork, Busy
    <3> QED BY <1>0, <2>1, <2>3, <3>1, <3>2, PlanBare DEF Fresh, Redispatching, Giving
  <2> QED BY <1>0, <1>1, <2>1, <2>2, <2>3, LoopWhole DEF Closed
<1>6. CASE HandleCancel
  <2>1. co' = "drain" /\ err' # "none" /\ UNCHANGED <<segments, rows, verdict, result>>
    BY <1>6 DEF HandleCancel, Break, planVars, fileVars, netVars
  <2> QED BY <1>0, <1>1, <2>1, LoopWhole DEF Closed, Looped
<1> QED BY <1>2, <1>3, <1>4, <1>5, <1>6

(* A larger size is reported of the first segment from its first byte, or   *)
(* the server has shown that it serves ranges.                              *)
LEMMA HandleLargerWhole ==
  ASSUME Whole, IInv, HandleLarger PROVE Whole'
<1> DEFINE i == Head1.seg
           n == Head1.n
<1>1. Take("larger") /\ UNCHANGED <<rows, segStates, worker, verdict, result>>
  BY DEF HandleLarger, fileVars, netVars
<1>2. co = "idle" /\ Looped /\ n \in 1 .. FileSize /\ i \in In(segments, "Active")
  BY <1>1, TakeFacts, LargerSize
<1>3. TypePlan /\ validate_coverage(segments, total) /\ Owned /\ Staffed /\ 0 \in DOMAIN segments
  BY <1>2, TypeParts DEF IInv, PlanCovers, Whole, Manned, FirstIn
<1>4. AtWork /\ \A k : IsReport(k)' => \E l : IsReport(l) /\ events'[k] = events[l]
  BY <1>1, TakenEvents DEF AtWork, Busy
<1>5. Bare => i = 0 /\ Fresh
  <2>1. IsReport(1) /\ Head1 = events[1] /\ Head1.kind = "larger"
    BY <1>1, HeadReport DEF Take
  <2> QED BY <2>1 DEF Bare, ReportsFresh
<1>6. CASE /\ n > total
           /\ segments' = With(segments, nextIndex, TailSegment(n))
           /\ job' = [Reporter EXCEPT !.child = nextIndex, !.then = "redispatch"]
           /\ co' = "persist" /\ UNCHANGED cancelled
  <2>1. \A j \in DOMAIN segments : segments'[j] = segments[j]
    BY <1>2, <1>3, <1>6, TailPlan
  <2>2. DOMAIN segments' = DOMAIN segments \cup {nextIndex} /\ segments'[nextIndex].state = "Pending"
    BY <1>6 DEF With, TailSegment
  <2>3. In(segments', "Active") \subseteq In(segments, "Active")
    BY <2>1, <2>2 DEF In
  <2>4. job'.w = Head1.w /\ job'.seg = i /\ job'.then = "redispatch" /\ ~job'.plain
    BY <1>6 DEF Reporter, NoJob
  <2>5. \A h : h = Head1 => Answered(h.seg)'
    BY <1>6, <2>4 DEF Answered, Redispatching, Giving
  <2>6. Owned' /\ Staffed'
    BY <1>1, <1>3, <1>6, <2>3, <2>4, <2>5, TakenWhole
  <2>7. ASSUME Bare PROVE Bare'
    <3>1. Fresh' /\ job'.seg = 0
      BY <1>1, <1>3, <1>5, <2>1, <2>4, <2>7 DEF Fresh
    <3> QED BY <1>1, <1>2, <1>4, <2>4, <2>7, <3>1, PlanBare DEF Fresh
  <2> QED BY <1>1, <1>2, <1>3, <1>6, <2>1, <2>2, <2>6, <2>7, LoopWhole DEF Closed
<1>7. CASE segments' = [segments EXCEPT ![i].state = "Pending"] /\ co' = "drain" /\ err' = "error"
  <2>1. 0 \in DOMAIN segments' /\ segments'[0].start = segments[0].start
    BY <1>2, <1>7, FreedPlan
  <2> QED BY <1>1, <1>2, <1>7, <2>1, LoopWhole DEF Closed, Looped
<1>8. CASE segments' = segments /\ co' = "redispatch" /\ job' = Reporter /\ UNCHANGED cancelled
  <2>1. job'.w = Head1.w /\ job'.seg = i /\ ~job'.plain
    BY <1>8 DEF Reporter, NoJob
  <2>2. \A h : h = Head1 => Answered(h.seg)'
    BY <1>8, <2>1 DEF Answered, Redispatching
  <2>3. Owned' /\ Staffed'
    BY <1>1, <1>3, <1>8, <2>1, <2>2, TakenWhole
  <2>4. ASSUME Bare PROVE Bare'
    <3>1. Fresh' /\ job'.seg = 0
      BY <1>1, <1>5, <1>8, <2>1, <2>4 DEF Fresh
    <3> QED BY <1>1, <1>2, <1>4, <1>8, <2>1, <2>4, <3>1, PlanBare DEF Fresh
  <2> QED BY <1>1, <1>2, <1>3, <1>8, <2>3, <2>4, LoopWhole DEF Closed
<1>9. \/ /\ n > total
         /\ segments' = With(segments, nextIndex, TailSegment(n))
         /\ job' = [Reporter EXCEPT !.child = nextIndex, !.then = "redispatch"]
         /\ co' = "persist" /\ UNCHANGED cancelled
      \/ segments' = [segments EXCEPT ![i].state = "Pending"] /\ co' = "drain" /\ err' = "error"
      \/ segments' = segments /\ co' = "redispatch" /\ job' = Reporter /\ UNCHANGED cancelled
  BY DEF HandleLarger, Break, planVars
<1> QED BY <1>6, <1>7, <1>8, <1>9

(* The progress of a fresh first segment stays nothing. *)
LEMMA SyncFirst ==
  ASSUME Whole, IInv, Looped, NEW S, S = sync_downloaded_from_shared
  PROVE  /\ PlanType(S, nextIndex) /\ Same(S, segments) /\ Others(S)
         /\ nextIndex \in Nat /\ total \in Nat /\ validate_coverage(S, total)
         /\ \A state : In(S, state) = In(segments, state)
         /\ 0 \in DOMAIN S /\ S[0].start = segments[0].start /\ (Fresh => S[0].dl = 0)
<1>1. /\ PlanType(S, nextIndex) /\ Same(S, segments) /\ Others(S)
      /\ nextIndex \in Nat /\ total \in Nat /\ validate_coverage(S, total)
  BY SyncReady
<1>2. \A state : In(S, state) = In(segments, state)
  BY SyncFacts DEF IInv
<1>3. 0 \in DOMAIN segments /\ TypeOK
  BY DEF Whole, FirstIn, IInv, Looped
<1>4. 0 \in DOMAIN S /\ S[0].start = segments[0].start
  BY <1>1, <1>3 DEF Same, SameRange
<1>5. ASSUME Fresh PROVE S[0].dl = 0
  <2>1. S[0] = IF segments[0].state = "Active" /\ 0 \in DOMAIN segStates
               THEN [segments[0] EXCEPT !.dl = segStates[0].dl] ELSE segments[0]
    BY <1>3, SyncFacts
  <2>2. segments[0] \in Segment
    BY <1>3 DEF TypeOK
  <2> QED BY <1>5, <2>1, <2>2 DEF Fresh, Segment
<1> QED BY <1>1, <1>2, <1>4, <1>5

LEMMA PendingFound ==
  ASSUME NEW S, NEW n \in Nat, PlanType(S, n), In(S, "Pending") # {}
  PROVE  LET nw == find_next_pending_only(S)
         IN  nw.child \in In(S, "Pending") /\ nw.child \in Nat /\ \A i \in In(S, "Pending") : nw.child <= i
<1>1. In(S, "Pending") \in SUBSET Nat
  BY DEF PlanType, In
<1>2. Min(In(S, "Pending")) \in In(S, "Pending") /\ \A i \in In(S, "Pending") : Min(In(S, "Pending")) <= i
  BY <1>1, MinFact
<1> QED BY <1>1, <1>2 DEF find_next_pending_only

LEMMA NothingOpen ==
  ASSUME NEW S, NEW n, PlanType(S, n), In(S, "Pending") = {}, In(S, "Active") = {}
  PROVE  all_done(S)
BY DEF PlanType, Segment, In, all_done

(* The work found goes to a worker that is there, or to a new one. *)
LEMMA DispatchWhole ==
  ASSUME Whole, IInv, Looped, NEW S, PlanType(S, nextIndex),
         0 \in DOMAIN S, S[0].start = segments[0].start, Fresh => S[0].dl = 0,
         \A i \in In(S, "Active") : HeldByOther(i), Alive # {},
         NEW nw, NEW state \in {"Pending", "Active"},
         (Picked(S, nw) /\ state = "Active") \/ Cut(S, nw, state),
         NEW w, w = job.w \/ w \notin Alive, NEW then \in {"send", "fill", "idle"},
         state = "Active" => then # "idle", NEW plain, Dispatch(w, nw, then, plain),
         Bare /\ verdict # "yes" /\ plain => nw.child = 0 /\ Fresh,
         UNCHANGED <<rows, segStates, events, verdict, cancelled, result>>
  PROVE  Whole'
<1>0. nextIndex \in Nat
  BY DEF IInv, TypeOK
<1>1. /\ In(nw.segs, "Active") \subseteq In(S, "Active") \cup (IF state = "Active" THEN {nw.child} ELSE {})
      /\ 0 \in DOMAIN nw.segs /\ nw.segs[0].start = S[0].start /\ nw.segs[0].dl = S[0].dl
  <2>1. CASE Picked(S, nw) /\ state = "Active"
    BY <1>0, <2>1, PickedPlan DEF Same, SameRange, In
  <2>2. CASE Cut(S, nw, state)
    <3>1. PICK cut \in Nat : CutAt(S, nw, state, cut)
      BY <2>2 DEF Cut
    <3>2. /\ Halved(S, nw.segs, nw.parent, nw.child, cut)
          /\ nw.segs[nw.child].state = state
          /\ \A i \in DOMAIN S : nw.segs[i].dl = S[i].dl /\ nw.segs[i].state = S[i].state
      BY <1>0, <3>1, CutPlan
    <3> QED BY <3>2 DEF Halved, SameRange, In
  <2> QED BY <2>1, <2>2
<1>2. /\ segments' = nw.segs /\ co' = "persist" /\ worker' = worker
      /\ job'.w = w /\ job'.child = nw.child /\ job'.then = then /\ job'.plain = plain
  BY DEF Dispatch, NoJob
<1>3. Owned'
  <2>1. ASSUME NEW i \in In(S, "Active") PROVE HeldByOther(i)'
    BY <1>2, <2>1 DEF HeldByOther, Alive
  <2>2. state = "Active" => Answered(nw.child)'
    BY <1>2 DEF Answered, Giving
  <2> QED BY <1>1, <1>2, <2>1, <2>2 DEF Owned
<1>4. Staffed'
  BY <1>2 DEF Whole, Manned, Staffed, Alive
<1>5. ASSUME Bare, verdict # "yes" PROVE Bare'
  <2>1. AtWork /\ Fresh => nw.segs[0].dl = 0
    BY <1>1, <1>2 DEF AtWork, Busy
  <2>2. AtWork
    BY <1>2 DEF AtWork, Busy
  <2>3. Fresh => Fresh'
    BY <1>1, <1>2 DEF Fresh
  <2>4. Giving' /\ job'.plain => job'.child = 0 /\ Fresh'
    BY <1>2, <1>5, <2>3
  <2>5. ~Redispatching'
    BY <1>2 DEF Redispatching
  <2> QED BY <1>1, <1>2, <1>5, <2>2, <2>4, <2>5, SentEvents, PlanBare
<1> QED BY <1>1, <1>2, <1>3, <1>4, <1>5, LoopWhole DEF Closed

(* No work is found: the worker that asked may go if another is left. *)
LEMMA RetireWhole ==
  ASSUME Whole, IInv, Looped, NEW S, 0 \in DOMAIN S, S[0].start = segments[0].start, Fresh => S[0].dl = 0,
         \A i \in In(S, "Active") : HeldByOther(i), segments' = S,
         \A v \in Workers : worker'[v] = worker[v] \/ (v = job.w /\ worker'[v] = Off), job' = NoJob,
         \/ co' = "idle" /\ (Alive \ {job.w} # {} \/ all_done(S))
         \/ co' = "drain" /\ (all_done(S) \/ err' # "none"),
         UNCHANGED <<rows, segStates, events, verdict, cancelled, result>>
  PROVE  Whole'
<1>1. job.w \notin Busy /\ Off.pc = "off" /\ NoSeg \notin Workers
  BY AnswerNotBusy, OffFacts, WorkerAssumption DEF IInv
<1>2. AtWork
  <2>1. \A v \in Busy : worker'[v] = worker[v]
    BY <1>1, BusyIs
  <2>2. Busy' = Busy
    BY <1>1, <2>1, BusyIs, BusyIsNext DEF BusyPcs
  <2> QED BY <2>1, <2>2 DEF AtWork
<1>3. job'.w = NoSeg /\ ~job'.plain /\ Alive \ {job.w} \subseteq Alive' \ {NoSeg}
  BY <1>1 DEF NoJob, Alive
<1>4. \A i \in In(S, "Active") : HeldByOther(i)'
  BY <1>3 DEF HeldByOther, Alive
<1>5. Owned'
  BY <1>4 DEF Owned
<1>6. Looped' => Staffed'
  <2>1. \A v \in Workers : worker'[v].pc = "dead" => worker[v].pc = "dead"
    BY <1>1
  <2>2. co' = "idle" => Alive' # {} \/ all_done(segments)'
    <3>1. all_done(S) => all_done(segments)'
      BY DEF all_done, In
    <3> QED BY <1>3, <3>1
  <2>3. ~cancelled' => \A v \in Workers : worker'[v].pc # "dead"
    BY <2>1 DEF Whole, Manned, Staffed
  <2> QED BY <2>2, <2>3 DEF Staffed, Looped
<1>7. Bare => Bare'
  BY <1>2, <1>3, SentEvents, PlanBare DEF Redispatching, Giving
<1>8. Closed'
  BY DEF Closed, all_done, In
<1> QED BY <1>5, <1>6, <1>7, <1>8, LoopWhole

(* At these places everything active is held by somebody else. *)
LEMMA OthersHold ==
  ASSUME Whole, Looped, co \notin {"redispatch", "persist", "publish"}, NEW i \in In(segments, "Active")
  PROVE  HeldByOther(i)
BY DEF Whole, Manned, Owned, Answered, Redispatching, Giving

LEMMA AssignWhole ==
  ASSUME Whole, IInv, Assign PROVE Whole'
<1>1. PICK m \in MinSplits :
        LET S == sync_downloaded_from_shared
            nw == IF serial THEN SerialWork(S)
                  ELSE IF Cardinality(Alive) > allowed THEN NoWork(S)
                  ELSE find_next_work(S, m)
        IN  \/ nw.child # NoSeg /\ Dispatch(job.w, nw, "send", FALSE)
            \/ /\ nw.child = NoSeg /\ Retire(S)
               /\ IF all_done(S) THEN Break("none") ELSE co' = "idle" /\ job' = NoJob /\ UNCHANGED err
  BY DEF Assign
<1>2. PICK S : S = sync_downloaded_from_shared
  OBVIOUS
<1>3. PICK nw : nw = IF serial THEN SerialWork(S)
                     ELSE IF Cardinality(Alive) > allowed THEN NoWork(S)
                     ELSE find_next_work(S, m)
  OBVIOUS
<1>4. \/ nw.child # NoSeg /\ Dispatch(job.w, nw, "send", FALSE)
      \/ /\ nw.child = NoSeg /\ Retire(S) /\ job' = NoJob
         /\ (all_done(S) /\ co' = "drain") \/ (~all_done(S) /\ co' = "idle")
  BY <1>1, <1>2, <1>3 DEF Break
<1>5. UNCHANGED <<rows, segStates, events, verdict, cancelled, result>> /\ Looped /\ co = "assign"
  BY DEF Assign, fileVars, netVars, Looped
<1>6. /\ PlanType(S, nextIndex) /\ nextIndex \in Nat /\ total \in Nat /\ validate_coverage(S, total)
      /\ 0 \in DOMAIN S /\ S[0].start = segments[0].start /\ (Fresh => S[0].dl = 0)
      /\ In(S, "Active") = In(segments, "Active")
  BY <1>2, <1>5, SyncFirst
<1>7. Found(S, nw)
  BY <1>3, <1>6, WorkFacts
<1>8. \A i \in In(S, "Active") : HeldByOther(i)
  BY <1>5, <1>6, OthersHold
<1>9. job.w \in Alive /\ DOMAIN worker = Workers
  BY <1>5 DEF IInv, JobInv, Reported, Alive, TypeOK
<1>10. CASE nw.child # NoSeg /\ Dispatch(job.w, nw, "send", FALSE)
  <2>1. Picked(S, nw) \/ Cut(S, nw, "Active")
    BY <1>7, <1>10 DEF Found, Nothing
  <2> QED BY <1>5, <1>6, <1>8, <1>9, <1>10, <2>1, DispatchWhole
<1>11. CASE /\ nw.child = NoSeg /\ Retire(S) /\ job' = NoJob
            /\ (all_done(S) /\ co' = "drain") \/ (~all_done(S) /\ co' = "idle")
  <2>1. segments' = S /\ \A v \in Workers : worker'[v] = worker[v] \/ (v = job.w /\ worker'[v] = Off)
    BY <1>9, <1>11 DEF Retire
  <2>2. ASSUME ~all_done(S) PROVE Alive \ {job.w} # {}
    <3>1. CASE ~serial /\ Cardinality(Alive) > allowed
      <4>1. allowed \in Nat /\ allowed >= 1
        BY DEF IInv, TypeOK
      <4>2. ASSUME Alive \ {job.w} = {} PROVE FALSE
        <5>1. Alive = {job.w}
          BY <1>9, <4>2
        <5>2. Cardinality(Alive) = 1
          BY <5>1, FS_Singleton
        <5> QED BY <3>1, <4>1, <5>2
      <4> QED BY <4>2
    <3>2. CASE serial \/ ~(Cardinality(Alive) > allowed)
      <4>1. In(S, "Active") # {}
        <5>1. SUFFICES ASSUME In(S, "Active") = {} PROVE FALSE
          OBVIOUS
        <5>2. In(S, "Pending") # {}
          BY <1>6, <2>2, <5>1, NothingOpen
        <5>3. nw = find_next_pending_only(S)
          BY <1>3, <3>2, <5>1, <5>2 DEF SerialWork, find_next_work
        <5>4. nw.child \in Nat
          BY <1>6, <5>2, <5>3, PendingFound
        <5> QED BY <1>11, <5>4 DEF NoSeg
      <4> QED BY <1>8, <4>1 DEF HeldByOther
    <3> QED BY <3>1, <3>2
  <2> QED BY <1>5, <1>6, <1>8, <1>11, <2>1, <2>2, RetireWhole
<1> QED BY <1>4, <1>10, <1>11

(* Without proof of Range the first segment is sent again, from its first byte. *)
LEMMA RedispatchWhole ==
  ASSUME Whole, IInv, Redispatch PROVE Whole'
<1>1. PICK S : S = [segments EXCEPT ![job.seg].state = "Pending"]
  OBVIOUS
<1>2. PICK m \in MinSplits :
        LET nw == IF ~range_ok THEN find_next_pending_only(S)
                  ELSE IF serial THEN SerialWork(S) ELSE find_next_work(S, m)
            plain == ~range_ok
            usable == nw.child # NoSeg
                      /\ (plain => S[nw.child].start + S[nw.child].dl = 0)
        IN  \/ usable /\ Dispatch(job.w, nw, "send", plain)
            \/ ~usable /\ Retire(S) /\ co' = "idle" /\ job' = NoJob /\ UNCHANGED err
  BY <1>1 DEF Redispatch
<1>3. PICK nw : nw = IF ~range_ok THEN find_next_pending_only(S)
                     ELSE IF serial THEN SerialWork(S) ELSE find_next_work(S, m)
  OBVIOUS
<1>4. \/ nw.child # NoSeg /\ Dispatch(job.w, nw, "send", ~range_ok)
      \/ /\ nw.child = NoSeg \/ (~range_ok /\ S[nw.child].start + S[nw.child].dl # 0)
         /\ Retire(S) /\ co' = "idle" /\ job' = NoJob
  BY <1>2, <1>3
<1>5. UNCHANGED <<rows, segStates, events, verdict, cancelled, result>> /\ co = "redispatch" /\ Looped
  BY DEF Redispatch, fileVars, netVars, Looped
<1>6. /\ PlanType(segments, nextIndex) /\ nextIndex \in Nat /\ total \in Nat
      /\ validate_coverage(segments, total) /\ Kept(job.seg) /\ Reported(job.w)
      /\ DOMAIN worker = Workers
  BY <1>5, TypeParts, FileAssumption DEF IInv, TypeOK, TypePlan, PlanCovers, JobInv
<1>7. /\ PlanType(S, nextIndex) /\ Same(S, segments)
      /\ In(S, "Active") = In(segments, "Active") \ {job.seg} /\ job.seg \in In(S, "Pending")
      /\ 0 \in DOMAIN S /\ S[0].start = segments[0].start /\ S[0].dl = segments[0].dl
  BY <1>1, <1>5, <1>6, FreedPlan DEF Kept
<1>8. validate_coverage(S, total)
  BY <1>6, <1>7, CoverSame
<1>9. Found(S, nw)
  BY <1>3, <1>6, <1>7, <1>8, WorkFacts
<1>10. \A i \in In(S, "Active") : HeldByOther(i)
  BY <1>5, <1>7 DEF Whole, Manned, Owned, Answered, Redispatching, Giving
<1>11. Fresh => S[0].dl = 0
  BY <1>7 DEF Fresh
<1>12. ASSUME ~range_ok
       PROVE  nw.child = 0 /\ Fresh /\ S[0].start = 0 /\ S[0].dl = 0
  <2>1. Bare
    BY <1>5, <1>12 DEF Whole, Manned, range_ok
  <2>2. job.seg = 0 /\ Fresh
    BY <1>5, <2>1 DEF Bare, Redispatching
  <2>3. nw.child \in Nat /\ nw.child <= 0
    BY <1>3, <1>6, <1>7, <1>12, <2>2, PendingFound
  <2>4. S[0].start = 0
    BY <1>5, <1>7 DEF Whole, FirstIn
  <2> QED BY <1>11, <2>2, <2>3, <2>4
<1>13. CASE nw.child # NoSeg /\ Dispatch(job.w, nw, "send", ~range_ok)
  <2>1. Picked(S, nw) \/ Cut(S, nw, "Active")
    BY <1>9, <1>13 DEF Found, Nothing
  <2>2. Alive # {}
    BY <1>6 DEF Reported, Alive
  <2> QED BY <1>5, <1>7, <1>10, <1>11, <1>12, <1>13, <2>1, <2>2, DispatchWhole
<1>14. CASE /\ nw.child = NoSeg \/ (~range_ok /\ S[nw.child].start + S[nw.child].dl # 0)
            /\ Retire(S) /\ co' = "idle" /\ job' = NoJob
  <2>1. segments' = S /\ \A v \in Workers : worker'[v] = worker[v] \/ (v = job.w /\ worker'[v] = Off)
    BY <1>6, <1>14 DEF Retire
  <2>2. range_ok /\ nw.child = NoSeg
    BY <1>12, <1>14 DEF NoSeg
  <2>3. In(S, "Active") # {}
    <3>1. SUFFICES ASSUME In(S, "Active") = {} PROVE FALSE
      OBVIOUS
    <3>2. nw = find_next_pending_only(S)
      BY <1>3, <1>7, <2>2, <3>1 DEF SerialWork, find_next_work
    <3>3. nw.child \in Nat
      BY <1>6, <1>7, <3>2, PendingFound
    <3> QED BY <2>2, <3>3 DEF NoSeg
  <2>4. Alive \ {job.w} # {}
    BY <1>10, <2>3 DEF HeldByOther
  <2> QED BY <1>5, <1>7, <1>10, <1>11, <1>14, <2>1, <2>4, RetireWhole
<1> QED BY <1>4, <1>13, <1>14

LEMMA ProactiveTickWhole ==
  ASSUME Whole, IInv, ProactiveTick PROVE Whole'
<1>1. PICK m \in MinSplits :
        LET S == sync_downloaded_from_shared
            nw == IF In(S, "Pending") # {} THEN NoWork(S) ELSE SplitLargest(S, m, "Pending")
        IN  \/ nw.child # NoSeg /\ Dispatch(NoSeg, nw, "idle", FALSE)
            \/ nw.child = NoSeg /\ segments' = S /\ UNCHANGED <<nextIndex, co, job, worker, err>>
  BY DEF ProactiveTick
<1>2. PICK S : S = sync_downloaded_from_shared
  OBVIOUS
<1>3. PICK nw : nw = IF In(S, "Pending") # {} THEN NoWork(S) ELSE SplitLargest(S, m, "Pending")
  OBVIOUS
<1>4. /\ UNCHANGED <<rows, segStates, events, verdict, cancelled, result>>
      /\ co = "idle" /\ Looped /\ job = NoJob /\ ~all_done(segments)
  <2>1. co = "idle"
    BY DEF ProactiveTick, Quiet, Looping
  <2>2. job = NoJob
    BY <2>1 DEF IInv, JobInv, Handling
  <2> QED BY <2>1, <2>2 DEF ProactiveTick, fileVars, netVars, Looped
<1>5. \/ nw.child # NoSeg /\ Dispatch(NoSeg, nw, "idle", FALSE)
      \/ segments' = S /\ UNCHANGED <<co, job, worker>>
  BY <1>1, <1>2, <1>3
<1>6. /\ PlanType(S, nextIndex) /\ nextIndex \in Nat /\ total \in Nat /\ validate_coverage(S, total)
      /\ 0 \in DOMAIN S /\ S[0].start = segments[0].start /\ (Fresh => S[0].dl = 0)
      /\ In(S, "Active") = In(segments, "Active")
  BY <1>2, <1>4, SyncFirst
<1>7. \A i \in In(S, "Active") : HeldByOther(i)
  BY <1>4, <1>6, OthersHold
<1>8. Alive # {} /\ job.w = NoSeg /\ NoSeg \notin Alive
  BY <1>4, WorkerAssumption DEF Whole, Manned, Staffed, NoJob, Alive
<1>9. CASE nw.child # NoSeg /\ Dispatch(NoSeg, nw, "idle", FALSE)
  <2>1. Cut(S, nw, "Pending")
    BY <1>3, <1>6, <1>9, SplitFacts DEF Nothing, NoWork
  <2> QED BY <1>4, <1>6, <1>7, <1>8, <1>9, <2>1, DispatchWhole
<1>10. CASE segments' = S /\ UNCHANGED <<co, job, worker>>
  <2>1. Alive \ {job.w} # {} /\ \A v \in Workers : worker'[v] = worker[v]
    BY <1>8, <1>10
  <2> QED BY <1>4, <1>6, <1>7, <1>10, <2>1, RetireWhole
<1> QED BY <1>5, <1>9, <1>10

LEMMA FillWhole ==
  ASSUME Whole, IInv, Fill PROVE Whole'
<1>1. PICK S : S = sync_downloaded_from_shared
  OBVIOUS
<1>2. PICK m \in MinSplits :
        LET nw == IF MayGrow(S) THEN find_next_work(S, m) ELSE NoWork(segments)
        IN  \/ /\ nw.child # NoSeg
               /\ Dispatch(CHOOSE w \in Workers : w \notin Alive, nw, "fill", FALSE)
            \/ /\ nw.child = NoSeg
               /\ segments' = nw.segs
               /\ IF NobodyLeft(S) THEN Break("none")
                  ELSE co' = "idle" /\ job' = NoJob /\ UNCHANGED err
               /\ UNCHANGED <<nextIndex, worker>>
  BY <1>1 DEF Fill
<1>3. PICK nw : nw = IF MayGrow(S) THEN find_next_work(S, m) ELSE NoWork(segments)
  OBVIOUS
<1>4. UNCHANGED <<rows, segStates, events, verdict, cancelled, result>> /\ Looped /\ co = "fill"
  BY DEF Fill, fileVars, netVars, Looped
<1>5. /\ PlanType(S, nextIndex) /\ nextIndex \in Nat /\ total \in Nat /\ validate_coverage(S, total)
      /\ 0 \in DOMAIN S /\ S[0].start = segments[0].start /\ (Fresh => S[0].dl = 0)
      /\ Same(S, segments) /\ \A state : In(S, state) = In(segments, state)
  BY <1>1, <1>4, SyncFirst
<1>6. Alive # {} \/ all_done(S)
  BY <1>4, <1>5 DEF Whole, Manned, Staffed, all_done, Same
<1>7. \/ nw.child # NoSeg /\ Dispatch(CHOOSE w \in Workers : w \notin Alive, nw, "fill", FALSE)
      \/ nw.child = NoSeg /\ segments' = nw.segs /\ co' = "idle" /\ job' = NoJob /\ worker' = worker
  BY <1>2, <1>3, <1>6 DEF NobodyLeft
<1>8. Found(S, nw) \/ nw = NoWork(segments)
  BY <1>3, <1>5, WorkFacts
<1>9. \A i \in In(S, "Active") : HeldByOther(i)
  BY <1>4, <1>5, OthersHold
<1>10. job = NoJob /\ job.w \notin Alive
  <2>1. job = NoJob
    BY <1>4 DEF IInv, JobInv, Handling
  <2> QED BY <2>1, WorkerAssumption DEF NoJob, Alive
<1>11. CASE nw.child # NoSeg /\ Dispatch(CHOOSE w \in Workers : w \notin Alive, nw, "fill", FALSE)
  <2>1. Picked(S, nw) \/ Cut(S, nw, "Active")
    BY <1>8, <1>11 DEF Found, Nothing, NoWork
  <2>2. MayGrow(S)
    BY <1>3, <1>11 DEF NoWork
  <2>3. PICK w : w = CHOOSE x \in Workers : x \notin Alive
    OBVIOUS
  <2>4. w \notin Alive
    BY <2>2, <2>3, TypeParts, FreeSlot DEF MayGrow, IInv
  <2>5. Alive # {}
    BY <1>6, <2>2 DEF MayGrow
  <2> QED BY <1>4, <1>5, <1>9, <1>11, <2>1, <2>3, <2>4, <2>5, DispatchWhole
<1>12. CASE nw.child = NoSeg /\ segments' = nw.segs /\ co' = "idle" /\ job' = NoJob /\ worker' = worker
  <2>1. segments' = S \/ segments' = segments
    <3>1. CASE nw = NoWork(segments)
      BY <1>12, <3>1 DEF NoWork
    <3>2. CASE Found(S, nw)
      <4>1. ~Picked(S, nw)
        BY <1>5, <1>12, PickedPlan
      <4>2. nw.child # nextIndex
        BY <1>5, <1>12 DEF NoSeg
      <4>3. ~Cut(S, nw, "Active")
        BY <4>2 DEF Cut, CutAt
      <4> QED BY <1>12, <3>2, <4>1, <4>3 DEF Found, Nothing
    <3> QED BY <1>8, <3>1, <3>2
  <2>2. Alive \ {job.w} = Alive /\ \A v \in Workers : worker'[v] = worker[v]
    BY <1>10, <1>12
  <2>3. CASE segments' = S
    BY <1>4, <1>5, <1>6, <1>9, <1>12, <2>2, <2>3, RetireWhole
  <2>4. CASE segments' = segments
    <3>1. 0 \in DOMAIN segments /\ (Fresh => segments[0].dl = 0)
      BY <1>4 DEF Whole, FirstIn, Looped, Fresh
    <3>2. \A i \in In(segments, "Active") : HeldByOther(i)
      BY <1>5, <1>9
    <3>3. Alive # {} \/ all_done(segments)
      BY <1>4 DEF Whole, Manned, Staffed
    <3> QED BY <1>4, <1>12, <2>2, <2>4, <3>1, <3>2, <3>3, RetireWhole
  <2> QED BY <2>1, <2>3, <2>4
<1> QED BY <1>7, <1>11, <1>12

(* The last one leaves only with an error, the rejected one when others are left. *)
LEMMA RetireRejectedWhole ==
  ASSUME Whole, IInv, RetireRejected PROVE Whole'
<1>1. UNCHANGED <<segments, rows, segStates, events, verdict, cancelled, result>> /\ Looped /\ co = "retire"
  BY DEF RetireRejected, planVars, fileVars, netVars, Looped
<1>2. 0 \in DOMAIN segments /\ (Fresh => segments[0].dl = 0)
  BY <1>1 DEF Whole, FirstIn, Looped, Fresh
<1>3. \A i \in In(segments, "Active") : HeldByOther(i)
  BY <1>1, OthersHold
<1>4. job.w \in Alive /\ DOMAIN worker = Workers
  BY <1>1 DEF IInv, JobInv, Reported, Alive, TypeOK
<1>5. \A v \in Workers : worker'[v] = worker[v] \/ (v = job.w /\ worker'[v] = Off)
  BY <1>4 DEF RetireRejected
<1>6. job' = NoJob /\ \/ co' = "idle" /\ (Alive \ {job.w} # {} \/ all_done(segments))
                      \/ co' = "drain" /\ err' # "none"
  <2>1. CASE /\ Alive # {job.w} \/ In(segments, "Active") # {} \/ all_done(segments)
             /\ co' = "idle" /\ job' = NoJob
    BY <1>3, <1>4, <2>1 DEF HeldByOther
  <2>2. CASE co' = "drain" /\ job' = NoJob /\ err' \in {"fallback", "error"}
    BY <2>2
  <2>3. \/ /\ Alive # {job.w} \/ In(segments, "Active") # {} \/ all_done(segments)
           /\ co' = "idle" /\ job' = NoJob
        \/ co' = "drain" /\ job' = NoJob /\ err' \in {"fallback", "error"}
    BY DEF RetireRejected, Break
  <2> QED BY <2>1, <2>2, <2>3
<1> QED BY <1>1, <1>2, <1>3, <1>5, <1>6, RetireWhole

(* The ramp clears the slots of the dead, and nobody is dead. *)
LEMMA RampTickWhole ==
  ASSUME Whole, IInv, RampTick PROVE Whole'
<1>1. /\ UNCHANGED <<segments, rows, segStates, events, job, verdict, cancelled, result>>
      /\ Looped /\ co = "idle" /\ ~cancelled /\ co' = "fill"
      /\ worker' = [w \in Workers |-> IF worker[w].pc = "dead" THEN Off ELSE worker[w]]
  BY DEF RampTick, planVars, fileVars, netVars, endVars, Quiet, Looping, Looped
<1>2. \A v \in Workers : worker'[v] = worker[v]
  BY <1>1 DEF Whole, Manned, Staffed
<1>3. AtWork /\ Alive' = Alive
  BY <1>2 DEF AtWork, Busy, Alive
<1>4. Owned' /\ Staffed'
  <2>1. Owned /\ Staffed
    BY <1>1 DEF Whole, Manned
  <2> QED BY <1>1, <1>2, <1>3, <2>1 DEF Owned, Answered, Redispatching, Giving, HeldByOther, Alive, Staffed, In, all_done
<1>5. Bare => Bare'
  BY <1>1, <1>3, SentEvents, PlanBare DEF Redispatching, Giving, Fresh
<1> QED BY <1>1, <1>4, <1>5, LoopWhole DEF Whole, FirstIn, Closed

-----------------------------------------------------------------------------
(* The steps of the coordinator: the rows and the shared state *)

(* The row of the first segment changes only when that segment is given away, *)
(* and then nobody has it.                                                    *)
LEMMA PersistWhole ==
  ASSUME Whole, Truth, IInv, Persist PROVE Whole'
<1> DEFINE c == job.child
           p == job.parent
<1>1. /\ co = "persist" /\ co' = "publish" /\ (rows' = persist_segment_change \/ rows' = rows)
      /\ UNCHANGED <<segments, segStates, worker, events, job, verdict, cancelled, result>>
  BY DEF Persist, planVars, modeVars, netVars, endVars
<1>2. /\ Looped /\ 0 \in DOMAIN segments /\ segments[0].start = 0
      /\ 0 \in DOMAIN rows /\ rows[0].start = 0
      /\ rows[0] \in [start : Nat, end : 0 .. FileSize - 1, dl : Nat]
  BY <1>1 DEF Whole, FirstIn, Looped, IInv, TypeOK
<1>3. 0 \in DOMAIN rows' /\ rows'[0].start = 0 /\ (c # 0 => rows'[0].dl = rows[0].dl)
  <2>1. CASE rows' = rows
    BY <1>2, <2>1
  <2>2. CASE rows' = persist_segment_change
    <3>1. PICK R : R = With(rows, c, Row(segments[c]))
      OBVIOUS
    <3>2. 0 \in DOMAIN R /\ R[0] = IF c = 0 THEN Row(segments[0]) ELSE rows[0]
      BY <1>2, <3>1 DEF With
    <3>3. R[0] \in [start : Nat, end : Nat, dl : Nat] /\ R[0].start = 0
      <4>1. Row(segments[0]) \in [start : Nat, end : Nat, dl : Nat] /\ Row(segments[0]).start = 0
        BY <1>2 DEF IInv, TypeOK, Segment, Row
      <4> QED BY <1>2, <3>2, <4>1
    <3>4. rows' = R \/ rows' = [R EXCEPT ![p].end = segments[p].end]
      BY <2>2, <3>1 DEF persist_segment_change
    <3>5. 0 \in DOMAIN rows' /\ rows'[0].start = R[0].start /\ rows'[0].dl = R[0].dl
      BY <3>2, <3>3, <3>4
    <3> QED BY <3>2, <3>3, <3>5
  <2> QED BY <1>1, <2>1, <2>2
<1>4. FirstIn'
  BY <1>1, <1>2, <1>3 DEF FirstIn
<1>5. Busy' = Busy /\ Alive' = Alive /\ (Fresh <=> Fresh') /\ (\A k : IsReport(k)' <=> IsReport(k))
      /\ (Redispatching' <=> Redispatching) /\ Giving /\ Giving'
  BY <1>1 DEF Busy, Alive, Fresh, IsReport, Redispatching, Giving
<1>6. Bare => Bare'
  <2>1. ASSUME Bare, NEW v \in Busy' PROVE FirstOnly(worker[v])'
    <3>1. v \in Busy /\ worker[v].seg # c /\ FirstOnly(worker[v])
      BY <1>1, <1>5, <2>1, ChildFree DEF Bare
    <3> QED BY <1>1, <1>3, <1>5, <3>1 DEF FirstOnly
  <2>2. ASSUME Bare, NEW k, IsReport(k)' PROVE ReportsFresh(events[k])'
    <3>1. ReportsFresh(events[k])
      BY <1>5, <2>2 DEF Bare
    <3> QED BY <1>1, <1>5, <3>1 DEF ReportsFresh
  <2>3. ASSUME Bare PROVE /\ Redispatching' => job'.seg = 0 /\ Fresh'
                          /\ job'.plain => job'.child = 0 /\ Fresh'
    BY <1>1, <1>5, <2>3 DEF Bare
  <2> QED BY <2>1, <2>2, <2>3 DEF Bare
<1>7. Manned'
  <2>1. Owned /\ Staffed /\ (verdict = "yes" \/ Bare)
    BY <1>2 DEF Whole, Manned
  <2>2. \A i : (HeldByOther(i) <=> HeldByOther(i)') /\ (Answered(i) <=> Answered(i)')
    BY <1>1, <1>5 DEF HeldByOther, Answered
  <2>3. Owned'
    BY <1>1, <2>1, <2>2 DEF Owned, In
  <2>4. Staffed'
    BY <1>1, <1>5, <2>1 DEF Staffed, all_done, In
  <2> QED BY <1>1, <1>6, <2>1, <2>3, <2>4 DEF Manned
<1>8. Closed' /\ Ended'
  BY <1>1 DEF Whole, Closed, Ended
<1> QED BY <1>4, <1>7, <1>8 DEF Whole

(* Only the plain GET of the first segment is sent as an open stream. *)
LEMMA AssignedOpen ==
  ASSUME NEW S, NEW i, NEW open, NEW plain
  PROVE  Assigned(S, i, open, plain).open = open
BY DEF Assigned, Off

(* The worker that gets the segment is its holder. *)
LEMMA PublishWhole ==
  ASSUME Whole, Truth, IInv, Publish PROVE Whole'
<1> DEFINE c == job.child
<1>1. /\ co = "publish" /\ segStates' = rebuild_seg_states(segments) /\ Looped /\ Looped'
      /\ UNCHANGED <<segments, rows, events, verdict, cancelled, result>>
  BY DEF Publish, planVars, fileVars, netVars, endVars, Looped
<1>2. /\ Owned /\ Staffed /\ (verdict = "yes" \/ Bare) /\ 0 \in DOMAIN segments /\ segments[0].start = 0
      /\ DOMAIN worker = Workers /\ NoSeg \notin Workers
  BY <1>1, WorkerAssumption DEF Whole, Manned, FirstIn, Looped, IInv, TypeOK
<1>3. Fresh => Fresh'
  BY <1>1, <1>2 DEF Fresh, rebuild_seg_states
<1>4. /\ job.then \in {"assign", "redispatch", "send", "fill", "idle"}
      /\ job.then \in {"send", "fill"} => job.w \in Workers
      /\ job.then = "idle" => job.w = NoSeg
  BY <1>1 DEF Publish, IInv, JobInv, Reported
<1>5. Giving /\ ~Giving'
  BY <1>1 DEF Giving, Publish
<1>6. NoJob.w = NoSeg
  BY DEF NoJob
<1>7. CASE job.then \in {"assign", "redispatch"}
  <2>1. co' = job.then /\ worker' = worker /\ job' = job
    BY <1>7 DEF Publish
  <2>2. AtWork /\ Alive' = Alive
    BY <2>1 DEF AtWork, Busy, Alive
  <2>3. ASSUME NEW i \in In(segments', "Active") PROVE HeldByOther(i)' \/ Answered(i)'
    <3>1. HeldByOther(i) \/ Answered(i)
      BY <1>1, <1>2, <2>3 DEF Owned, In
    <3>2. HeldByOther(i) => HeldByOther(i)'
      BY <2>1, <2>2 DEF HeldByOther
    <3>3. Answered(i) => Answered(i)'
      BY <1>1, <1>7, <2>1 DEF Answered, Redispatching, Giving
    <3> QED BY <3>1, <3>2, <3>3
  <2>4. Owned'
    BY <2>3 DEF Owned
  <2>5. Staffed'
    BY <1>1, <1>2, <2>1, <2>2 DEF Staffed, all_done, In
  <2>6. ASSUME Bare PROVE Bare'
    <3>1. Redispatching' => job'.seg = 0 /\ Fresh'
      BY <1>1, <1>3, <1>5, <1>7, <2>1, <2>6 DEF Bare, Redispatching, Giving
    <3>2. \A v \in Busy' : FirstOnly(worker[v])'
      <4>1. ASSUME NEW v \in Busy' PROVE FirstOnly(worker[v])'
        <5>1. FirstOnly(worker[v])
          BY <2>2, <2>6, <4>1 DEF AtWork, Bare
        <5> QED BY <1>1, <1>3, <2>1, <5>1 DEF FirstOnly
      <4> QED BY <4>1
    <3>3. ASSUME NEW k, IsReport(k)' PROVE ReportsFresh(events[k])'
      <4>1. ReportsFresh(events[k])
        BY <1>1, <2>6, <3>3 DEF Bare, IsReport
      <4> QED BY <1>1, <1>3, <4>1 DEF ReportsFresh
    <3> QED BY <1>5, <3>1, <3>2, <3>3 DEF Bare
  <2> QED BY <1>1, <1>2, <2>4, <2>5, <2>6, LoopWhole DEF Closed, Looped
<1>8. CASE job.then \in {"send", "fill", "idle"}
  <2>1. /\ job' = NoJob /\ co' \in {"idle", "fill"}
        /\ \/ job.then = "idle" /\ worker' = worker
           \/ /\ job.then \in {"send", "fill"}
              /\ \E open : worker' = [worker EXCEPT ![job.w] = Assigned(segments, c, open, open)]
                           /\ (open => job.plain)
    <3>1. CASE job.then = "send"
      <4>1. /\ job' = NoJob /\ co' = "idle"
            /\ worker' = [worker EXCEPT ![job.w] = Assigned(segments, c, job.plain, job.plain)]
        BY <3>1 DEF Publish, Become
      <4>2. PICK open : open = job.plain
        OBVIOUS
      <4>3. worker' = [worker EXCEPT ![job.w] = Assigned(segments, c, open, open)] /\ (open => job.plain)
        BY <4>1, <4>2
      <4> QED BY <3>1, <4>1, <4>3
    <3>2. CASE job.then = "fill"
      <4>1. /\ job' = NoJob /\ co' = "fill"
            /\ worker' = [worker EXCEPT ![job.w] = Assigned(segments, c, FALSE, FALSE)]
        BY <3>2 DEF Publish, Become
      <4> QED BY <3>2, <4>1
    <3>3. CASE job.then = "idle"
      BY <3>3 DEF Publish
    <3> QED BY <1>8, <3>1, <3>2, <3>3
  <2>2. ASSUME NEW v \in Workers, worker'[v] # worker[v]
        PROVE  /\ job.then \in {"send", "fill"} /\ v = job.w
               /\ worker'[v].pc = "connect" /\ worker'[v].seg = c /\ worker'[v].base = segments[c].start
               /\ worker'[v].open => job.plain
    <3>1. PICK open : /\ job.then \in {"send", "fill"}
                      /\ worker' = [worker EXCEPT ![job.w] = Assigned(segments, c, open, open)]
                      /\ (open => job.plain)
      BY <2>1, <2>2
    <3>2. v = job.w /\ worker'[v] = Assigned(segments, c, open, open)
      BY <1>2, <2>2, <3>1
    <3> QED BY <3>1, <3>2, AssignedAt, AssignedOpen
  <2>3. job.then \in {"send", "fill"} =>
          job.w \in Alive' \ {NoSeg} /\ worker'[job.w].pc = "connect" /\ worker'[job.w].seg = c
    <3>1. ASSUME job.then \in {"send", "fill"}
          PROVE  job.w \in Workers /\ worker'[job.w].pc = "connect" /\ worker'[job.w].seg = c
      <4>1. PICK open : worker' = [worker EXCEPT ![job.w] = Assigned(segments, c, open, open)]
        BY <2>1, <3>1
      <4> QED BY <1>2, <1>4, <3>1, <4>1, AssignedAt
    <3> QED BY <1>2, <3>1 DEF Alive
  <2>4. Alive \subseteq Alive'
    BY <2>2 DEF Alive
  <2>5. ASSUME NEW i \in In(segments', "Active") PROVE HeldByOther(i)'
    <3>0. i \in In(segments, "Active")
      BY <1>1, <2>5 DEF In
    <3>1. HeldByOther(i) \/ (i = c /\ job.then \in {"send", "fill"})
      <4>1. HeldByOther(i) \/ Answered(i)
        BY <1>2, <3>0 DEF Owned
      <4>2. ~Redispatching
        BY <1>1, <1>8 DEF Redispatching
      <4> QED BY <4>1, <4>2 DEF Answered
    <3>2. CASE HeldByOther(i)
      <4>1. PICK w \in Alive \ {job.w} : worker[w].seg = i
        BY <3>2 DEF HeldByOther
      <4>2. w \in Workers /\ worker'[w] = worker[w]
        BY <2>2, <4>1 DEF Alive
      <4> QED BY <1>2, <1>6, <2>1, <2>4, <4>1, <4>2 DEF HeldByOther
    <3>3. CASE i = c /\ job.then \in {"send", "fill"}
      BY <1>6, <2>1, <2>3, <3>3 DEF HeldByOther
    <3> QED BY <3>1, <3>2, <3>3
  <2>6. Owned'
    BY <2>5 DEF Owned
  <2>7. Staffed'
    <3>1. Alive' # {} \/ all_done(segments)'
      BY <1>1, <1>2, <2>4 DEF Staffed, all_done, In
    <3>2. ~cancelled' => \A w \in Workers : worker'[w].pc # "dead"
      BY <1>1, <1>2, <2>2 DEF Staffed
    <3> QED BY <3>1, <3>2 DEF Staffed
  <2>8. ASSUME Bare PROVE Bare'
    <3>1. ASSUME NEW v \in Busy' PROVE FirstOnly(worker[v])'
      <4>1. v \in Workers /\ worker'[v].pc \in BusyPcs
        BY <3>1, BusyIsNext
      <4>2. CASE worker'[v] = worker[v]
        <5>1. FirstOnly(worker[v])
          BY <2>8, <4>1, <4>2, BusyIs DEF Bare
        <5> QED BY <1>1, <1>3, <4>2, <5>1 DEF FirstOnly
      <4>3. CASE worker'[v] # worker[v]
        <5>1. worker'[v].open => c = 0 /\ Fresh
          BY <1>5, <2>2, <2>8, <4>1, <4>3 DEF Bare
        <5> QED BY <1>2, <1>3, <2>2, <4>1, <4>3, <5>1 DEF FirstOnly
      <4> QED BY <4>2, <4>3
    <3>2. ASSUME NEW k, IsReport(k)' PROVE ReportsFresh(events[k])'
      <4>1. ReportsFresh(events[k])
        BY <1>1, <2>8, <3>2 DEF Bare, IsReport
      <4> QED BY <1>1, <1>3, <4>1 DEF ReportsFresh
    <3>3. ~Redispatching'
      BY <1>5, <2>1 DEF Redispatching
    <3> QED BY <1>5, <3>1, <3>2, <3>3 DEF Bare
  <2> QED BY <1>1, <1>2, <2>1, <2>6, <2>7, <2>8, LoopWhole DEF Closed
<1> QED BY <1>4, <1>7, <1>8

(* What the open stream takes over lies behind it: never the first segment. *)
LEMMA FirstStays ==
  ASSUME Whole, IInv, co \in {"merge", "merged"}
  PROVE  /\ 0 \notin Absorbed(segments, openSeg) /\ Absorbed(segments, openSeg) # {}
         /\ Absorbed(segments, openSeg) \subseteq In(segments, "Pending")
         /\ \/ job.then = "idle" /\ job = NoJob
            \/ job.then = "retire"
<1>1. /\ validate_coverage(segments, total) /\ total \in Nat \ {0} /\ Ranges(segments)
      /\ PlanType(segments, nextIndex) /\ Absorbed(segments, openSeg) # {}
      /\ 0 \in DOMAIN segments /\ segments[0].start = 0
      /\ (job.then = "idle" /\ job = NoJob) \/ job.then = "retire"
  BY TypeParts, RowsRanges, FileAssumption DEF IInv, PlanCovers, TypePlan, JobInv, Whole, FirstIn
<1>2. PICK o : o = openSeg
  OBVIOUS
<1>3. /\ o \in In(segments, "Active") /\ Absorbed(segments, o) \subseteq In(segments, "Pending")
      /\ \A a \in Absorbed(segments, o) : segments[o].end < segments[a].start
  BY <1>1, <1>2, AbsorbedFacts
<1>4. 0 <= segments[o].end /\ segments[o].end \in Int
  BY <1>1, <1>3 DEF In, validate_coverage, Ranges
<1>5. 0 \notin Absorbed(segments, o)
  BY <1>1, <1>3, <1>4
<1> QED BY <1>1, <1>2, <1>3, <1>5

LEMMA MergeRowsWhole ==
  ASSUME Whole, IInv, MergeRows PROVE Whole'
<1>1. /\ co = "merge" /\ co' \in {"merged", "idle", "retire"}
      /\ rows' = rows \/ rows' = Merge(segments, rows, openSeg)
      /\ UNCHANGED <<segments, segStates, worker, events, verdict, cancelled, result>>
  BY FirstStays DEF MergeRows, planVars, netVars, endVars
<1>2. job' = job
  BY <1>1, FirstStays DEF MergeRows, NoJob
<1>3. /\ Looped /\ Looped' /\ 0 \in DOMAIN segments /\ segments[0].start = 0
      /\ 0 \in DOMAIN rows /\ rows[0].start = 0 /\ rows[0] \in RowRec
  BY <1>1 DEF Whole, FirstIn, Looped, IInv, TypeOK, RowRec
<1>4. 0 \in DOMAIN rows' /\ rows'[0].start = 0 /\ rows'[0].dl = rows[0].dl
  <2>1. CASE rows' = rows
    BY <1>3, <2>1
  <2>2. CASE rows' = Merge(segments, rows, openSeg)
    <3>1. 0 \in DOMAIN rows \ Absorbed(segments, openSeg)
      BY <1>1, <1>3, FirstStays
    <3>2. /\ 0 \in DOMAIN rows'
          /\ rows'[0] = rows[0] \/ \E e : rows'[0] = [rows[0] EXCEPT !.end = e]
      BY <2>2, <3>1 DEF Merge
    <3> QED BY <1>3, <3>2 DEF RowRec
  <2> QED BY <1>1, <2>1, <2>2
<1>5. FirstIn'
  BY <1>1, <1>3, <1>4 DEF FirstIn
<1>6. Busy' = Busy /\ Alive' = Alive /\ (Fresh <=> Fresh') /\ (\A k : IsReport(k)' <=> IsReport(k))
      /\ ~Giving /\ ~Giving' /\ ~Redispatching /\ ~Redispatching'
  BY <1>1 DEF Busy, Alive, Fresh, IsReport, Redispatching, Giving
<1>7. Bare => Bare'
  <2>1. ASSUME Bare, NEW v \in Busy' PROVE FirstOnly(worker[v])'
    <3>1. FirstOnly(worker[v])
      BY <1>6, <2>1 DEF Bare
    <3> QED BY <1>1, <1>4, <1>6, <3>1 DEF FirstOnly
  <2>2. ASSUME Bare, NEW k, IsReport(k)' PROVE ReportsFresh(events[k])'
    <3>1. ReportsFresh(events[k])
      BY <1>6, <2>2 DEF Bare
    <3> QED BY <1>1, <1>6, <3>1 DEF ReportsFresh
  <2> QED BY <1>6, <2>1, <2>2 DEF Bare
<1>8. Manned'
  <2>1. Owned /\ Staffed /\ (verdict = "yes" \/ Bare)
    BY <1>3 DEF Whole, Manned
  <2>2. \A i : (HeldByOther(i) <=> HeldByOther(i)') /\ ~Answered(i)
    BY <1>1, <1>2, <1>6 DEF HeldByOther, Answered
  <2>3. Owned'
    BY <1>1, <2>1, <2>2 DEF Owned, In
  <2>4. Staffed'
    BY <1>1, <1>6, <2>1 DEF Staffed, all_done, In
  <2> QED BY <1>1, <1>7, <2>1, <2>3, <2>4 DEF Manned
<1>9. Closed' /\ Ended'
  BY <1>1, <1>3 DEF Whole, Closed, Ended, Looped
<1> QED BY <1>5, <1>8, <1>9 DEF Whole

LEMMA MergeSegmentsWhole ==
  ASSUME Whole, IInv, MergeSegments PROVE Whole'
<1>1. PICK S : S = Merge(segments, segments, openSeg)
  OBVIOUS
<1>2. /\ co = "merged" /\ segments' = S /\ segStates' = rebuild_seg_states(S) /\ co' \in {"idle", "retire"}
      /\ UNCHANGED <<rows, worker, events, verdict, cancelled, result>> /\ job' = job
      /\ Looped /\ Looped'
  BY <1>1, FirstStays DEF MergeSegments, fileVars, netVars, endVars, Looped, NoJob
<1>3. /\ validate_coverage(segments, total) /\ total \in 1 .. FileSize /\ nextIndex \in Nat
      /\ PlanType(segments, nextIndex) /\ Absorbed(segments, openSeg) # {}
      /\ 0 \in DOMAIN segments \ Absorbed(segments, openSeg)
      /\ Absorbed(segments, openSeg) \subseteq In(segments, "Pending")
  BY <1>2, FirstStays, TypeParts DEF IInv, PlanCovers, TypePlan, Whole, FirstIn
<1>4. /\ In(S, "Active") = In(segments, "Active")
      /\ 0 \in DOMAIN S /\ S[0].start = segments[0].start /\ S[0].dl = segments[0].dl
  <2>1. LET T == Merge(segments, segments, openSeg)
        IN  /\ In(T, "Active") = In(segments, "Active")
            /\ DOMAIN T = DOMAIN segments \ Absorbed(segments, openSeg)
            /\ \A i \in DOMAIN T : T[i].dl = segments[i].dl /\ T[i].start = segments[i].start
    BY <1>3, MergePlan, ZenonT(30)
  <2> QED BY <1>1, <1>3, <2>1
<1>5. Owned /\ Staffed /\ ~all_done(segments)
  <2>1. ~all_done(segments)
    BY <1>3 DEF all_done, In
  <2> QED BY <1>2, <2>1 DEF Whole, Manned
<1>6. Busy' = Busy /\ Alive' = Alive /\ ~Giving /\ ~Giving' /\ ~Redispatching /\ ~Redispatching'
  BY <1>2 DEF Busy, Alive, Redispatching, Giving
<1>7. Owned'
  <2>1. \A i \in In(segments, "Active") : HeldByOther(i)
    BY <1>5, <1>6 DEF Owned, Answered
  <2>2. \A i : HeldByOther(i) => HeldByOther(i)'
    BY <1>2, <1>6 DEF HeldByOther
  <2>3. \A i \in In(segments', "Active") : HeldByOther(i)'
    BY <1>2, <1>4, <2>1, <2>2
  <2> QED BY <2>3 DEF Owned
<1>8. Staffed'
  BY <1>2, <1>5, <1>6 DEF Staffed
<1>9. Fresh => Fresh'
  <2>1. 0 \in DOMAIN segStates' /\ segStates'[0].dl = IF 0 \in DOMAIN segStates THEN segStates[0].dl ELSE S[0].dl
    BY <1>2, <1>4 DEF rebuild_seg_states
  <2> QED BY <1>2, <1>4, <2>1 DEF Fresh
<1>10. ASSUME Bare PROVE Bare'
  <2>1. ASSUME NEW v \in Busy' PROVE FirstOnly(worker[v])'
    <3>1. FirstOnly(worker[v])
      BY <1>6, <1>10, <2>1 DEF Bare
    <3> QED BY <1>2, <1>9, <3>1 DEF FirstOnly
  <2>2. ASSUME NEW k, IsReport(k)' PROVE ReportsFresh(events[k])'
    <3>1. ReportsFresh(events[k])
      BY <1>2, <1>10, <2>2 DEF Bare, IsReport
    <3> QED BY <1>2, <1>9, <3>1 DEF ReportsFresh
  <2> QED BY <1>6, <2>1, <2>2 DEF Bare
<1> QED BY <1>2, <1>4, <1>7, <1>8, <1>10, LoopWhole DEF Closed

-----------------------------------------------------------------------------
(* Sessions *)

(* A download that ends well was left with everything complete. *)
LEMMA EndWhole ==
  ASSUME Whole, Truth, IInv, Finish \/ Crash PROVE Whole'
<1>1. Blank /\ UNCHANGED total
  BY DEF Finish, Crash
<1>2. co' = "down"
  BY <1>1 DEF Blank
<1>3. FirstIn'
  <2>1. CASE Crash
    BY <1>2, <2>1 DEF Crash, Whole, FirstIn
  <2>2. CASE Finish
    <3>1. PICK S : S = sync_downloaded_from_shared
      OBVIOUS
    <3>2. \/ rows' = rows
          \/ rows' = [i \in DOMAIN rows |->
                        IF i \in DOMAIN S THEN [rows[i] EXCEPT !.dl = S[i].dl] ELSE rows[i]]
      BY <2>2, <3>1 DEF Finish
    <3>3. DOMAIN rows # {} => 0 \in DOMAIN rows /\ rows[0].start = 0 /\ rows[0] \in RowRec
      BY DEF Whole, FirstIn, IInv, TypeOK, RowRec
    <3>4. DOMAIN rows' # {} => 0 \in DOMAIN rows' /\ rows'[0].start = 0
      BY <3>2, <3>3 DEF RowRec
    <3> QED BY <1>2, <3>4 DEF FirstIn
  <2> QED BY <2>1, <2>2
<1>4. Manned' /\ Closed'
  BY <1>2 DEF Manned, Closed, Looped
<1>5. Ended'
  <2>1. SUFFICES ASSUME result' = "ok" PROVE 0 .. total' - 1 \subseteq written'
    BY <1>2 DEF Ended
  <2>2. Finish
    BY <2>1 DEF Crash
  <2>3. co = "drain" /\ err = "none" /\ written' = written
    BY <2>1, <2>2 DEF Finish, IInv, TypeOK
  <2>4. all_done(segments) /\ validate_coverage(segments, total)
    BY <2>3 DEF Whole, Closed, IInv, PlanCovers
  <2>5. \A i \in DOMAIN segments : Bytes(segments[i]) \subseteq written
    BY <2>4 DEF all_done, In, Truth, PlanTrue, PartTrue, Open
  <2>6. \A b \in 0 .. total - 1 : b \in written
    BY <2>4, <2>5 DEF validate_coverage
  <2> QED BY <1>1, <2>3, <2>6
<1> QED BY <1>3, <1>4, <1>5 DEF Whole

(* Rows that are taken as they are, or fresh ones, begin with the first byte. *)
LEMMA StartFirst ==
  ASSUME Whole, TypeRows, Start, NEW t \in 1 .. FileSize, validate_coverage(rows', t)
  PROVE  0 \in DOMAIN rows' /\ rows'[0].start = 0
<1>1. DOMAIN rows' # {}
  <2>1. 0 \in 0 .. t - 1
    BY FileAssumption
  <2> QED BY <2>1 DEF validate_coverage
<1>2. CASE rows' = rows
  BY <1>1, <1>2 DEF Whole, FirstIn
<1>3. ASSUME NEW u \in 1 .. FileSize, NEW count \in 1 .. u, rows' = build_fresh_segments(count, u)
      PROVE  0 \in DOMAIN rows' /\ rows'[0].start = 0
  <2>1. u \in Nat /\ 0 \in 0 .. count - 1 /\ u \div count \in Nat
    BY FileAssumption, DivFact
  <2>2. PICK q \in Nat : q = u \div count
    BY <2>1
  <2>3. 0 \in DOMAIN rows' /\ rows'[0].start = 0 * q
    BY <1>3, <2>1, <2>2 DEF build_fresh_segments
  <2> QED BY <2>3
<1> QED BY <1>2, <1>3, StartRows

(* Only one segment of a plan that begins with the first byte asks for it. *)
LEMMA ZeroFirst ==
  ASSUME NEW S, NEW n \in Nat, PlanType(S, n), NEW t \in Int, validate_coverage(S, t), 0 \in DOMAIN S, S[0].start = 0,
         NEW i \in DOMAIN S, AtZero(S[i])
  PROVE  i = 0 /\ S[i].start = 0 /\ S[i].dl = 0
<1>1. /\ S[i].start \in Nat /\ S[i].dl \in Nat /\ S[i].end \in Nat /\ S[0].end \in Nat
  BY DEF PlanType, Segment
<1>2. S[i].start = 0 /\ S[i].dl = 0
  BY <1>1 DEF AtZero
<1>3. i # 0 => S[i].end < S[0].start \/ S[0].end < S[i].start
  BY DEF validate_coverage
<1> QED BY <1>1, <1>2, <1>3

LEMMA StartWhole ==
  ASSUME Whole, IInv, Start PROVE Whole'
<1>0. TypeRows
  BY TypeParts DEF IInv
<1>1. /\ co = "down" /\ UNCHANGED <<job, events>> /\ result' = "none"
      /\ \E R, given : \E t \in 1 .. FileSize, n \in 1 .. WorkerCap, estimate \in BOOLEAN :
           \E m \in 1 .. n :
             /\ given \in FirstOf(In(LiveSegments(R), "Pending"), m)
             /\ RowsType(R) /\ validate_coverage(R, t)
             /\ Launch(R, t, n, given, CHOOSE h \in Injection(given, Workers) : TRUE, estimate)
  BY <1>0, StartPlans
<1>2. PICK R, given : \E t \in 1 .. FileSize, n \in 1 .. WorkerCap, estimate \in BOOLEAN :
        \E m \in 1 .. n :
          /\ given \in FirstOf(In(LiveSegments(R), "Pending"), m)
          /\ RowsType(R) /\ validate_coverage(R, t)
          /\ Launch(R, t, n, given, CHOOSE h \in Injection(given, Workers) : TRUE, estimate)
  BY <1>1
<1>3. PICK t \in 1 .. FileSize, n \in 1 .. WorkerCap, estimate \in BOOLEAN : \E m \in 1 .. n :
        /\ given \in FirstOf(In(LiveSegments(R), "Pending"), m)
        /\ RowsType(R) /\ validate_coverage(R, t)
        /\ Launch(R, t, n, given, CHOOSE h \in Injection(given, Workers) : TRUE, estimate)
  BY <1>2
<1>4. PICK m \in 1 .. n :
        /\ given \in FirstOf(In(LiveSegments(R), "Pending"), m)
        /\ RowsType(R) /\ validate_coverage(R, t)
        /\ Launch(R, t, n, given, CHOOSE h \in Injection(given, Workers) : TRUE, estimate)
  BY <1>3
<1>5. PICK S : S = LiveSegments(R)
  OBVIOUS
<1>6. PICK k \in Nat : k = Max(DOMAIN S) + 1
  BY <1>4, <1>5, LivePlan
<1>7. /\ PlanType(S, k) /\ IsFiniteSet(DOMAIN S) /\ validate_coverage(S, t) /\ t \in Int
      /\ DOMAIN S = DOMAIN R /\ given \subseteq In(S, "Pending") /\ given \subseteq DOMAIN S
      /\ In(S, "Active") = {}
  BY <1>4, <1>5, <1>6, LivePlan, FileAssumption DEF FirstOf, In
<1>8. PICK holder : holder = CHOOSE h \in Injection(given, Workers) : TRUE
  OBVIOUS
<1>9. IsFiniteSet(In(S, "Pending")) /\ IsFiniteSet(given)
  <2>1. IsFiniteSet(In(S, "Pending"))
    BY <1>7, FS_Subset DEF In
  <2> QED BY <2>1, <1>7, FS_Subset
<1>10. holder \in Injection(given, Workers)
  <2>1. m \in Nat /\ m <= WorkerCap
    BY CountAssumption
  <2>2. Injection(given, Workers) # {}
    BY <2>1, <1>9, <1>4, <1>5, HolderExists
  <2> QED BY <2>2, <1>8
<1>11. /\ rows' = R /\ co' = IF all_done(S) THEN "drain" ELSE "idle"
       /\ segments' = [i \in DOMAIN S |-> IF i \in given THEN [S[i] EXCEPT !.state = "Active"] ELSE S[i]]
       /\ segStates' = [i \in DOMAIN S |-> [end |-> S[i].end, dl |-> S[i].dl]]
       /\ worker' = [w \in Workers |->
             IF \E i \in given : holder[i] = w
             THEN LET i == CHOOSE j \in given : holder[j] = w
                  IN  Assigned(S, i, AtZero(S[i]), estimate /\ AtZero(S[i]))
             ELSE Off]
  BY <1>4, <1>5, <1>6, <1>8 DEF Launch
<1>12. /\ 0 \in DOMAIN S /\ 0 \in DOMAIN R /\ S[0].start = 0 /\ R[0].start = 0
  <2>1. 0 \in DOMAIN R /\ R[0].start = 0
    BY <1>0, <1>4, <1>11, StartFirst
  <2> QED BY <1>5, <1>7, <2>1 DEF LiveSegments, LiveSegment
<1>13. \A i \in DOMAIN S :
          /\ i \notin given => segments'[i] = S[i]
          /\ i \in given => segments'[i] = [S[i] EXCEPT !.state = "Active"]
          /\ segments'[i].start = S[i].start /\ segments'[i].dl = S[i].dl
  BY <1>7, <1>11 DEF PlanType, Segment
<1>14. DOMAIN segments' = DOMAIN S /\ DOMAIN segStates' = DOMAIN S
  BY <1>11
<1>15. FirstIn'
  BY <1>11, <1>12, <1>13, <1>14 DEF FirstIn
<1>16. job' = NoJob /\ events' = <<>> /\ NoSeg \notin Workers /\ NoJob.w = NoSeg /\ ~NoJob.plain
  BY <1>1, WorkerAssumption DEF IInv, JobInv, Handling, Shared, NoJob
<1>17. ASSUME NEW w \in Workers
       PROVE  \/ worker'[w] = Off
              \/ \E i \in given : holder[i] = w /\ worker'[w] = Assigned(S, i, AtZero(S[i]), estimate /\ AtZero(S[i]))
  <2>1. CASE \E i \in given : holder[i] = w
    <3>1. PICK i : i = CHOOSE j \in given : holder[j] = w
      OBVIOUS
    <3>2. i \in given /\ holder[i] = w
      BY <2>1, <3>1
    <3>3. worker'[w] = Assigned(S, i, AtZero(S[i]), estimate /\ AtZero(S[i]))
      BY <1>11, <2>1, <3>1
    <3> QED BY <3>2, <3>3
  <2>2. CASE ~\E i \in given : holder[i] = w
    BY <1>11, <2>2
  <2> QED BY <2>1, <2>2
<1>18. ASSUME NEW i \in given
       PROVE  holder[i] \in Alive' \ {job'.w} /\ worker'[holder[i]].seg = i
  <2>1. holder \in [given -> Workers] /\ \A a, b \in given : holder[a] = holder[b] => a = b
    BY <1>10 DEF Injection, IsInjective
  <2>2. holder[i] \in Workers
    BY <2>1
  <2>3. worker'[holder[i]] = LET j == CHOOSE j \in given : holder[j] = holder[i]
                             IN  Assigned(S, j, AtZero(S[j]), estimate /\ AtZero(S[j]))
    BY <1>11, <2>2
  <2>4. PICK j : j = CHOOSE g \in given : holder[g] = holder[i]
    OBVIOUS
  <2>5. j = i
    BY <2>1, <2>4
  <2>6. worker'[holder[i]] = Assigned(S, i, AtZero(S[i]), estimate /\ AtZero(S[i]))
    BY <2>3, <2>4, <2>5
  <2>7. worker'[holder[i]].pc = "connect" /\ worker'[holder[i]].seg = i
    BY <2>6, AssignedAt
  <2> QED BY <1>16, <2>2, <2>7 DEF Alive
<1>19. Owned'
  <2>1. ASSUME NEW i \in In(segments', "Active") PROVE i \in given
    <3>1. i \in DOMAIN S
      BY <1>14, <2>1 DEF In
    <3>2. i \notin given => S[i].state = "Active"
      BY <1>13, <2>1, <3>1 DEF In
    <3> QED BY <1>7, <3>1, <3>2 DEF In
  <2> QED BY <1>18, <2>1 DEF Owned, HeldByOther
<1>20. given = {} => all_done(segments')
  <2>1. SUFFICES ASSUME given = {} PROVE all_done(segments')
    OBVIOUS
  <2>2. Cardinality(given) = 0
    BY <2>1, FS_EmptySet
  <2>3. 0 = Smaller(m, Cardinality(In(S, "Pending"))) /\ m \in Nat /\ m >= 1
    BY <1>4, <1>5, <2>2, CountAssumption DEF FirstOf
  <2>4. Cardinality(In(S, "Pending")) = 0
    BY <1>9, <2>3, FS_CardinalityType DEF Smaller
  <2>5. In(S, "Pending") = {}
    BY <1>9, <2>4, FS_EmptySet
  <2>6. all_done(S)
    BY <1>7, <2>5, NothingOpen
  <2> QED BY <1>13, <1>14, <2>1, <2>6 DEF all_done, In
<1>21. Staffed'
  <2>1. Alive' # {} \/ all_done(segments')
    BY <1>18, <1>20
  <2>2. ASSUME NEW w \in Workers PROVE worker'[w].pc # "dead"
    <3>1. CASE worker'[w] = Off
      BY <3>1, OffFacts
    <3>2. ASSUME NEW i \in given, worker'[w] = Assigned(S, i, AtZero(S[i]), estimate /\ AtZero(S[i]))
          PROVE  worker'[w].pc # "dead"
      BY <3>2, AssignedAt
    <3> QED BY <1>17, <3>1, <3>2
  <2>3. all_done(segments)' <=> all_done(segments')
    BY DEF all_done, In
  <2> QED BY <2>1, <2>2, <2>3 DEF Staffed
<1>22. Bare'
  <2>1. ASSUME NEW v \in Busy' PROVE FirstOnly(worker[v])'
    <3>1. v \in Workers /\ worker'[v].pc \in BusyPcs
      BY <2>1, BusyIsNext
    <3>0. worker'[v] # Off
      BY <3>1, OffFacts DEF BusyPcs
    <3>2. PICK i \in given : worker'[v] = Assigned(S, i, AtZero(S[i]), estimate /\ AtZero(S[i]))
      BY <1>17, <3>0, <3>1
    <3>3. /\ worker'[v].seg = i /\ worker'[v].base = S[i].start /\ worker'[v].open = AtZero(S[i])
      BY <3>2, AssignedAt, AssignedOpen
    <3>4. AtZero(S[i]) => i = 0 /\ S[i].start = 0 /\ S[i].dl = 0
      BY <1>7, <1>12, ZeroFirst
    <3>5. AtZero(S[i]) => Fresh'
      <4>1. SUFFICES ASSUME AtZero(S[i]) PROVE Fresh'
        OBVIOUS
      <4>2. segments'[0].dl = 0 /\ segStates'[0].dl = 0
        BY <1>11, <1>12, <1>13, <3>4, <4>1
      <4> QED BY <4>2 DEF Fresh
    <3> QED BY <3>3, <3>4, <3>5 DEF FirstOnly
  <2>3. \A l : ~IsReport(l)'
    BY <1>16 DEF IsReport
  <2>4. ~Redispatching' /\ ~Giving'
    BY <1>11 DEF Redispatching, Giving
  <2> QED BY <2>1, <2>3, <2>4 DEF Bare
<1>23. Manned'
  BY <1>19, <1>21, <1>22 DEF Manned
<1>24. Closed'
  <2>1. co' = "drain" => all_done(S)
    BY <1>11
  <2>2. all_done(S) => given = {}
    BY <1>7 DEF all_done, In
  <2>3. all_done(segments)' <=> all_done(segments')
    BY DEF all_done, In
  <2> QED BY <1>20, <2>1, <2>2, <2>3 DEF Closed
<1>25. Ended'
  BY <1>1 DEF Ended
<1> QED BY <1>15, <1>23, <1>24, <1>25 DEF Whole

LEMMA InitWhole ==
  ASSUME Init PROVE Whole
<1>1. co = "down" /\ rows = <<>> /\ result = "none"
  BY DEF Init
<1> QED BY <1>1 DEF Whole, FirstIn, Manned, Looped, Closed, Ended

LEMMA StepWhole ==
  ASSUME "write" \notin Faults, "panic" \notin Faults, Whole, Truth, IInv, [Next]_vars
  PROVE  Whole'
<1>1. CASE Start BY <1>1, StartWhole
<1>2. CASE Coordinator
  BY <1>2, HandleDoneWhole, AssignWhole, PersistWhole, PublishWhole, HandleLargerWhole, EventsWhole,
     RedispatchWhole, MergeRowsWhole, MergeSegmentsWhole, RetireRejectedWhole, FillWhole, EndWhole DEF Coordinator
<1>3. CASE ProactiveTick BY <1>3, ProactiveTickWhole
<1>4. CASE RampTick BY <1>4, RampTickWhole
<1>5. CASE Crash BY <1>5, EndWhole
<1>6. CASE \/ UserCancel \/ UNCHANGED vars
           \/ \E w \in Workers : Worker(w) \/ Trouble(w) \/ PeriodicFlush(w) \/ FlushTick(w)
  BY <1>6, WorkersWhole
<1> QED BY <1>1, <1>2, <1>3, <1>4, <1>5, <1>6 DEF Next

(* As long as no write fails and no worker's task panics, a segment that    *)
(* counts as complete has all its bytes in the file, and a download that    *)
(* reports success has written every byte of it: no split, merge, extension *)
(* or reassignment, no retired worker and no stream whose Range is not      *)
(* proved makes run_coordinated_download return Ok over a hole.  Its final  *)
(* check only adds up the counted bytes; what makes it right is that the    *)
(* loop is not left without an error before every segment is complete.      *)
THEOREM SuccessIsWhole ==
  ASSUME "write" \notin Faults, "panic" \notin Faults
  PROVE  Spec => []NoHole
<1>1. Init => Truth /\ Whole
  BY InitTruth, InitWhole
<1>2. Truth /\ Whole /\ IInv /\ [Next]_vars => Truth' /\ Whole'
  BY StepTruth, StepWhole
<1>3. Truth /\ Whole => NoHole
  <2>1. Truth => \A i \in DOMAIN segments :
                   segments[i].state = "Completed" => Bytes(segments[i]) \subseteq written
    BY DEF Truth, PlanTrue, PartTrue, Open
  <2>2. Whole => (result = "ok" => 0 .. total - 1 \subseteq written)
    BY DEF Whole, Ended
  <2> QED BY <2>1, <2>2 DEF NoHole
<1> QED BY Inductive, <1>1, <1>2, <1>3, PTL DEF Spec

=============================================================================

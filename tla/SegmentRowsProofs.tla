-------------------------- MODULE SegmentRowsProofs --------------------------
(***************************************************************************)
(* The rows a resume reads: their ranges, and what they call downloaded.   *)
(* The plan in memory and the rows change in different steps; what holds   *)
(* the two together, at every point where the process may die, is RowsFit. *)
(* Progress is counted in four places: by the workers, in seg_states, in   *)
(* the segments of the map and in the rows.  Truth says for each of them   *)
(* which of its bytes are in the file and which may still be in the buffer *)
(* of a worker.                                                            *)
(***************************************************************************)
EXTENDS SegmentCoordinatorProofs

-----------------------------------------------------------------------------
(* The invariant of the ranges *)

(* What the rows lack while a change of the plan is on its way to the       *)
(* database: the cut of a segment, or the tail of a larger file.            *)
CutMissing == Halved(rows, segments, job.parent, job.child, segments[job.child].start)
TailMissing == Extended(rows, segments, job.child, segments[job.child].start, total)

(* The rows have the ranges of the plan, but for a change that is being     *)
(* persisted and for a merge, which the rows see first.                     *)
RowsFit ==
    /\ co \notin {"down", "persist", "merged"} => Same(rows, segments)
    /\ co = "persist" => Same(rows, segments) \/ CutMissing \/ TailMissing
    /\ co = "merged" => Same(rows, Merge(segments, segments, openSeg))
    /\ co = "down" /\ DOMAIN rows # {} => \E t \in 1 .. FileSize : validate_coverage(rows, t)

LEMMA SameTrans ==
  ASSUME NEW R, NEW S, NEW T, Same(R, S), Same(S, T)
  PROVE  Same(R, T)
BY DEF Same, SameRange

LEMMA SameBack ==
  ASSUME NEW R, NEW S, Same(R, S)
  PROVE  Same(S, R)
BY DEF Same, SameRange

(* The rows of another map of the same ranges miss the same. *)
LEMMA HalvedSame ==
  ASSUME NEW R, NEW S, NEW T, NEW p, NEW c, NEW cut, Same(R, S), Halved(S, T, p, c, cut)
  PROVE  Halved(R, T, p, c, cut)
BY DEF Same, SameRange, Halved

LEMMA HalvedRows ==
  ASSUME NEW R, NEW S, NEW T, NEW p, NEW c, NEW cut, Same(R, S), Halved(S, T, p, c, cut)
  PROVE  Halved(R, T, p, c, T[c].start)
BY DEF Same, SameRange, Halved

LEMMA ExtendedRows ==
  ASSUME NEW R, NEW S, NEW T, NEW c, NEW t, NEW n, Same(R, S), Extended(S, T, c, t, n)
  PROVE  Extended(R, T, c, T[c].start, n)
BY DEF Same, SameRange, Extended

LEMMA MergePrime ==
  Merge(segments, segments, openSeg)' = Merge(segments', segments', openSeg')
BY DEF Merge, NewEnd, Absorbed, In, Bytes

LEMMA RowsRanges ==
  ASSUME TypeOK
  PROVE  Ranges(rows) /\ Ranges(segments)
<1>1. Ranges(rows)
  BY FileAssumption DEF TypeOK, Ranges
<1>2. Ranges(segments)
  BY TypeParts, PlanRanges DEF TypePlan
<1> QED BY <1>1, <1>2

(* Rows that fit cover the file, or there are none. *)
LEMMA FitCovers ==
  ASSUME IInv, RowsFit, DOMAIN rows # {}
  PROVE  \E t \in 1 .. FileSize : validate_coverage(rows, t)
<1>0. TypeOK /\ Ranges(rows) /\ Ranges(segments) /\ total \in 1 .. FileSize
  BY RowsRanges DEF IInv, TypeOK
<1>1. CASE co = "down"
  BY <1>1 DEF RowsFit
<1>2. CASE co # "down" /\ Same(rows, segments)
  <2>1. validate_coverage(rows, total)
    BY <1>0, <1>2, CoverSame DEF IInv, PlanCovers
  <2> QED BY <1>0, <2>1
<1>3. CASE co = "persist" /\ CutMissing
  <2>1. job.child \in DOMAIN segments
    BY <1>3 DEF IInv, JobInv
  <2>2. segments[job.child].start \in Int
    BY <1>0, <2>1 DEF Ranges
  <2>3. validate_coverage(rows, total)
    BY <1>0, <1>3, <2>2, CoverHalved DEF IInv, PlanCovers, CutMissing
  <2> QED BY <1>0, <2>3
<1>4. CASE co = "persist" /\ TailMissing
  <2>1. job.child \in DOMAIN segments
    BY <1>4 DEF IInv, JobInv
  <2>2. PICK t \in Int : t = segments[job.child].start
    BY <1>0, <2>1 DEF Ranges
  <2>3. Extended(rows, segments, job.child, t, total)
    BY <1>4, <2>2 DEF TailMissing
  <2>4. validate_coverage(rows, t)
    BY <1>0, <1>4, <2>3, CoverExtended DEF IInv, PlanCovers
  <2>5. t >= 0 /\ t < total
    BY <2>3 DEF Extended
  <2>6. t # 0
    <3>1. PICK i \in DOMAIN rows : TRUE
      OBVIOUS
    <3>2. 0 <= rows[i].start /\ rows[i].start <= rows[i].end /\ rows[i].end < t
      BY <2>4 DEF validate_coverage
    <3>3. rows[i].start \in Int /\ rows[i].end \in Int
      BY <1>0 DEF Ranges
    <3> QED BY <3>2, <3>3
  <2> QED BY <1>0, <2>2, <2>4, <2>5, <2>6, FileAssumption
<1>5. CASE co = "merged"
  <2>1. Absorbed(segments, openSeg) # {} /\ validate_coverage(segments, total)
    BY <1>5 DEF IInv, JobInv, PlanCovers
  <2>2. PlanType(segments, nextIndex) /\ nextIndex \in Nat
    BY <1>0, TypeParts DEF TypePlan
  <2>3. validate_coverage(Merge(segments, segments, openSeg), total)
    BY <1>0, <2>1, <2>2, MergePlan
  <2>4. validate_coverage(rows, total)
    BY <1>0, <1>5, <2>3, CoverSame DEF RowsFit
  <2> QED BY <1>0, <2>4
<1> QED BY <1>1, <1>2, <1>3, <1>4, <1>5 DEF RowsFit

-----------------------------------------------------------------------------
(* The steps *)

(* A step that leaves the ranges alone. *)
LEMMA FitKept ==
  ASSUME RowsFit, IInv, Same(rows', rows), UNCHANGED <<segments, total, co, job, openSeg>>
  PROVE  RowsFit'
<1>1. CASE co = "down"
  <2>1. DOMAIN rows' = DOMAIN rows
    BY DEF Same
  <2>2. ASSUME NEW t \in 1 .. FileSize, validate_coverage(rows, t) PROVE validate_coverage(rows', t)
    BY <2>2, CoverSame
  <2> QED BY <1>1, <2>1, <2>2 DEF RowsFit
<1>2. Same(rows, segments) => Same(rows', segments')
  BY SameTrans
<1>3. CASE co = "persist"
  <2>1. CutMissing => CutMissing'
    BY HalvedSame DEF CutMissing
  <2>2. TailMissing => TailMissing'
    BY ExtendedRows DEF TailMissing
  <2> QED BY <1>2, <1>3, <2>1, <2>2 DEF RowsFit
<1>4. CASE co = "merged"
  <2>1. Same(rows', Merge(segments, segments, openSeg))
    BY <1>4, SameTrans DEF RowsFit
  <2> QED BY <1>4, <2>1, MergePrime DEF RowsFit
<1>5. CASE co \notin {"down", "persist", "merged"}
  BY <1>2, <1>5 DEF RowsFit
<1> QED BY <1>1, <1>3, <1>4, <1>5

(* A step in which neither rows nor plan change a range. *)
LEMMA FitSame ==
  ASSUME RowsFit, co \notin {"down", "persist", "merged"}, co' \notin {"down", "persist", "merged"},
         Same(segments', segments), UNCHANGED rows
  PROVE  RowsFit'
<1>1. Same(rows, segments)
  BY DEF RowsFit
<1>2. Same(rows', segments')
  BY <1>1, SameBack, SameTrans
<1> QED BY <1>2 DEF RowsFit

(* The work found: a pending segment keeps its range, a cut is not yet in   *)
(* the rows.                                                                *)
LEMMA FitDispatch ==
  ASSUME RowsFit, IInv, co \notin {"down", "drain", "persist", "merged"},
         NEW S, PlanType(S, nextIndex), Same(S, segments),
         NEW nw, NEW state \in {"Pending", "Active"}, Picked(S, nw) \/ Cut(S, nw, state),
         NEW w, NEW then, NEW plain, Dispatch(w, nw, then, plain), UNCHANGED rows
  PROVE  RowsFit'
<1>1. Same(rows, S)
  BY SameBack, SameTrans DEF RowsFit
<1>2. nextIndex \in Nat
  BY DEF IInv, TypeOK
<1>3. co' = "persist" /\ segments' = nw.segs
  BY DEF Dispatch
<1>4. CASE Picked(S, nw)
  <2>1. Same(nw.segs, S)
    BY <1>2, <1>4, PickedPlan
  <2>2. Same(rows', segments')
    BY <1>1, <1>3, <2>1, SameBack, SameTrans
  <2> QED BY <1>3, <2>2 DEF RowsFit
<1>5. CASE Cut(S, nw, state)
  <2>1. PICK cut \in Nat : CutAt(S, nw, state, cut)
    BY <1>5 DEF Cut
  <2>2. Halved(S, nw.segs, nw.parent, nw.child, cut)
    BY <1>2, <2>1, CutPlan
  <2>3. Halved(rows, nw.segs, nw.parent, nw.child, nw.segs[nw.child].start)
    BY <1>1, <2>2, HalvedRows
  <2>4. job'.child = nw.child /\ job'.parent = nw.parent
    BY DEF Dispatch, NoJob
  <2>5. CutMissing'
    BY <1>3, <2>3, <2>4 DEF CutMissing
  <2> QED BY <1>3, <2>5 DEF RowsFit
<1> QED BY <1>4, <1>5

(* A report that is short is a cut, too. *)
LEMMA HandleDoneFit ==
  ASSUME RowsFit, IInv, HandleDone PROVE RowsFit'
<1> DEFINE i == Head1.seg
           n == Head1.n
           s == segments[i]
<1>1. Take("done") /\ UNCHANGED rows /\ UNCHANGED total
  BY DEF HandleDone, fileVars
<1>2. co = "idle" /\ i \in DOMAIN segments /\ Head1 \in EventRec
  BY <1>1, TakeFacts DEF In
<1>3. Same(rows, segments)
  BY <1>2 DEF RowsFit
<1>4. PlanType(segments, nextIndex) /\ nextIndex \in Nat
  BY TypeParts DEF IInv, TypePlan
<1>5. s \in Segment /\ nextIndex \notin DOMAIN segments /\ i # nextIndex /\ n \in Nat
  BY <1>2, <1>4, ReporterType DEF PlanType
<1>6. CASE Shortfall(s, n)
  <2>1. PICK r : r = [start |-> s.start, end |-> s.start + n - 1, dl |-> n, state |-> "Completed"]
    OBVIOUS
  <2>2. PICK c : c = [start |-> s.start + n, end |-> s.end, dl |-> 0, state |-> "Pending"]
    OBVIOUS
  <2>3. /\ segments' = With([segments EXCEPT ![i] = r], nextIndex, c)
        /\ job' = [Reporter EXCEPT !.child = nextIndex, !.parent = i, !.then = "assign"]
        /\ co' = "persist"
    BY <1>6, <2>1, <2>2 DEF HandleDone
  <2>4. /\ DOMAIN segments' = DOMAIN segments \cup {nextIndex}
        /\ segments'[i] = r /\ segments'[nextIndex] = c
        /\ \A j \in DOMAIN segments : j # i => segments'[j] = segments[j]
    BY <1>2, <1>5, <2>3 DEF With
  <2>5. s.start < s.start + n /\ s.start + n <= s.end
    BY <1>5, <1>6 DEF Shortfall, size, Larger, Segment
  <2>6. Halved(segments, segments', i, nextIndex, segments'[nextIndex].start)
    <3>1. PICK cut : cut = s.start + n
      OBVIOUS
    <3>2. s.start < cut /\ cut <= s.end
      BY <2>5, <3>1
    <3>3. r.start = s.start /\ r.end = cut - 1 /\ c.start = cut /\ c.end = s.end
      BY <1>5, <2>1, <2>2, <3>1 DEF Segment
    <3>4. Halved(segments, segments', i, nextIndex, cut)
      BY <1>2, <1>5, <2>4, <3>2, <3>3 DEF Halved, SameRange
    <3> QED BY <2>4, <3>3, <3>4
  <2>7. Halved(rows, segments', i, nextIndex, segments'[nextIndex].start)
    BY <1>3, <2>6, HalvedSame
  <2>8. job'.child = nextIndex /\ job'.parent = i
    BY <2>3 DEF Reporter, NoJob
  <2>9. CutMissing'
    BY <1>1, <2>7, <2>8 DEF CutMissing
  <2> QED BY <2>3, <2>9 DEF RowsFit
<1>7. CASE ~Shortfall(s, n)
  <2>1. PICK r : r = [s EXCEPT !.dl = Smaller(n, size(s)), !.state = "Completed"]
    OBVIOUS
  <2>2. segments' = [segments EXCEPT ![i] = r] /\ co' = "assign"
    BY <1>7, <2>1 DEF HandleDone
  <2>3. SameRange(r, s)
    BY <1>5, <2>1 DEF Segment, SameRange
  <2>4. Same(segments', segments)
    BY <1>2, <2>2, <2>3 DEF Same, SameRange
  <2> QED BY <1>1, <1>2, <2>2, <2>4, FitSame
<1> QED BY <1>6, <1>7

(* The tail of a larger file is not yet in the rows. *)
LEMMA HandleLargerFit ==
  ASSUME RowsFit, IInv, HandleLarger PROVE RowsFit'
<1> DEFINE i == Head1.seg
           n == Head1.n
<1>1. Take("larger") /\ UNCHANGED rows
  BY DEF HandleLarger, fileVars
<1>2. /\ co = "idle" /\ Looped /\ i \in DOMAIN segments /\ Head1 \in EventRec
      /\ n \in 1 .. FileSize
  BY <1>1, TakeFacts, LargerSize DEF In
<1>3. Same(rows, segments)
  BY <1>2 DEF RowsFit
<1>4. TypePlan /\ validate_coverage(segments, total)
  BY <1>2, TypeParts DEF IInv, PlanCovers, Looped
<1>5. CASE /\ n > total
           /\ segments' = With(segments, nextIndex, TailSegment(n))
           /\ total' = n
           /\ job' = [Reporter EXCEPT !.child = nextIndex, !.then = "redispatch"]
           /\ co' = "persist"
  <2>1. Extended(segments, segments', nextIndex, total, n)
    BY <1>2, <1>4, <1>5, TailPlan
  <2>2. Extended(rows, segments', nextIndex, segments'[nextIndex].start, n)
    BY <1>3, <2>1, ExtendedRows
  <2>3. job'.child = nextIndex
    BY <1>5 DEF Reporter, NoJob
  <2>4. TailMissing'
    BY <1>1, <1>5, <2>2, <2>3 DEF TailMissing
  <2> QED BY <1>5, <2>4 DEF RowsFit
<1>6. CASE segments' = [segments EXCEPT ![i].state = "Pending"] /\ co' = "drain"
  <2>1. Same(segments', segments)
    BY <1>2, <1>4, <1>6, Restated DEF TypePlan
  <2> QED BY <1>1, <1>2, <1>6, <2>1, FitSame
<1>7. CASE segments' = segments /\ co' = "redispatch"
  BY <1>1, <1>2, <1>7, SameSelf, FitSame
<1>8. \/ /\ n > total
         /\ segments' = With(segments, nextIndex, TailSegment(n))
         /\ total' = n
         /\ job' = [Reporter EXCEPT !.child = nextIndex, !.then = "redispatch"]
         /\ co' = "persist"
      \/ segments' = [segments EXCEPT ![i].state = "Pending"] /\ co' = "drain"
      \/ segments' = segments /\ co' = "redispatch"
  BY DEF HandleLarger, Break, planVars
<1> QED BY <1>5, <1>6, <1>7, <1>8

(* The other events change states only. *)
LEMMA EventsFit ==
  ASSUME RowsFit, IInv, HandleNode \/ HandleRejection \/ HandleFatal \/ HandleVerdict
  PROVE  RowsFit'
<1> DEFINE i == Head1.seg
<1>1. PICK kind : Take(kind)
  BY DEF HandleNode, HandleRejection, HandleFatal, HandleVerdict
<1>2. co = "idle"
  BY <1>1, TakeFacts
<1>3. UNCHANGED rows
  BY DEF HandleNode, HandleRejection, HandleFatal, HandleVerdict, fileVars
<1>4. co' \in {"redispatch", "retire", "merge", "drain", "idle"}
  BY <1>2 DEF HandleNode, HandleRejection, HandleFatal, HandleVerdict, Absorb, Break
<1>5. segments' = segments \/ segments' = [segments EXCEPT ![i].state = "Pending"]
  BY DEF HandleNode, HandleRejection, HandleFatal, HandleVerdict, Absorb, planVars
<1>6. Same(segments', segments)
  <2>1. CASE segments' = segments
    BY <2>1, SameSelf
  <2>2. CASE segments' = [segments EXCEPT ![i].state = "Pending"]
    <3>1. PlanType(segments, nextIndex)
      BY TypeParts DEF IInv, TypePlan
    <3>2. CASE i \in DOMAIN segments
      BY <2>2, <3>1, <3>2, Restated
    <3>3. CASE i \notin DOMAIN segments
      BY <2>2, <3>3 DEF Same, SameRange
    <3> QED BY <3>2, <3>3
  <2> QED BY <1>5, <2>1, <2>2
<1> QED BY <1>2, <1>3, <1>4, <1>6, FitSame

(* The handlers that look for work. *)
LEMMA AssignFit ==
  ASSUME RowsFit, IInv, Assign PROVE RowsFit'
<1>1. PICK m \in MinSplits :
        LET S == sync_downloaded_from_shared
            nw == IF serial THEN SerialWork(S)
                  ELSE IF Cardinality(Alive) > allowed THEN NoWork(S)
                  ELSE find_next_work(S, m)
        IN  \/ nw.child # NoSeg /\ Dispatch(job.w, nw, "send", FALSE)
            \/ /\ nw.child = NoSeg /\ Retire(S)
               /\ IF all_done(S) THEN Break("none") ELSE co' = "idle" /\ job' = NoJob /\ UNCHANGED err
  BY DEF Assign
<1>2. PICK S : S = sync_downloaded_from_shared
  OBVIOUS
<1>3. PICK nw : nw = IF serial THEN SerialWork(S)
                     ELSE IF Cardinality(Alive) > allowed THEN NoWork(S)
                     ELSE find_next_work(S, m)
  OBVIOUS
<1>4. \/ nw.child # NoSeg /\ Dispatch(job.w, nw, "send", FALSE)
      \/ segments' = S /\ co' \in {"idle", "drain"}
  BY <1>1, <1>2, <1>3 DEF Retire, Break
<1>5. UNCHANGED rows /\ co = "assign" /\ Looped
  BY DEF Assign, fileVars, Looped
<1>6. /\ PlanType(S, nextIndex) /\ Same(S, segments)
      /\ nextIndex \in Nat /\ total \in Nat /\ validate_coverage(S, total)
  BY <1>2, <1>5, SyncReady
<1>7. Found(S, nw)
  BY <1>3, <1>6, WorkFacts
<1>8. CASE nw.child # NoSeg /\ Dispatch(job.w, nw, "send", FALSE)
  <2>1. Picked(S, nw) \/ Cut(S, nw, "Active")
    BY <1>7, <1>8 DEF Found, Nothing
  <2> QED BY <1>5, <1>6, <1>8, <2>1, FitDispatch
<1>9. CASE segments' = S /\ co' \in {"idle", "drain"}
  BY <1>5, <1>6, <1>9, FitSame
<1> QED BY <1>4, <1>8, <1>9

LEMMA RedispatchFit ==
  ASSUME RowsFit, IInv, Redispatch PROVE RowsFit'
<1>1. PICK S : S = [segments EXCEPT ![job.seg].state = "Pending"]
  OBVIOUS
<1>2. PICK m \in MinSplits :
        LET nw == IF ~range_ok THEN find_next_pending_only(S)
                  ELSE IF serial THEN SerialWork(S) ELSE find_next_work(S, m)
            plain == ~range_ok
            usable == nw.child # NoSeg
                      /\ (plain => S[nw.child].start + S[nw.child].dl = 0)
        IN  \/ usable /\ Dispatch(job.w, nw, "send", plain)
            \/ ~usable /\ Retire(S) /\ co' = "idle" /\ job' = NoJob /\ UNCHANGED err
  BY <1>1 DEF Redispatch
<1>3. PICK nw : nw = IF ~range_ok THEN find_next_pending_only(S)
                     ELSE IF serial THEN SerialWork(S) ELSE find_next_work(S, m)
  OBVIOUS
<1>4. \/ nw.child # NoSeg /\ Dispatch(job.w, nw, "send", ~range_ok)
      \/ segments' = S /\ co' = "idle"
  BY <1>2, <1>3 DEF Retire
<1>5. UNCHANGED rows /\ co = "redispatch" /\ Looped
  BY DEF Redispatch, fileVars, Looped
<1>6. /\ PlanType(segments, nextIndex) /\ nextIndex \in Nat /\ total \in Nat
      /\ validate_coverage(segments, total) /\ job.seg \in DOMAIN segments
  BY <1>5, TypeParts, FileAssumption DEF IInv, TypePlan, PlanCovers, JobInv, Kept, In
<1>7. PlanType(S, nextIndex) /\ Same(S, segments)
  BY <1>1, <1>6, Restated
<1>8. validate_coverage(S, total)
  BY <1>6, <1>7, CoverSame
<1>9. Found(S, nw)
  BY <1>3, <1>6, <1>7, <1>8, WorkFacts
<1>10. CASE nw.child # NoSeg /\ Dispatch(job.w, nw, "send", ~range_ok)
  <2>1. Picked(S, nw) \/ Cut(S, nw, "Active")
    BY <1>9, <1>10 DEF Found, Nothing
  <2> QED BY <1>5, <1>7, <1>10, <2>1, FitDispatch
<1>11. CASE segments' = S /\ co' = "idle"
  BY <1>5, <1>7, <1>11, FitSame
<1> QED BY <1>4, <1>10, <1>11

LEMMA ProactiveTickFit ==
  ASSUME RowsFit, IInv, ProactiveTick PROVE RowsFit'
<1>1. PICK m \in MinSplits :
        LET S == sync_downloaded_from_shared
            nw == IF In(S, "Pending") # {} THEN NoWork(S) ELSE SplitLargest(S, m, "Pending")
        IN  \/ nw.child # NoSeg /\ Dispatch(NoSeg, nw, "idle", FALSE)
            \/ nw.child = NoSeg /\ segments' = S /\ UNCHANGED <<nextIndex, co, job, worker, err>>
  BY DEF ProactiveTick
<1>2. PICK S : S = sync_downloaded_from_shared
  OBVIOUS
<1>3. PICK nw : nw = IF In(S, "Pending") # {} THEN NoWork(S) ELSE SplitLargest(S, m, "Pending")
  OBVIOUS
<1>4. UNCHANGED rows /\ co = "idle" /\ Looped
  BY DEF ProactiveTick, Quiet, Looping, fileVars, Looped
<1>5. \/ nw.child # NoSeg /\ Dispatch(NoSeg, nw, "idle", FALSE)
      \/ segments' = S /\ co' = "idle"
  BY <1>1, <1>2, <1>3, <1>4
<1>6. /\ PlanType(S, nextIndex) /\ Same(S, segments)
      /\ nextIndex \in Nat /\ total \in Nat /\ validate_coverage(S, total)
  BY <1>2, <1>4, SyncReady
<1>7. CASE nw.child # NoSeg /\ Dispatch(NoSeg, nw, "idle", FALSE)
  <2>1. Cut(S, nw, "Pending")
    BY <1>3, <1>6, <1>7, SplitFacts DEF Nothing, NoWork
  <2> QED BY <1>4, <1>6, <1>7, <2>1, FitDispatch
<1>8. CASE segments' = S /\ co' = "idle"
  BY <1>4, <1>6, <1>8, FitSame
<1> QED BY <1>5, <1>7, <1>8

LEMMA FillFit ==
  ASSUME RowsFit, IInv, Fill PROVE RowsFit'
<1>1. PICK S : S = sync_downloaded_from_shared
  OBVIOUS
<1>2. PICK m \in MinSplits :
        LET nw == IF MayGrow(S) THEN find_next_work(S, m) ELSE NoWork(segments)
        IN  \/ /\ nw.child # NoSeg
               /\ Dispatch(CHOOSE w \in Workers : w \notin Alive, nw, "fill", FALSE)
            \/ /\ nw.child = NoSeg
               /\ segments' = nw.segs
               /\ IF NobodyLeft(S) THEN Break("none")
                  ELSE co' = "idle" /\ job' = NoJob /\ UNCHANGED err
               /\ UNCHANGED <<nextIndex, worker>>
  BY <1>1 DEF Fill
<1>3. PICK nw : nw = IF MayGrow(S) THEN find_next_work(S, m) ELSE NoWork(segments)
  OBVIOUS
<1>4. \/ nw.child # NoSeg /\ Dispatch(CHOOSE w \in Workers : w \notin Alive, nw, "fill", FALSE)
      \/ nw.child = NoSeg /\ segments' = nw.segs /\ co' \in {"idle", "drain"}
  BY <1>2, <1>3 DEF Break
<1>5. UNCHANGED rows /\ co = "fill" /\ Looped
  BY DEF Fill, fileVars, Looped
<1>6. /\ PlanType(S, nextIndex) /\ Same(S, segments)
      /\ nextIndex \in Nat /\ total \in Nat /\ validate_coverage(S, total)
  BY <1>1, <1>5, SyncReady
<1>7. Found(S, nw) \/ nw = NoWork(segments)
  BY <1>3, <1>6, WorkFacts
<1>8. CASE nw.child # NoSeg /\ Dispatch(CHOOSE w \in Workers : w \notin Alive, nw, "fill", FALSE)
  <2>1. Picked(S, nw) \/ Cut(S, nw, "Active")
    BY <1>7, <1>8 DEF Found, Nothing, NoWork
  <2> QED BY <1>5, <1>6, <1>8, <2>1, FitDispatch
<1>9. CASE nw.child = NoSeg /\ segments' = nw.segs /\ co' \in {"idle", "drain"}
  <2>1. Same(nw.segs, segments)
    <3>1. CASE nw = NoWork(segments)
      BY <3>1, SameSelf DEF NoWork
    <3>2. CASE Found(S, nw)
      <4>1. Nothing(S, nw)
        <5>1. ~Picked(S, nw)
          BY <1>6, <1>9, PickedPlan
        <5>2. ASSUME Cut(S, nw, "Active") PROVE FALSE
          <6>1. nw.child = nextIndex
            BY <5>2 DEF Cut, CutAt
          <6> QED BY <1>6, <1>9, <6>1 DEF NoSeg
        <5> QED BY <3>2, <5>1, <5>2 DEF Found
      <4> QED BY <1>6, <4>1 DEF Nothing
    <3> QED BY <1>7, <3>1, <3>2
  <2> QED BY <1>5, <1>9, <2>1, FitSame
<1> QED BY <1>4, <1>8, <1>9

(* One transaction brings the rows up to the plan. *)
LEMMA PersistFit ==
  ASSUME "db" \notin Faults, RowsFit, IInv, Persist PROVE RowsFit'
<1> DEFINE c == job.child
           p == job.parent
<1>1. /\ co = "persist" /\ co' = "publish" /\ rows' = persist_segment_change
      /\ segments' = segments
  BY DEF Persist, Fault, planVars
<1>2. PICK R : R = With(rows, c, Row(segments[c]))
  OBVIOUS
<1>3. /\ DOMAIN R = DOMAIN rows \cup {c} /\ R[c] = Row(segments[c])
      /\ \A i \in DOMAIN rows : i # c => R[i] = rows[i]
  BY <1>2 DEF With
<1>4. SameRange(R[c], segments[c])
  BY <1>3 DEF Row, SameRange
<1>5. rows' = IF p \in DOMAIN rows THEN [R EXCEPT ![p].end = segments[p].end] ELSE R
  BY <1>1, <1>2 DEF persist_segment_change
<1>6. c \in DOMAIN segments
  BY <1>1 DEF IInv, JobInv
<1>7. DOMAIN rows' = DOMAIN R
  BY <1>5
<1>8. ASSUME NEW i \in DOMAIN R, i # p \/ p \notin DOMAIN rows PROVE rows'[i] = R[i]
  BY <1>5, <1>8
<1>9. ASSUME p \in DOMAIN rows, R[p].start = segments[p].start PROVE SameRange(rows'[p], segments[p])
  <2>1. rows'[p] = [R[p] EXCEPT !.end = segments[p].end]
    BY <1>3, <1>5, <1>9
  <2>2. p # c => R[p] \in RowRec
    BY <1>3, <1>9 DEF IInv, TypeOK, RowRec
  <2>3. R[p].start = rows'[p].start /\ rows'[p].end = segments[p].end
    BY <1>3, <2>1, <2>2 DEF Row, RowRec
  <2> QED BY <1>9, <2>3 DEF SameRange
<1>10. ASSUME NEW i \in DOMAIN R,
              i = c \/ rows[i].start = segments[i].start,
              i # c /\ i # p => SameRange(rows[i], segments[i]),
              i = p /\ i # c => p \in DOMAIN rows
       PROVE  SameRange(rows'[i], segments[i])
  <2>1. CASE i = p /\ p \in DOMAIN rows
    <3>1. R[p].start = segments[p].start
      BY <1>3, <1>4, <1>10, <2>1 DEF SameRange
    <3> QED BY <1>9, <2>1, <3>1
  <2>2. CASE ~(i = p /\ p \in DOMAIN rows)
    BY <1>3, <1>4, <1>8, <1>10, <2>2
  <2> QED BY <2>1, <2>2
<1> DEFINE Known == /\ DOMAIN rows \cup {c} = DOMAIN segments
                    /\ \A i \in DOMAIN rows : /\ rows[i].start = segments[i].start
                                              /\ i # p => SameRange(rows[i], segments[i])
<1>11. ASSUME Known PROVE Same(rows', segments')
  <2>1. ASSUME NEW i \in DOMAIN R PROVE SameRange(rows'[i], segments[i])
    <3>1. i \in DOMAIN rows \/ i = c
      BY <1>3
    <3>2. i = c \/ (rows[i].start = segments[i].start /\ (i # p => SameRange(rows[i], segments[i])))
      BY <1>11, <3>1
    <3> QED BY <1>10, <3>1, <3>2
  <2>2. DOMAIN rows' = DOMAIN segments'
    BY <1>1, <1>3, <1>7, <1>11
  <2> QED BY <1>1, <1>7, <2>1, <2>2 DEF Same
<1> HIDE DEF Known
<1>12. ASSUME Same(rows, segments) PROVE Known
  <2>1. DOMAIN rows \cup {c} = DOMAIN segments
    BY <1>6, <1>12 DEF Same
  <2>2. \A i \in DOMAIN rows : SameRange(rows[i], segments[i]) /\ rows[i].start = segments[i].start
    BY <1>12 DEF Same, SameRange
  <2> QED BY <2>1, <2>2 DEF Known
<1>13. ASSUME CutMissing PROVE Known
  <2>1. DOMAIN rows \cup {c} = DOMAIN segments
    BY <1>13 DEF CutMissing, Halved
  <2>2. \A i \in DOMAIN rows : i # p => SameRange(segments[i], rows[i])
    BY <1>13 DEF CutMissing, Halved
  <2>3. segments[p].start = rows[p].start
    BY <1>13 DEF CutMissing, Halved
  <2>4. \A i \in DOMAIN rows : /\ rows[i].start = segments[i].start
                               /\ i # p => SameRange(rows[i], segments[i])
    BY <2>2, <2>3 DEF SameRange
  <2> QED BY <2>1, <2>4 DEF Known
<1>14. ASSUME TailMissing PROVE Known
  <2>1. DOMAIN rows \cup {c} = DOMAIN segments
    BY <1>14 DEF TailMissing, Extended
  <2>2. \A i \in DOMAIN rows : SameRange(segments[i], rows[i])
    BY <1>14 DEF TailMissing, Extended
  <2>3. \A i \in DOMAIN rows : /\ rows[i].start = segments[i].start
                               /\ SameRange(rows[i], segments[i])
    BY <2>2 DEF SameRange
  <2> QED BY <2>1, <2>3 DEF Known
<1>15. Same(rows', segments')
  BY <1>1, <1>11, <1>12, <1>13, <1>14 DEF RowsFit
<1> QED BY <1>1, <1>15 DEF RowsFit

(* persist_merge, ... *)
LEMMA MergeRowsFit ==
  ASSUME "db" \notin Faults, RowsFit, IInv, MergeRows PROVE RowsFit'
<1>1. /\ co = "merge" /\ co' = "merged" /\ rows' = Merge(segments, rows, openSeg)
      /\ segments' = segments /\ openSeg' = openSeg
  BY DEF MergeRows, planVars, modeVars
<1>2. Same(rows, segments)
  BY <1>1 DEF RowsFit
<1>3. PICK e : e = NewEnd(segments, openSeg)
  OBVIOUS
<1>4. PICK M : M = Merge(segments, segments, openSeg)
  OBVIOUS
<1>5. /\ DOMAIN rows' = DOMAIN rows \ Absorbed(segments, openSeg)
      /\ \A i \in DOMAIN rows' : rows'[i] = IF i = openSeg THEN [rows[i] EXCEPT !.end = e] ELSE rows[i]
  BY <1>1, <1>3 DEF Merge
<1>6. /\ DOMAIN M = DOMAIN segments \ Absorbed(segments, openSeg)
      /\ \A i \in DOMAIN M : M[i] = IF i = openSeg THEN [segments[i] EXCEPT !.end = e] ELSE segments[i]
  BY <1>3, <1>4 DEF Merge
<1>7. DOMAIN rows' = DOMAIN M
  BY <1>2, <1>5, <1>6 DEF Same
<1>8. ASSUME NEW i \in DOMAIN rows' PROVE SameRange(rows'[i], M[i])
  <2>1. SameRange(rows[i], segments[i]) /\ i \in DOMAIN rows /\ i \in DOMAIN segments
    BY <1>2, <1>5, <1>6, <1>7 DEF Same
  <2>2. rows[i] \in RowRec /\ segments[i] \in Segment
    BY <2>1 DEF IInv, TypeOK, RowRec
  <2>3. CASE i = openSeg
    <3>1. rows'[i].start = rows[i].start /\ rows'[i].end = e
      BY <1>5, <2>2, <2>3 DEF RowRec
    <3>2. M[i].start = segments[i].start /\ M[i].end = e
      BY <1>6, <1>7, <2>2, <2>3 DEF Segment
    <3> QED BY <2>1, <3>1, <3>2 DEF SameRange
  <2>4. CASE i # openSeg
    BY <1>5, <1>6, <1>7, <2>1, <2>4
  <2> QED BY <2>3, <2>4
<1>9. Same(rows', M)
  BY <1>7, <1>8 DEF Same
<1>10. Merge(segments, segments, openSeg)' = M
  BY <1>1, <1>4, MergePrime
<1> QED BY <1>1, <1>9, <1>10 DEF RowsFit

(* ... and the merge in memory. *)
LEMMA MergeSegmentsFit ==
  ASSUME RowsFit, IInv, MergeSegments PROVE RowsFit'
<1>1. /\ co = "merged" /\ segments' = Merge(segments, segments, openSeg)
      /\ UNCHANGED rows /\ co' = job.then
  BY DEF MergeSegments, fileVars
<1>2. co' \in {"idle", "retire"}
  BY <1>1 DEF IInv, JobInv
<1> QED BY <1>1, <1>2 DEF RowsFit

(* The rest of the loop. *)
LEMMA LoopFit ==
  ASSUME RowsFit, IInv, Publish \/ RetireRejected \/ HandleCancel \/ RampTick
  PROVE  RowsFit'
<1>1. UNCHANGED segments /\ UNCHANGED rows
  BY DEF Publish, RetireRejected, HandleCancel, RampTick, planVars, fileVars
<1>2. co \in {"publish", "retire", "idle"}
  BY DEF Publish, RetireRejected, HandleCancel, RampTick, Quiet, Looping
<1>3. co' \in {"assign", "redispatch", "idle", "fill", "drain"}
  BY DEF Publish, RetireRejected, HandleCancel, RampTick, Break
<1> QED BY <1>1, <1>2, <1>3, SameSelf, FitSame

(* The end of a run, in order or not, leaves rows that cover the file. *)
LEMMA EndFit ==
  ASSUME RowsFit, IInv, Finish \/ Crash PROVE RowsFit'
<1>1. co' = "down"
  BY DEF Finish, Crash, Blank
<1>2. Same(rows', rows)
  <2>1. CASE rows' = rows
    BY <2>1, SameSelf
  <2>2. ASSUME NEW S,
               rows' = [i \in DOMAIN rows |->
                          IF i \in DOMAIN S THEN [rows[i] EXCEPT !.dl = S[i].dl] ELSE rows[i]]
        PROVE  Same(rows', rows)
    <3>1. DOMAIN rows' = DOMAIN rows
      BY <2>2
    <3>2. ASSUME NEW i \in DOMAIN rows PROVE SameRange(rows'[i], rows[i])
      <4>1. rows[i] \in RowRec
        BY DEF IInv, TypeOK, RowRec
      <4>2. rows'[i] = [rows[i] EXCEPT !.dl = S[i].dl] \/ rows'[i] = rows[i]
        BY <2>2
      <4> QED BY <4>1, <4>2 DEF RowRec, SameRange
    <3> QED BY <3>1, <3>2 DEF Same
  <2> QED BY <2>1, <2>2 DEF Finish, Crash
<1>3. ASSUME DOMAIN rows' # {} PROVE \E t \in 1 .. FileSize : validate_coverage(rows', t)
  <2>1. PICK t \in 1 .. FileSize : validate_coverage(rows, t)
    BY <1>2, <1>3, FitCovers DEF Same
  <2> QED BY <1>2, <2>1, CoverSame
<1> QED BY <1>1, <1>3 DEF RowsFit

(* A session begins with the rows its map is made of. *)
LEMMA StartFit ==
  ASSUME IInv, Start PROVE RowsFit'
<1>1. PICK R, given : \E t \in 1 .. FileSize, n \in 1 .. WorkerCap, estimate \in BOOLEAN :
        RowsType(R) /\ Launch(R, t, n, given, CHOOSE h \in Injection(given, Workers) : TRUE, estimate)
  BY StartPlans, TypeParts DEF IInv
<1>2. PICK S : S = LiveSegments(R)
  OBVIOUS
<1>3. /\ rows' = R /\ co' \in {"drain", "idle"}
      /\ segments' = [i \in DOMAIN S |-> IF i \in given THEN [S[i] EXCEPT !.state = "Active"] ELSE S[i]]
  BY <1>1, <1>2 DEF Launch
<1>4. DOMAIN S = DOMAIN R /\ \A i \in DOMAIN R : S[i] = LiveSegment(R[i])
  BY <1>2 DEF LiveSegments
<1>5. ASSUME NEW i \in DOMAIN R PROVE SameRange(R[i], segments'[i])
  <2>1. segments'[i] = S[i] \/ segments'[i] = [S[i] EXCEPT !.state = "Active"]
    BY <1>3, <1>4
  <2>2. S[i].start = R[i].start /\ S[i].end = R[i].end
        /\ [S[i] EXCEPT !.state = "Active"].start = R[i].start
        /\ [S[i] EXCEPT !.state = "Active"].end = R[i].end
    BY <1>4 DEF LiveSegment
  <2> QED BY <2>1, <2>2 DEF SameRange
<1>6. Same(rows', segments')
  BY <1>3, <1>4, <1>5 DEF Same
<1> QED BY <1>3, <1>6 DEF RowsFit

LEMMA WorkerIsStep ==
  ASSUME TypeOK, Shared, NEW w \in Workers, Worker(w)
  PROVE  WorkerStep(w) \/ Gone(w)
BY SkipSegmentStep, RespondStep, ReadChunkStep, WriteChunkStep, StreamEndStep, FinishSegmentStep,
   SaveDoneStep, RetryStep, WorkerExitStep DEF Worker

LEMMA TroubleIsStep ==
  ASSUME TypeOK, NEW w \in Workers, Trouble(w)
  PROVE  WorkerStep(w)
BY RejectedStep, TransientFullStep, UnusableStep, BrokenStep, NodeFailedStep, WriteErrorStep,
   PanicStep DEF Trouble

(* The workers and the cancel touch no range. *)
LEMMA WorkersFit ==
  ASSUME RowsFit, IInv,
         \/ UserCancel
         \/ \E w \in Workers : Worker(w) \/ Trouble(w) \/ PeriodicFlush(w) \/ FlushTick(w)
  PROVE  RowsFit'
<1>0. TypeOK /\ Shared
  BY DEF IInv
<1>1. CASE UserCancel
  <2>1. UNCHANGED <<segments, total, co, job, openSeg>> /\ rows' = rows
    BY <1>1 DEF UserCancel, planVars, modeVars, fileVars
  <2> QED BY <2>1, SameSelf, FitKept
<1>2. ASSUME NEW w \in Workers, Worker(w) \/ Trouble(w) \/ PeriodicFlush(w) \/ FlushTick(w)
      PROVE  RowsFit'
  <2>1. CASE WorkerStep(w)
    BY <2>1, FitKept DEF WorkerStep
  <2>2. CASE Gone(w)
    <3>1. UNCHANGED <<segments, total, co, job, openSeg>> /\ rows' = rows
      BY <2>2 DEF Gone
    <3> QED BY <3>1, SameSelf, FitKept
  <2>3. CASE FlushTick(w)
    BY <1>0, <2>3, FlushTickStep, FitKept
  <2>4. Worker(w) => WorkerStep(w) \/ Gone(w)
    BY <1>0, WorkerIsStep
  <2>5. Trouble(w) => WorkerStep(w)
    BY <1>0, TroubleIsStep
  <2>6. PeriodicFlush(w) => WorkerStep(w)
    BY <1>0, PeriodicFlushStep
  <2> QED BY <1>2, <2>1, <2>2, <2>3, <2>4, <2>5, <2>6
<1> QED BY <1>1, <1>2

-----------------------------------------------------------------------------
(* The theorem *)

LEMMA StepFit ==
  ASSUME "db" \notin Faults, RowsFit, IInv, [Next]_vars PROVE RowsFit'
<1>1. CASE Start BY <1>1, StartFit
<1>2. CASE Coordinator
  BY <1>2, HandleDoneFit, AssignFit, PersistFit, HandleLargerFit, EventsFit, RedispatchFit,
     MergeRowsFit, MergeSegmentsFit, LoopFit, FillFit, EndFit DEF Coordinator
<1>3. CASE ProactiveTick BY <1>3, ProactiveTickFit
<1>4. CASE RampTick BY <1>4, LoopFit
<1>5. CASE Crash BY <1>5, EndFit
<1>6. CASE \/ UserCancel
           \/ \E w \in Workers : Worker(w) \/ Trouble(w) \/ PeriodicFlush(w) \/ FlushTick(w)
  BY <1>6, WorkersFit
<1>7. CASE UNCHANGED vars
  <2>1. UNCHANGED <<segments, total, co, job, openSeg>> /\ rows' = rows
    BY <1>7 DEF vars
  <2> QED BY <2>1, SameSelf, FitKept
<1> QED BY <1>1, <1>2, <1>3, <1>4, <1>5, <1>6, <1>7 DEF Next

LEMMA InitFit ==
  ASSUME Init PROVE RowsFit
<1>1. co = "down" /\ rows = <<>>
  BY DEF Init
<1>2. DOMAIN rows = {}
  BY <1>1
<1> QED BY <1>1, <1>2 DEF RowsFit

(* As long as no transaction fails, the rows cover the file at every point  *)
(* where the process may die: a resume never finds rows it has to replace   *)
(* with fresh ones, which would throw all progress away.  persist_split and *)
(* persist_merge write before the map that is shared with the workers       *)
(* changes, each in one transaction.                                        *)
THEOREM RowsAlwaysCover ==
  ASSUME "db" \notin Faults
  PROVE  Spec => []RowsCover
<1>1. Init => RowsFit
  BY InitFit
<1>2. RowsFit /\ IInv /\ [Next]_vars => RowsFit'
  BY StepFit
<1>3. IInv /\ RowsFit => RowsCover
  <2> SUFFICES ASSUME IInv, RowsFit, DOMAIN rows # {}
               PROVE  validate_coverage(rows, Max({rows[i].end : i \in DOMAIN rows}) + 1)
    BY DEF RowsCover
  <2>1. PICK t \in 1 .. FileSize : validate_coverage(rows, t)
    BY FitCovers
  <2>2. t \in Nat \ {0} /\ Ranges(rows)
    BY RowsRanges, FileAssumption DEF IInv
  <2> QED BY <2>1, <2>2, CoverMax
<1> QED BY Inductive, <1>1, <1>2, <1>3, PTL DEF Spec

-----------------------------------------------------------------------------
(* What the rows call downloaded *)

Upto(s, n) == s .. s + n - 1
Buffered(r) == r.base + r.kept .. r.base + r.off - 1
Open(s) == s.state # "Completed"

(* The first n bytes of segment i, which starts at s, are in the file W or  *)
(* in the buffer of a worker of that segment.                               *)
Safe(f, W, i, s, n) ==
    \A b \in Upto(s, n) :
       b \in W \/ \E w \in Workers : f[w].pc \in BusyPcs /\ f[w].seg = i /\ b \in Buffered(f[w])

(* What a worker has skipped or flushed is in the file; where it stands     *)
(* says what is left in its buffer, and that it has got beyond the start    *)
(* of its segment when it means to report it done.                          *)
Sound(r, W, c) ==
    /\ r.kept <= r.off
    /\ Upto(r.base, r.from) \subseteq W /\ Upto(r.base, r.kept) \subseteq W
    /\ r.pc \in {"connect", "retry"} => r.off = 0 /\ r.kept = 0
    /\ r.pc \in {"connect", "retry", "read"} => ~r.whole
    /\ r.pc = "save" => r.kept = r.off
    /\ r.pc = "write" => r.left > 0
    /\ ~c /\ (r.pc = "save" \/ (r.pc = "finish" /\ r.whole)) => r.off > 0

WorkersTrue ==
    \A w \in Busy : /\ worker[w].seg \in In(segments, "Active")
                    /\ worker[w].base = segments[worker[w].seg].start
                    /\ Sound(worker[w], written, cancelled)

(* A row by itself, and a row next to the segment of the map. *)
RowTrue(r, W) == r.start <= r.end /\ Upto(r.start, Smaller(r.dl, size(r))) \subseteq W
RowOf(r, s, W) ==
    /\ r.start = s.start
    /\ Open(s) => Upto(r.start, r.dl) \subseteq W
    /\ ~Open(s) => s.dl <= size(s) \/ r.end = s.end
RowsHold ==
    /\ \A i \in DOMAIN rows : RowTrue(rows[i], written)
    /\ co # "down" => \A i \in DOMAIN rows :
         i < nextIndex /\ (i \in DOMAIN segments => RowOf(rows[i], segments[i], written))

StatesTrue ==
    \A i \in DOMAIN segStates :
      /\ i \in DOMAIN segments /\ segments[i].start <= segStates[i].end
      /\ Open(segments[i]) => Safe(worker, written, i, segments[i].start, segStates[i].dl)

PartTrue(f, W, i, s) ==
    IF Open(s) THEN Safe(f, W, i, s.start, s.dl) ELSE Bytes(s) \subseteq W
PlanTrue == \A i \in DOMAIN segments : PartTrue(worker, written, i, segments[i])

(* A segment just cut off that nobody has been given yet is pending. *)
JobTrue ==
    co \in {"persist", "publish"} /\ job.then \in {"assign", "redispatch", "idle"} =>
       segments[job.child].state = "Pending"

(* What a report claims is in the file. *)
Told(e, s, W) == e.kind = "done" => e.n > 0 /\ Upto(s, e.n) \subseteq W
ReportsTrue ==
    Looped /\ ~cancelled =>
      \A k : IsReport(k) => Told(events[k], segments[events[k].seg].start, written)

Truth == WorkersTrue /\ RowsHold /\ StatesTrue /\ PlanTrue /\ JobTrue /\ ReportsTrue

-----------------------------------------------------------------------------
(* The steps of a worker *)

(* Busy is a matter of the place. *)
LEMMA BusyIs ==
  \A w : w \in Busy <=> w \in Workers /\ worker[w].pc \in BusyPcs
BY DEF Busy, BusyPcs

LEMMA BusyIsNext ==
  \A w : w \in Busy' <=> w \in Workers /\ worker'[w].pc \in BusyPcs
BY DEF Busy, BusyPcs

(* A byte of the buffer of worker w is in the file or still in the buffer. *)
Saved(r, W, b) == b \in W \/ (r.pc \in BusyPcs /\ b \in Buffered(r))

LEMMA SafeMove ==
  ASSUME NEW f, DOMAIN f = Workers, NEW w \in Workers, NEW r, r.seg = f[w].seg, NEW V, NEW W, V \subseteq W,
         \A b \in Buffered(f[w]) : Saved(r, W, b), NEW i, NEW s, NEW n, Safe(f, V, i, s, n)
  PROVE  Safe([f EXCEPT ![w] = r], W, i, s, n)
<1> DEFINE g == [f EXCEPT ![w] = r]
<1>1. g[w] = r /\ \A v \in Workers : v # w => g[v] = f[v]
  OBVIOUS
<1> HIDE DEF g
<1>2. ASSUME NEW b \in Upto(s, n)
      PROVE  b \in W \/ \E v \in Workers : g[v].pc \in BusyPcs /\ g[v].seg = i /\ b \in Buffered(g[v])
  <2>1. CASE b \in V
    BY <2>1
  <2>2. ASSUME NEW v \in Workers, f[v].pc \in BusyPcs, f[v].seg = i, b \in Buffered(f[v])
        PROVE  b \in W \/ \E u \in Workers : g[u].pc \in BusyPcs /\ g[u].seg = i /\ b \in Buffered(g[u])
    <3>1. CASE v # w
      BY <1>1, <2>2, <3>1
    <3>2. CASE v = w
      BY <1>1, <2>2, <3>2 DEF Saved
    <3> QED BY <3>1, <3>2
  <2> QED BY <2>1, <2>2 DEF Safe
<1>3. Safe(g, W, i, s, n)
  BY <1>2 DEF Safe
<1> QED BY <1>3 DEF g

(* The move of a worker, with what it writes. *)
Kindly(w, r) ==
    /\ worker' = [worker EXCEPT ![w] = r] /\ r.seg = worker[w].seg
    /\ written \subseteq written'
    /\ \A b \in Buffered(worker[w]) : Saved(r, written', b)
    /\ r.pc \in BusyPcs => r.base = worker[w].base /\ Sound(r, written', cancelled)
    /\ \/ UNCHANGED segStates
       \/ \E n \in Nat : /\ update_seg_state(w, n)
                         /\ \A b \in Upto(worker[w].base, n) : Saved(r, written', b)
    /\ \/ UNCHANGED rows
       \/ /\ update_segment_progress_bounded(w)
          /\ Upto(worker[w].base, worker[w].off) \subseteq written'
    /\ \A k : IsReport(k)' =>
         \/ IsReport(k) /\ events'[k] = events[k]
         \/ /\ events'[k].seg = worker[w].seg
            /\ ~cancelled => Told(events'[k], worker[w].base, written')

LEMMA KindlyTruth ==
  ASSUME Truth, IInv, NEW w \in Busy, NEW r, Kindly(w, r),
         UNCHANGED <<segments, nextIndex, co, job, cancelled>>
  PROVE  Truth'
<1> DEFINE i == worker[w].seg
           base == worker[w].base
<1>0. /\ w \in Workers /\ worker[w].pc \in BusyPcs /\ DOMAIN worker = Workers
      /\ i \in DOMAIN segments /\ segments[i].state = "Active" /\ base = segments[i].start
      /\ base \in Nat /\ worker[w].off \in Nat
  BY BusyIs, WorkerType DEF IInv, TypeOK, Truth, WorkersTrue, In
<1>1. /\ worker' = [worker EXCEPT ![w] = r] /\ r.seg = i /\ written \subseteq written'
      /\ \A b \in Buffered(worker[w]) : Saved(r, written', b)
  BY DEF Kindly
<1>2. worker'[w] = r /\ \A v \in Workers : v # w => worker'[v] = worker[v]
  BY <1>0, <1>1
<1>3. ASSUME NEW j, NEW s, NEW n, Safe(worker, written, j, s, n) PROVE Safe(worker', written', j, s, n)
  BY <1>0, <1>1, <1>3, SafeMove
<1>4. WorkersTrue'
  <2>1. ASSUME NEW v \in Busy' PROVE /\ worker'[v].seg \in In(segments', "Active")
                                     /\ worker'[v].base = segments'[worker'[v].seg].start
                                     /\ Sound(worker'[v], written', cancelled')
    <3>0. v \in Workers /\ worker'[v].pc \in BusyPcs
      BY <2>1, BusyIsNext
    <3>1. CASE v = w
      BY <1>0, <1>1, <1>2, <3>0, <3>1 DEF In, Kindly
    <3>2. CASE v # w
      <4>1. worker'[v] = worker[v] /\ v \in Busy
        BY <1>2, <3>0, <3>2, BusyIs
      <4>2. Sound(worker[v], written', cancelled)
        BY <1>1, <4>1 DEF Truth, WorkersTrue, Sound
      <4> QED BY <4>1, <4>2 DEF Truth, WorkersTrue, In
    <3> QED BY <3>1, <3>2
  <2> QED BY <2>1 DEF WorkersTrue
<1>5. RowsHold'
  <2>1. CASE rows' = rows
    BY <1>1, <2>1 DEF Truth, RowsHold, RowTrue, RowOf
  <2>2. CASE /\ i \in DOMAIN rows /\ rows[i].start = base
             /\ rows' = [rows EXCEPT ![i].dl = Smaller(worker[w].off, size(rows[i]))]
             /\ Upto(base, worker[w].off) \subseteq written'
    <3>1. rows[i] \in RowRec
      BY <2>2 DEF IInv, TypeOK, RowRec
    <3>2. PICK m : m = Smaller(worker[w].off, size(rows[i]))
      OBVIOUS
    <3>3. m \in Nat /\ m <= worker[w].off /\ m <= size(rows[i]) /\ size(rows[i]) \in Nat
      BY <1>0, <3>1, <3>2, FileAssumption DEF RowRec, Smaller, Larger, size
    <3>4. /\ rows'[i].start = base /\ rows'[i].end = rows[i].end /\ rows'[i].dl = m
          /\ DOMAIN rows' = DOMAIN rows /\ \A j \in DOMAIN rows : j # i => rows'[j] = rows[j]
      BY <2>2, <3>1, <3>2 DEF RowRec
    <3>5. Upto(base, m) \subseteq written'
      BY <1>0, <2>2, <3>3 DEF Upto
    <3>6. size(rows'[i]) = size(rows[i]) /\ Smaller(m, size(rows[i])) = m
      BY <2>2, <3>3, <3>4 DEF size, Smaller
    <3>7. rows[i].start <= rows[i].end
      BY <2>2 DEF Truth, RowsHold, RowTrue
    <3>8. RowTrue(rows'[i], written')
      BY <2>2, <3>4, <3>5, <3>6, <3>7 DEF RowTrue
    <3>9. RowOf(rows'[i], segments'[i], written')
      BY <1>0, <3>4, <3>5 DEF RowOf, Open
    <3>10. ASSUME NEW j \in DOMAIN rows, j # i
           PROVE  /\ RowTrue(rows'[j], written')
                  /\ co # "down" => j < nextIndex /\ (j \in DOMAIN segments => RowOf(rows'[j], segments'[j], written'))
      BY <1>1, <3>4, <3>10 DEF Truth, RowsHold, RowTrue, RowOf
    <3>11. co # "down" => i < nextIndex
      BY <2>2 DEF Truth, RowsHold
    <3> QED BY <3>4, <3>8, <3>9, <3>10, <3>11 DEF RowsHold
  <2>3. CASE rows' # rows
    BY <2>2, <2>3 DEF Kindly, update_segment_progress_bounded
  <2> QED BY <2>1, <2>3
<1>6. StatesTrue'
  <2>1. CASE segStates' = segStates
    BY <1>3, <2>1 DEF Truth, StatesTrue
  <2>2. ASSUME NEW n \in Nat, i \in DOMAIN segStates, segStates' = [segStates EXCEPT ![i].dl = n],
               \A b \in Upto(base, n) : Saved(r, written', b)
        PROVE  StatesTrue'
    <3>1. Safe(worker', written', i, base, n)
      BY <1>0, <1>1, <1>2, <2>2 DEF Safe, Saved
    <3>2. segStates[i] \in [end : 0 .. FileSize - 1, dl : Nat]
      BY <2>2 DEF IInv, TypeOK
    <3>3. /\ segStates'[i].dl = n /\ segStates'[i].end = segStates[i].end
          /\ DOMAIN segStates' = DOMAIN segStates
          /\ \A j \in DOMAIN segStates : j # i => segStates'[j] = segStates[j]
      BY <2>2, <3>2
    <3>4. ASSUME NEW j \in DOMAIN segStates, j # i
          PROVE  /\ j \in DOMAIN segments' /\ segments'[j].start <= segStates'[j].end
                 /\ Open(segments'[j]) => Safe(worker', written', j, segments'[j].start, segStates'[j].dl)
      BY <1>3, <3>3, <3>4 DEF Truth, StatesTrue
    <3>5. i \in DOMAIN segments /\ segments[i].start <= segStates[i].end
      BY <2>2 DEF Truth, StatesTrue
    <3> QED BY <1>0, <3>1, <3>3, <3>4, <3>5 DEF StatesTrue
  <2>3. CASE segStates' # segStates
    <3>1. PICK n \in Nat : update_seg_state(w, n) /\ \A b \in Upto(base, n) : Saved(r, written', b)
      BY <2>3 DEF Kindly
    <3> QED BY <2>2, <2>3, <3>1 DEF update_seg_state
  <2> QED BY <2>1, <2>3
<1>7. PlanTrue'
  <2>1. ASSUME NEW j \in DOMAIN segments PROVE PartTrue(worker', written', j, segments'[j])
    <3>1. PartTrue(worker, written, j, segments[j])
      BY DEF Truth, PlanTrue
    <3>2. CASE Open(segments[j])
      BY <1>3, <3>1, <3>2 DEF PartTrue
    <3>3. CASE ~Open(segments[j])
      BY <1>1, <3>1, <3>3 DEF PartTrue
    <3> QED BY <3>2, <3>3
  <2> QED BY <2>1 DEF PlanTrue
<1>8. JobTrue'
  BY DEF Truth, JobTrue
<1>9. ReportsTrue'
  <2>1. ASSUME NEW k, IsReport(k)', Looped, ~cancelled
        PROVE  Told(events'[k], segments'[events'[k].seg].start, written')
    <3>1. CASE IsReport(k) /\ events'[k] = events[k]
      BY <1>1, <2>1, <3>1 DEF Truth, ReportsTrue, Told
    <3>2. CASE events'[k].seg = i /\ Told(events'[k], base, written')
      BY <1>0, <3>2
    <3> QED BY <2>1, <3>1, <3>2 DEF Kindly
  <2> QED BY <2>1 DEF ReportsTrue, Looped
<1> QED BY <1>4, <1>5, <1>6, <1>7, <1>8, <1>9 DEF Truth

(* What is in the channel stays there; a report comes behind it. *)
LEMMA SentAhead ==
  ASSUME TypeEvents, NEW w, NEW q, Ahead(w, q), events' = q
  PROVE  \A k : IsReport(k)' => IsReport(k) /\ events'[k] = events[k]
<1>1. CASE q = events
  BY <1>1 DEF IsReport
<1>2. ASSUME NEW e, e.kind = "verdict", q = Append(events, e)
      PROVE  \A k : IsReport(k)' => IsReport(k) /\ events'[k] = events[k]
  <2>1. /\ Len(q) = Len(events) + 1 /\ q[Len(events) + 1] = e /\ Len(events) \in Nat
        /\ \A k \in 1 .. Len(events) : q[k] = events[k]
    BY <1>2 DEF TypeEvents
  <2>2. ASSUME NEW k, IsReport(k)' PROVE IsReport(k) /\ events'[k] = events[k]
    <3>1. k \in 1 .. Len(q) /\ q[k].kind # "verdict"
      BY <2>2 DEF IsReport
    <3>2. k # Len(events) + 1
      BY <1>2, <2>1, <3>1
    <3>3. k \in 1 .. Len(events)
      BY <2>1, <3>1, <3>2
    <3> QED BY <2>1, <3>1, <3>3 DEF IsReport
  <2> QED BY <2>2
<1> QED BY <1>1, <1>2 DEF Ahead

LEMMA SentBehind ==
  ASSUME TypeEvents, TypeWorker, NEW w \in Workers, NEW q, Ahead(w, q), NEW e, events' = Append(q, e)
  PROVE  \A k : IsReport(k)' => (IsReport(k) /\ events'[k] = events[k]) \/ events'[k] = e
<1>1. q \in Seq(EventRec)
  BY AheadType
<1>2. /\ Len(events') = Len(q) + 1 /\ events'[Len(q) + 1] = e /\ Len(q) \in Nat
      /\ \A k \in 1 .. Len(q) : events'[k] = q[k]
  BY <1>1
<1>3. ASSUME NEW k, k \in 1 .. Len(q), q[k].kind # "verdict"
      PROVE  k \in 1 .. Len(events) /\ q[k] = events[k]
  <2>1. CASE q = events
    BY <1>3, <2>1
  <2>2. ASSUME NEW v, v.kind = "verdict", q = Append(events, v)
        PROVE  k \in 1 .. Len(events) /\ q[k] = events[k]
    <3>1. /\ Len(q) = Len(events) + 1 /\ q[Len(events) + 1] = v /\ Len(events) \in Nat
          /\ \A j \in 1 .. Len(events) : q[j] = events[j]
      BY <2>2 DEF TypeEvents
    <3>2. k # Len(events) + 1
      BY <1>3, <2>2, <3>1
    <3> QED BY <1>3, <3>1, <3>2
  <2> QED BY <2>1, <2>2 DEF Ahead
<1>4. ASSUME NEW k, IsReport(k)', events'[k] # e PROVE IsReport(k) /\ events'[k] = events[k]
  <2>1. k \in 1 .. Len(q) /\ q[k].kind # "verdict" /\ events'[k] = q[k]
    BY <1>2, <1>4 DEF IsReport
  <2> QED BY <1>3, <2>1 DEF IsReport
<1> QED BY <1>4

(* A worker that leaves its stream has nothing in its buffer that is not in *)
(* the file, and stores no more than that.                                  *)
Stored(w) ==
    /\ written \subseteq written' /\ Buffered(worker[w]) \subseteq written'
    /\ UNCHANGED segStates \/ (/\ update_seg_state(w, worker[w].off)
                               /\ Upto(worker[w].base, worker[w].off) \subseteq written')
    /\ UNCHANGED rows \/ (/\ update_segment_progress_bounded(w)
                          /\ Upto(worker[w].base, worker[w].off) \subseteq written')

LEMMA StoredKindly ==
  ASSUME TypeOK, NEW w \in Workers, Stored(w), NEW r, Become(w, r), r.seg = worker[w].seg,
         r.pc \in BusyPcs => r.base = worker[w].base /\ Sound(r, written', cancelled),
         \A k : IsReport(k)' =>
         \/ IsReport(k) /\ events'[k] = events[k]
         \/ /\ events'[k].seg = worker[w].seg
            /\ ~cancelled => Told(events'[k], worker[w].base, written')
  PROVE  Kindly(w, r)
<1>1. worker[w].off \in Nat
  BY WorkerType
<1>2. \A b \in Buffered(worker[w]) : Saved(r, written', b)
  BY DEF Stored, Saved
<1>3. \/ UNCHANGED segStates
      \/ \E n \in Nat : /\ update_seg_state(w, n)
                        /\ \A b \in Upto(worker[w].base, n) : Saved(r, written', b)
  BY <1>1 DEF Stored, Saved
<1> QED BY <1>2, <1>3 DEF Stored, Kindly, Become

(* It tells the coordinator, ... *)
LEMMA ReportTruth ==
  ASSUME Truth, IInv, NEW w \in Busy, Stored(w), UNCHANGED <<segments, nextIndex, co, job, cancelled>>,
         NEW q, Ahead(w, q), NEW kind, NEW n, ReportAfter(q, w, kind, n),
         kind = "done" => (~cancelled => n > 0) /\ Upto(worker[w].base, n) \subseteq written'
  PROVE  Truth'
<1>0. TypeOK /\ w \in Workers /\ TypeEvents /\ TypeWorker
  BY TypeParts, BusyIs DEF IInv
<1>1. PICK r : r = [Off EXCEPT !.pc = "reported", !.seg = worker[w].seg]
  OBVIOUS
<1>2. r.pc = "reported" /\ r.seg = worker[w].seg
  BY <1>0, <1>1, WorkerType, OffFacts
<1>3. PICK e : e = Event(kind, w, n)
  OBVIOUS
<1>4. Become(w, r) /\ events' = Append(q, e)
  BY <1>1, <1>3 DEF ReportAfter
<1>5. e.seg = worker[w].seg /\ (~cancelled => Told(e, worker[w].base, written'))
  BY <1>3 DEF Event, Told
<1>6. \A k : IsReport(k)' =>
         \/ IsReport(k) /\ events'[k] = events[k]
         \/ /\ events'[k].seg = worker[w].seg
            /\ ~cancelled => Told(events'[k], worker[w].base, written')
  BY <1>0, <1>4, <1>5, SentBehind
<1>7. Kindly(w, r)
  BY <1>0, <1>2, <1>4, <1>6, StoredKindly DEF BusyPcs
<1> QED BY <1>7, KindlyTruth

(* ... or tries again, ... *)
LEMMA RetryTruth ==
  ASSUME Truth, IInv, NEW w \in Busy, Stored(w), UNCHANGED <<segments, nextIndex, co, job, cancelled>>,
         NEW q, Ahead(w, q), NEW kind, kind # "done", RetryOrReport(q, w, kind)
  PROVE  Truth'
<1>0. TypeOK /\ w \in Workers /\ TypeEvents /\ TypeWorker /\ worker[w] \in WorkerRec
  BY TypeParts, BusyIs, WorkerType DEF IInv
<1>1. CASE ReportAfter(q, w, kind, 0)
  BY <1>1, ReportTruth
<1>2. CASE /\ Become(w, [worker[w] EXCEPT !.pc = "retry", !.tries = @ + 1, !.off = 0,
                                         !.kept = 0, !.left = 0, !.last = 0, !.whole = FALSE])
           /\ events' = q
  <2>1. PICK r : r = [worker[w] EXCEPT !.pc = "retry", !.tries = @ + 1, !.off = 0,
                                       !.kept = 0, !.left = 0, !.last = 0, !.whole = FALSE]
    OBVIOUS
  <2>2. /\ r.pc = "retry" /\ r.seg = worker[w].seg /\ r.base = worker[w].base /\ r.from = worker[w].from
        /\ r.off = 0 /\ r.kept = 0 /\ r.whole = FALSE
    BY <1>0, <2>1 DEF WorkerRec
  <2>3. Sound(worker[w], written, cancelled) /\ worker[w].base \in Nat
    BY <1>0, WorkerType DEF Truth, WorkersTrue
  <2>4. Upto(r.base, r.kept) = {}
    BY <2>2, <2>3 DEF Upto
  <2>5. Sound(r, written', cancelled)
    BY <2>2, <2>3, <2>4 DEF Sound, Stored
  <2>6. \A k : IsReport(k)' => IsReport(k) /\ events'[k] = events[k]
    BY <1>0, <1>2, SentAhead
  <2>7. Kindly(w, r)
    BY <1>0, <1>2, <2>1, <2>2, <2>5, <2>6, StoredKindly
  <2> QED BY <2>7, KindlyTruth
<1> QED BY <1>1, <1>2 DEF RetryOrReport

(* ... or is lost. *)
LEMMA LostTruth ==
  ASSUME Truth, IInv, NEW w \in Busy, Stored(w), UNCHANGED <<segments, nextIndex, co, job, cancelled, events>>,
         Become(w, [Off EXCEPT !.pc = "dead", !.seg = worker[w].seg])
  PROVE  Truth'
<1>0. TypeOK /\ w \in Workers
  BY BusyIs DEF IInv
<1>1. PICK r : r = [Off EXCEPT !.pc = "dead", !.seg = worker[w].seg]
  OBVIOUS
<1>2. r.pc = "dead" /\ r.seg = worker[w].seg
  BY <1>0, <1>1, WorkerType, OffFacts
<1>3. \A k : IsReport(k)' => IsReport(k) /\ events'[k] = events[k]
  BY DEF IsReport
<1>4. Kindly(w, r)
  BY <1>0, <1>1, <1>2, <1>3, StoredKindly DEF BusyPcs
<1> QED BY <1>4, KindlyTruth

(* What is flushed is in the file, ... *)
LEMMA FlushStores ==
  ASSUME Truth, IInv, NEW w \in Busy, Flush(w)
  PROVE  /\ written \subseteq written' /\ Buffered(worker[w]) \subseteq written'
         /\ Upto(worker[w].base, worker[w].off) \subseteq written'
<1>0. w \in Workers /\ Sound(worker[w], written, cancelled)
  BY BusyIs DEF Truth, WorkersTrue
<1>1. worker[w].base \in Nat /\ worker[w].off \in Nat /\ worker[w].kept \in Nat
  BY <1>0, WorkerType DEF IInv, WorkerRec
<1>2. written \subseteq written' /\ Buffered(worker[w]) \subseteq written'
  BY DEF Flush, Buffered
<1>3. ASSUME NEW b \in Upto(worker[w].base, worker[w].off) PROVE b \in written'
  <2>1. b \in Upto(worker[w].base, worker[w].kept) \/ b \in Buffered(worker[w])
    BY <1>1, <1>3 DEF Upto, Buffered
  <2> QED BY <1>0, <1>2, <2>1 DEF Sound
<1> QED BY <1>2, <1>3

(* ... and before the first byte there is nothing to flush. *)
LEMMA NothingBuffered ==
  ASSUME Truth, IInv, NEW w \in Busy, worker[w].pc \in {"connect", "retry", "save"}
  PROVE  Buffered(worker[w]) = {}
<1>0. w \in Workers /\ Sound(worker[w], written, cancelled)
  BY BusyIs DEF Truth, WorkersTrue
<1>1. worker[w].base \in Nat /\ worker[w].off \in Nat /\ worker[w].kept = worker[w].off
  BY <1>0, WorkerType DEF IInv, Sound
<1> QED BY <1>1 DEF Buffered

LEMMA SaveExitStores ==
  ASSUME Truth, IInv, NEW w \in Busy, SaveExit(w), worker[w].pc \in {"connect", "retry", "read"}
  PROVE  Stored(w)
<1>1. CASE worker[w].pc = "read"
  BY <1>1, FlushStores DEF SaveExit, Stored
<1>2. CASE worker[w].pc # "read"
  BY <1>2, NothingBuffered DEF SaveExit, Stored
<1> QED BY <1>1, <1>2

LEMMA NothingStored ==
  ASSUME Truth, IInv, NEW w \in Busy, worker[w].pc \in {"connect", "retry", "save"},
         UNCHANGED <<written, segStates, rows>>
  PROVE  Stored(w)
BY NothingBuffered DEF Stored

(* Each action of a worker. *)
LEMMA AtBoundary ==
  ASSUME Truth, IInv, NEW w \in Busy
  PROVE  /\ w \in Workers /\ Sound(worker[w], written, cancelled) /\ TypeOK /\ TypeEvents
         /\ worker[w] \in WorkerRec /\ worker[w].seg \in DOMAIN segStates
         /\ worker[w].seg \in DOMAIN segments /\ Open(segments[worker[w].seg])
         /\ segments[worker[w].seg].start = worker[w].base
         /\ worker[w].base <= segStates[worker[w].seg].end
         /\ segStates[worker[w].seg].end \in Nat
         /\ worker[w].base \in Nat /\ worker[w].off \in Nat /\ worker[w].kept \in Nat
         /\ worker[w].from \in Nat /\ worker[w].left \in Nat
         /\ worker[w].req \in Nat /\ worker[w].base <= worker[w].req
<1>1. w \in Workers /\ worker[w] \in WorkerRec /\ TypeOK /\ TypeEvents
  BY BusyIs, WorkerType, TypeParts DEF IInv
<1>2. /\ Sound(worker[w], written, cancelled) /\ worker[w].seg \in DOMAIN segStates
      /\ worker[w].seg \in DOMAIN segments /\ Open(segments[worker[w].seg])
      /\ segments[worker[w].seg].start = worker[w].base
  BY DEF Truth, WorkersTrue, In, Open, IInv, Shared
<1>3. worker[w].base <= segStates[worker[w].seg].end
  BY <1>2 DEF Truth, StatesTrue
<1>4. segStates[worker[w].seg].end \in Nat
  <2>1. segStates[worker[w].seg].end \in 0 .. FileSize - 1
    BY <1>1, <1>2, TypeParts DEF TypeStates
  <2> QED BY <2>1
<1>5. /\ worker[w].base \in Nat /\ worker[w].off \in Nat /\ worker[w].kept \in Nat
      /\ worker[w].from \in Nat /\ worker[w].left \in Nat
      /\ worker[w].req \in Nat /\ worker[w].base <= worker[w].req
  <2>1. worker[w].req \in 0 .. FileSize - 1 /\ worker[w].base <= worker[w].req
    BY <1>1, WorkerType
  <2>2. worker[w].base \in Nat /\ worker[w].off \in Nat /\ worker[w].kept \in Nat
        /\ worker[w].from \in Nat /\ worker[w].left \in Nat
    BY <1>1 DEF WorkerRec
  <2> QED BY <2>1, <2>2
<1> QED BY <1>1, <1>2, <1>3, <1>4, <1>5

(* A worker whose buffer and place change only: nothing is written. *)
LEMMA PlaceTruth ==
  ASSUME Truth, IInv, NEW w \in Busy, NEW r, Become(w, r), r.seg = worker[w].seg, r.base = worker[w].base,
         r.kept = worker[w].kept, r.off >= worker[w].off, r.off \in Nat, r.pc \in BusyPcs,
         Sound(r, written', cancelled), written' = written,
         UNCHANGED <<segments, nextIndex, co, job, cancelled, rows>>,
         \A k : IsReport(k)' => IsReport(k) /\ events'[k] = events[k],
         UNCHANGED segStates \/ update_seg_state(w, r.off)
  PROVE  Truth'
<1>0. /\ Sound(worker[w], written, cancelled) /\ w \in Workers
      /\ worker[w].base \in Nat /\ worker[w].off \in Nat /\ worker[w].kept \in Nat
  BY AtBoundary
<1>1. \A b \in Buffered(worker[w]) : Saved(r, written', b)
  BY <1>0 DEF Buffered, Saved
<1>2. ASSUME NEW b \in Upto(worker[w].base, r.off) PROVE Saved(r, written', b)
  <2>1. b \in Upto(worker[w].base, worker[w].kept) \/ b \in Buffered(r)
    BY <1>0 DEF Upto, Buffered
  <2> QED BY <1>0, <2>1 DEF Sound, Saved
<1>3. \/ UNCHANGED segStates
      \/ \E n \in Nat : /\ update_seg_state(w, n)
                        /\ \A b \in Upto(worker[w].base, n) : Saved(r, written', b)
  BY <1>2
<1>4. Kindly(w, r)
  BY <1>1, <1>3 DEF Kindly, Become
<1> QED BY <1>4, KindlyTruth

LEMMA SkipSegmentTruth ==
  ASSUME Truth, IInv, NEW w \in Workers, SkipSegment(w) PROVE Truth'
<1>1. w \in Busy /\ worker[w].pc = "connect" /\ worker[w].base + worker[w].from > worker[w].req
  BY DEF SkipSegment, Busy
<1>2. /\ UNCHANGED <<segments, nextIndex, co, job, cancelled>> /\ UNCHANGED <<written, segStates, rows>>
      /\ ReportAfter(events, w, "done", worker[w].req - worker[w].base + 1)
  BY DEF SkipSegment, planVars, fileVars, endVars, Report
<1>3. PICK n : n = worker[w].req - worker[w].base + 1
  OBVIOUS
<1>4. n > 0 /\ Upto(worker[w].base, n) \subseteq written'
  <2>1. n \in Nat /\ n > 0 /\ n <= worker[w].from
    BY <1>1, <1>3, AtBoundary
  <2>2. Upto(worker[w].base, n) \subseteq Upto(worker[w].base, worker[w].from)
    BY <1>1, <2>1, AtBoundary DEF Upto
  <2>3. Sound(worker[w], written, cancelled)
    BY <1>1, AtBoundary
  <2> QED BY <1>2, <2>1, <2>2, <2>3 DEF Sound
<1>5. Stored(w)
  BY <1>1, <1>2, NothingStored
<1> QED BY <1>1, <1>2, <1>3, <1>4, <1>5, ReportTruth DEF Ahead

LEMMA RespondTruth ==
  ASSUME Truth, IInv, NEW w \in Workers, Respond(w) PROVE Truth'
<1>1. w \in Busy /\ worker[w].pc = "connect"
  BY DEF Respond, Connecting, Busy
<1>2. UNCHANGED <<segments, nextIndex, co, job, cancelled>> /\ UNCHANGED <<written, segStates, rows>>
  BY DEF Respond, planVars, fileVars, endVars
<1>3. PICK queue, reported, lst :
        /\ Ahead(w, queue)
        /\ \/ RangeNotSupported(queue, w)
           \/ ReportAfter(queue, w, "larger", reported)
           \/ /\ Become(w, [worker[w] EXCEPT !.pc = "read", !.off = worker[w].from,
                              !.kept = worker[w].from, !.last = lst])
              /\ events' = queue
  <2>1. PICK supports \in IF verdict = "unknown" THEN ServerRange ELSE {verdict = "yes"},
             reported \in {n \in ServerSizes : n >= total} :
        LET usable == supports \/ (worker[w].open /\ worker[w].base + worker[w].from = 0)
            queue == IF verdict = "unknown"
                     THEN Append(events, Event("verdict", w, IF supports THEN 1 ELSE 0))
                     ELSE events
        IN  /\ verdict' = IF supports THEN "yes" ELSE "no"
            /\ \/ ~usable /\ RangeNotSupported(queue, w)
               \/ usable /\ reported > total /\ ReportAfter(queue, w, "larger", reported)
                  /\ UNCHANGED sensitive
               \/ /\ usable /\ reported = total
                  /\ Become(w, [worker[w] EXCEPT !.pc = "read", !.off = worker[w].from,
                                  !.kept = worker[w].from,
                                  !.last = IF worker[w].open THEN reported - 1 ELSE worker[w].req])
                  /\ events' = queue
                  /\ UNCHANGED sensitive
    BY DEF Respond
  <2> DEFINE queue == IF verdict = "unknown"
                      THEN Append(events, Event("verdict", w, IF supports THEN 1 ELSE 0))
                      ELSE events
  <2>2. Ahead(w, queue)
    BY DEF Ahead, Event
  <2> HIDE DEF queue
  <2>3. \/ RangeNotSupported(queue, w)
        \/ ReportAfter(queue, w, "larger", reported)
        \/ /\ Become(w, [worker[w] EXCEPT !.pc = "read", !.off = worker[w].from,
                           !.kept = worker[w].from,
                           !.last = IF worker[w].open THEN reported - 1 ELSE worker[w].req])
           /\ events' = queue
    BY <2>1 DEF queue
  <2>4. \E lst : \/ RangeNotSupported(queue, w)
                 \/ ReportAfter(queue, w, "larger", reported)
                 \/ /\ Become(w, [worker[w] EXCEPT !.pc = "read", !.off = worker[w].from,
                                    !.kept = worker[w].from, !.last = lst])
                    /\ events' = queue
    BY <2>3
  <2> QED BY <2>2, <2>4
<1>4. Stored(w)
  BY <1>1, <1>2, NothingStored
<1>5. CASE RangeNotSupported(queue, w)
  BY <1>1, <1>2, <1>3, <1>4, <1>5, ReportTruth, RetryTruth DEF RangeNotSupported
<1>6. CASE ReportAfter(queue, w, "larger", reported)
  BY <1>1, <1>2, <1>3, <1>4, <1>6, ReportTruth
<1>7. CASE /\ Become(w, [worker[w] EXCEPT !.pc = "read", !.off = worker[w].from,
                              !.kept = worker[w].from, !.last = lst])
           /\ events' = queue
  <2>1. PICK r : r = [worker[w] EXCEPT !.pc = "read", !.off = worker[w].from,
                              !.kept = worker[w].from, !.last = lst]
    OBVIOUS
  <2>2. /\ r.pc = "read" /\ r.seg = worker[w].seg /\ r.base = worker[w].base /\ r.from = worker[w].from
        /\ r.off = worker[w].from /\ r.kept = worker[w].from /\ r.whole = worker[w].whole
    BY <1>1, <2>1, AtBoundary DEF WorkerRec
  <2>3. Sound(r, written', cancelled)
    BY <1>1, <1>2, <2>2, AtBoundary DEF Sound
  <2>4. \A k : IsReport(k)' => IsReport(k) /\ events'[k] = events[k]
    BY <1>1, <1>3, <1>7, AtBoundary, SentAhead
  <2>5. Kindly(w, r)
    BY <1>1, <1>4, <1>7, <2>1, <2>2, <2>3, <2>4, AtBoundary, StoredKindly
  <2> QED BY <1>1, <1>2, <2>5, KindlyTruth
<1> QED BY <1>3, <1>5, <1>6, <1>7

LEMMA ReadChunkTruth ==
  ASSUME Truth, IInv, NEW w \in Workers, ReadChunk(w) PROVE Truth'
<1>1. w \in Busy /\ worker[w].pc = "read"
  BY DEF ReadChunk, Busy
<1>2. /\ UNCHANGED <<segments, nextIndex, co, job, cancelled>>
      /\ UNCHANGED <<written, segStates, rows>> /\ UNCHANGED events
  BY DEF ReadChunk, planVars, fileVars, endVars
<1>3. PICK len \in 1 .. MaxChunk :
        Become(w, IF Budget(w) = 0
                  THEN [worker[w] EXCEPT !.pc = "finish", !.whole = TRUE]
                  ELSE [worker[w] EXCEPT !.pc = "write", !.left = Smaller(len, Budget(w)),
                                         !.whole = Budget(w) < len])
  BY DEF ReadChunk
<1>4. \A k : IsReport(k)' => IsReport(k) /\ events'[k] = events[k]
  BY <1>2 DEF IsReport
<1>5. Budget(w) \in Nat /\ (Budget(w) = 0 => worker[w].off > 0)
  BY <1>1, AtBoundary DEF Budget, Larger, Position
<1>6. CASE Budget(w) = 0
  <2>1. PICK r : r = [worker[w] EXCEPT !.pc = "finish", !.whole = TRUE]
    OBVIOUS
  <2>2. /\ r.pc = "finish" /\ r.seg = worker[w].seg /\ r.base = worker[w].base /\ r.from = worker[w].from
        /\ r.off = worker[w].off /\ r.kept = worker[w].kept
    BY <1>1, <2>1, AtBoundary DEF WorkerRec
  <2>3. Sound(r, written', cancelled)
    BY <1>1, <1>2, <1>5, <1>6, <2>2, AtBoundary DEF Sound
  <2>4. Become(w, r)
    BY <1>3, <1>6, <2>1
  <2> QED BY <1>1, <1>2, <1>4, <2>2, <2>3, <2>4, AtBoundary, PlaceTruth DEF BusyPcs
<1>7. CASE Budget(w) # 0
  <2>1. PICK n, whole : n = Smaller(len, Budget(w)) /\ whole = (Budget(w) < len)
    OBVIOUS
  <2>2. n > 0
    BY <1>5, <1>7, <2>1 DEF Smaller
  <2>3. PICK r : r = [worker[w] EXCEPT !.pc = "write", !.left = n, !.whole = whole]
    OBVIOUS
  <2>4. /\ r.pc = "write" /\ r.seg = worker[w].seg /\ r.base = worker[w].base /\ r.from = worker[w].from
        /\ r.off = worker[w].off /\ r.kept = worker[w].kept /\ r.left = n
    BY <1>1, <2>3, AtBoundary DEF WorkerRec
  <2>5. Sound(r, written', cancelled)
    BY <1>1, <1>2, <2>2, <2>4, AtBoundary DEF Sound
  <2>6. Become(w, r)
    BY <1>3, <1>7, <2>1, <2>3
  <2> QED BY <1>1, <1>2, <1>4, <2>4, <2>5, <2>6, AtBoundary, PlaceTruth DEF BusyPcs
<1> QED BY <1>6, <1>7

LEMMA WriteChunkTruth ==
  ASSUME Truth, IInv, NEW w \in Workers, WriteChunk(w) PROVE Truth'
<1>1. w \in Busy /\ worker[w].pc = "write"
  BY DEF WriteChunk, Busy
<1>2. /\ UNCHANGED <<segments, nextIndex, co, job, cancelled>>
      /\ UNCHANGED <<written, rows>> /\ UNCHANGED events
  BY DEF WriteChunk, planVars, fileVars, endVars
<1>3. PICK off, pc : /\ off = worker[w].off + worker[w].left
                     /\ pc = IF worker[w].whole THEN "finish" ELSE "read"
  OBVIOUS
<1>4. PICK r : r = [worker[w] EXCEPT !.pc = pc, !.off = off, !.left = 0]
  OBVIOUS
<1>5. Become(w, r) /\ update_seg_state(w, off)
  BY <1>3, <1>4 DEF WriteChunk
<1>6. /\ r.pc = pc /\ r.seg = worker[w].seg /\ r.base = worker[w].base /\ r.from = worker[w].from
      /\ r.off = off /\ r.kept = worker[w].kept /\ r.whole = worker[w].whole
  BY <1>1, <1>4, AtBoundary DEF WorkerRec
<1>7. Sound(worker[w], written, cancelled) /\ worker[w].left \in Nat /\ worker[w].left > 0
      /\ worker[w].off \in Nat /\ worker[w].kept \in Nat
  BY <1>1, AtBoundary DEF Sound
<1>8. off \in Nat /\ off > 0 /\ off >= worker[w].off
  BY <1>3, <1>7
<1>9. Sound(r, written', cancelled)
  BY <1>1, <1>2, <1>3, <1>6, <1>7, <1>8 DEF Sound
<1>10. \A k : IsReport(k)' => IsReport(k) /\ events'[k] = events[k]
  BY <1>2 DEF IsReport
<1>11. r.pc \in BusyPcs
  BY <1>3, <1>6 DEF BusyPcs
<1> QED BY <1>1, <1>2, <1>5, <1>6, <1>8, <1>9, <1>10, <1>11, PlaceTruth

LEMMA StreamEndTruth ==
  ASSUME Truth, IInv, NEW w \in Workers, StreamEnd(w) PROVE Truth'
<1>1. w \in Busy /\ worker[w].pc = "read"
  BY DEF StreamEnd, Busy
<1>2. /\ UNCHANGED <<segments, nextIndex, co, job, cancelled>>
      /\ UNCHANGED <<written, segStates, rows>> /\ UNCHANGED events
  BY DEF StreamEnd, planVars, fileVars, endVars
<1>3. PICK r : r = [worker[w] EXCEPT !.pc = "finish"]
  OBVIOUS
<1>4. Become(w, r)
  BY <1>3 DEF StreamEnd
<1>5. /\ r.pc = "finish" /\ r.seg = worker[w].seg /\ r.base = worker[w].base /\ r.from = worker[w].from
      /\ r.off = worker[w].off /\ r.kept = worker[w].kept /\ r.whole = worker[w].whole
  BY <1>1, <1>3, AtBoundary DEF WorkerRec
<1>6. Sound(r, written', cancelled)
  BY <1>1, <1>2, <1>5, AtBoundary DEF Sound
<1>7. \A k : IsReport(k)' => IsReport(k) /\ events'[k] = events[k]
  BY <1>2 DEF IsReport
<1>8. r.pc \in BusyPcs
  BY <1>5 DEF BusyPcs
<1> QED BY <1>1, <1>2, <1>4, <1>5, <1>6, <1>7, <1>8, AtBoundary, PlaceTruth

(* A worker whose buffer is flushed goes on. *)
LEMMA FlushedTruth ==
  ASSUME Truth, IInv, NEW w \in Busy, Flush(w), UNCHANGED <<segments, nextIndex, co, job, cancelled>>,
         UNCHANGED <<segStates, rows, events>>, worker[w].pc \in {"read", "finish"},
         NEW pc, Become(w, [worker[w] EXCEPT !.pc = pc, !.kept = worker[w].off]),
         \/ pc = "read" /\ worker[w].pc = "read"
         \/ pc = "save" /\ (~cancelled => worker[w].off > 0)
  PROVE  Truth'
<1>1. PICK r : r = [worker[w] EXCEPT !.pc = pc, !.kept = worker[w].off]
  OBVIOUS
<1>2. /\ r.pc = pc /\ r.seg = worker[w].seg /\ r.base = worker[w].base /\ r.from = worker[w].from
      /\ r.off = worker[w].off /\ r.kept = worker[w].off /\ r.whole = worker[w].whole
  BY <1>1, AtBoundary DEF WorkerRec
<1>3. Stored(w) /\ written \subseteq written' /\ Upto(worker[w].base, worker[w].off) \subseteq written'
  BY FlushStores DEF Stored
<1>4. Sound(r, written', cancelled)
  BY <1>2, <1>3, AtBoundary DEF Sound
<1>5. \A k : IsReport(k)' => IsReport(k) /\ events'[k] = events[k]
  BY DEF IsReport
<1>6. Kindly(w, r)
  BY <1>1, <1>2, <1>3, <1>4, <1>5, AtBoundary, StoredKindly
<1> QED BY <1>6, KindlyTruth

LEMMA PeriodicFlushTruth ==
  ASSUME Truth, IInv, NEW w \in Workers, PeriodicFlush(w) PROVE Truth'
<1>1. w \in Busy /\ worker[w].pc = "read" /\ Flush(w)
  BY DEF PeriodicFlush, Busy
<1>2. /\ UNCHANGED <<segments, nextIndex, co, job, cancelled>> /\ UNCHANGED <<segStates, rows, events>>
  BY DEF PeriodicFlush, planVars, endVars
<1>3. Become(w, [worker[w] EXCEPT !.pc = "read", !.kept = worker[w].off])
  <2>1. [worker[w] EXCEPT !.pc = "read", !.kept = worker[w].off] = [worker[w] EXCEPT !.kept = worker[w].off]
    BY <1>1, AtBoundary DEF WorkerRec
  <2> QED BY <2>1 DEF PeriodicFlush
<1> QED BY <1>1, <1>2, <1>3, FlushedTruth

LEMMA FinishSegmentTruth ==
  ASSUME Truth, IInv, NEW w \in Workers, FinishSegment(w) PROVE Truth'
<1>1. w \in Busy /\ worker[w].pc = "finish" /\ Flush(w)
  BY DEF FinishSegment, Busy
<1>2. UNCHANGED <<segments, nextIndex, co, job, cancelled>>
  BY DEF FinishSegment, planVars, endVars
<1>3. CASE /\ update_seg_state(w, worker[w].off) /\ update_segment_progress_bounded(w)
           /\ RetryOrReport(events, w, "fatal")
  <2>1. Stored(w)
    BY <1>1, <1>3, FlushStores DEF Stored
  <2> QED BY <1>1, <1>2, <1>3, <2>1, RetryTruth DEF Ahead
<1>4. CASE /\ ~Truncated(w)
           /\ Become(w, [worker[w] EXCEPT !.pc = "save", !.kept = worker[w].off])
           /\ UNCHANGED <<segStates, rows, events>>
  <2>1. ~cancelled => worker[w].off > 0
    <3>1. CASE worker[w].whole
      BY <1>1, <3>1, AtBoundary DEF Sound
    <3>2. CASE Position(w) > segStates[worker[w].seg].end
      BY <1>1, <3>2, AtBoundary DEF Position
    <3>3. ~cancelled => worker[w].whole \/ Position(w) > segStates[worker[w].seg].end
      BY <1>1, <1>4, AtBoundary DEF Truncated, Position
    <3> QED BY <3>1, <3>2, <3>3
  <2> QED BY <1>1, <1>2, <1>4, <2>1, FlushedTruth
<1> QED BY <1>3, <1>4 DEF FinishSegment

LEMMA SaveDoneTruth ==
  ASSUME Truth, IInv, NEW w \in Workers, SaveDone(w) PROVE Truth'
<1>1. w \in Busy /\ worker[w].pc = "save"
  BY DEF SaveDone, Busy
<1>2. /\ UNCHANGED <<segments, nextIndex, co, job, cancelled>> /\ written' = written
      /\ update_seg_state(w, worker[w].off) /\ update_segment_progress_bounded(w)
      /\ ReportAfter(events, w, "done", worker[w].off)
  BY DEF SaveDone, planVars, endVars, Report
<1>3. Upto(worker[w].base, worker[w].off) \subseteq written' /\ (~cancelled => worker[w].off > 0)
  BY <1>1, <1>2, AtBoundary DEF Sound
<1>4. Stored(w)
  BY <1>1, <1>2, <1>3, NothingBuffered DEF Stored
<1> QED BY <1>1, <1>2, <1>3, <1>4, ReportTruth DEF Ahead

LEMMA RetryActionTruth ==
  ASSUME Truth, IInv, NEW w \in Workers, Retry(w) PROVE Truth'
<1> DEFINE i == worker[w].seg
           row == IF i \in DOMAIN rows THEN rows[i]
                  ELSE [start |-> worker[w].base, end |-> worker[w].req, dl |-> worker[w].from]
<1>1. w \in Busy /\ worker[w].pc = "retry"
  BY DEF Retry, Busy
<1>2. /\ UNCHANGED <<segments, nextIndex, co, job, cancelled>>
      /\ UNCHANGED <<written, segStates, rows>>
  BY DEF Retry, planVars, fileVars, endVars
<1>3. Stored(w)
  BY <1>1, <1>2, NothingStored
<1>4. Upto(worker[w].base, row.dl) \subseteq written'
  <2>1. CASE i \in DOMAIN rows
    <3>1. co # "down"
      BY <1>1, AtBoundary DEF IInv, Shared
    <3>2. RowOf(rows[i], segments[i], written)
      BY <1>1, <2>1, <3>1, AtBoundary DEF Truth, RowsHold
    <3> QED BY <1>1, <1>2, <2>1, <3>2, AtBoundary DEF RowOf
  <2>2. CASE i \notin DOMAIN rows
    BY <1>1, <1>2, <2>2, AtBoundary DEF Sound
  <2> QED BY <2>1, <2>2
<1>5. CASE /\ i \in DOMAIN rows /\ worker[w].base + row.dl > row.end
           /\ ReportAfter(events, w, "done", row.dl)
  <2>1. RowTrue(rows[i], written) /\ co # "down"
    BY <1>1, <1>5, AtBoundary DEF Truth, RowsHold, IInv, Shared
  <2>2. rows[i].start = worker[w].base
    BY <1>1, <1>5, <2>1, AtBoundary DEF Truth, RowsHold, RowOf
  <2>3. rows[i] \in RowRec
    BY <1>5 DEF IInv, TypeOK, RowRec
  <2>4. rows[i].dl > 0
    <3>1. rows[i].dl \in Nat /\ rows[i].end \in Nat /\ rows[i].start \in Nat
      BY <2>3, FileAssumption DEF RowRec
    <3> QED BY <1>5, <2>1, <2>2, <3>1 DEF RowTrue
  <2>5. row.dl > 0
    BY <1>5, <2>4
  <2> HIDE DEF row
  <2> QED BY <1>1, <1>2, <1>3, <1>4, <1>5, <2>5, ReportTruth DEF Ahead
<1>6. CASE /\ Become(w, [worker[w] EXCEPT !.pc = "connect", !.from = row.dl, !.req = row.end])
           /\ events' = events
  <2> HIDE DEF row
  <2>1. PICK r : r = [worker[w] EXCEPT !.pc = "connect", !.from = row.dl, !.req = row.end]
    OBVIOUS
  <2>2. /\ r.pc = "connect" /\ r.seg = worker[w].seg /\ r.base = worker[w].base /\ r.from = row.dl
        /\ r.off = worker[w].off /\ r.kept = worker[w].kept /\ r.whole = worker[w].whole
    BY <1>1, <2>1, AtBoundary DEF WorkerRec
  <2>3. Sound(r, written', cancelled)
    BY <1>1, <1>2, <1>4, <2>2, AtBoundary DEF Sound
  <2>4. \A k : IsReport(k)' => IsReport(k) /\ events'[k] = events[k]
    BY <1>6 DEF IsReport
  <2>5. Become(w, r)
    BY <1>6, <2>1
  <2>6. Kindly(w, r)
    BY <1>1, <1>3, <2>2, <2>3, <2>4, <2>5, AtBoundary, StoredKindly
  <2> QED BY <1>1, <1>2, <2>6, KindlyTruth
<1>7. \/ /\ i \in DOMAIN rows /\ worker[w].base + row.dl > row.end
         /\ ReportAfter(events, w, "done", row.dl)
      \/ /\ Become(w, [worker[w] EXCEPT !.pc = "connect", !.from = row.dl, !.req = row.end])
         /\ events' = events
  BY DEF Retry, Report
<1> QED BY <1>5, <1>6, <1>7

LEMMA TroubleTruth ==
  ASSUME "write" \notin Faults, Truth, IInv, NEW w \in Workers, Trouble(w) PROVE Truth'
<1>1. ~WriteError(w)
  BY DEF WriteError, Fault
<1>2. w \in Busy /\ worker[w].pc \in {"connect", "read"}
  BY <1>1 DEF Trouble, Rejected, TransientFull, Unusable, Broken, NodeFailed, Panic, Connecting, Busy
<1>3. UNCHANGED <<segments, nextIndex, co, job, cancelled>>
  BY <1>1 DEF Trouble, Rejected, TransientFull, Unusable, Broken, NodeFailed, Panic, planVars, endVars
<1>4. CASE Rejected(w) \/ Unusable(w)
  <2>1. worker[w].pc = "connect" /\ UNCHANGED <<written, segStates, rows>>
        /\ (ReportAfter(events, w, "reject", 0) \/ ReportAfter(events, w, "fatal", 0))
    BY <1>4 DEF Rejected, Unusable, Connecting, Report, fileVars
  <2> QED BY <1>2, <1>3, <2>1, NothingStored, ReportTruth DEF Ahead
<1>5. CASE TransientFull(w)
  <2>1. worker[w].pc = "connect" /\ UNCHANGED <<written, segStates, rows>>
        /\ (ReportAfter(events, w, "range", 0) \/ RetryOrReport(events, w, "range"))
    BY <1>5 DEF TransientFull, RangeNotSupported, Connecting, Report, fileVars
  <2> QED BY <1>2, <1>3, <2>1, NothingStored, ReportTruth, RetryTruth DEF Ahead
<1>6. CASE Broken(w)
  <2>1. SaveExit(w) /\ RetryOrReport(events, w, "fatal")
    BY <1>6 DEF Broken
  <2> QED BY <1>2, <1>3, <2>1, SaveExitStores, RetryTruth DEF Ahead
<1>7. CASE NodeFailed(w)
  <2>1. SaveExit(w) /\ ReportAfter(events, w, "node", 0)
    BY <1>7 DEF NodeFailed, Report
  <2> QED BY <1>2, <1>3, <2>1, SaveExitStores, ReportTruth DEF Ahead
<1>8. CASE Panic(w)
  <2>1. worker[w].pc = "connect" /\ UNCHANGED <<written, segStates, rows>> /\ UNCHANGED events
        /\ Become(w, [Off EXCEPT !.pc = "dead", !.seg = worker[w].seg])
    BY <1>8 DEF Panic, Connecting, fileVars
  <2> QED BY <1>2, <1>3, <2>1, NothingStored, LostTruth
<1> QED BY <1>1, <1>4, <1>5, <1>6, <1>7, <1>8 DEF Trouble

(* What the workers leave to the others: those at work, their buffers, the  *)
(* channel.                                                                 *)
LEMMA SafeSame ==
  ASSUME NEW f, NEW g, \A v \in Workers : f[v].pc \in BusyPcs => g[v] = f[v], NEW V, NEW W, V \subseteq W,
         NEW i, NEW s, NEW n, Safe(f, V, i, s, n)
  PROVE  Safe(g, W, i, s, n)
BY DEF Safe

AtWork == Busy' = Busy /\ \A w \in Busy : worker'[w] = worker[w]

LEMMA AtWorkSafe ==
  ASSUME AtWork, written \subseteq written'
  PROVE  \A i, s, n : Safe(worker, written, i, s, n) => Safe(worker', written', i, s, n)
<1>1. \A v \in Workers : worker[v].pc \in BusyPcs => worker'[v] = worker[v]
  BY BusyIs DEF AtWork
<1> QED BY <1>1, SafeSame

(* A step that touches neither plan nor bytes. *)
LEMMA IdleTruth ==
  ASSUME Truth, UNCHANGED <<segments, nextIndex, co, job, segStates, rows, written, events>>,
         AtWork, cancelled => cancelled'
  PROVE  Truth'
<1>1. WorkersTrue'
  <2>1. \A w \in Busy' : w \in Busy /\ worker'[w] = worker[w]
    BY DEF AtWork
  <2>2. \A w \in Busy : Sound(worker[w], written', cancelled')
    BY DEF Truth, WorkersTrue, Sound
  <2> QED BY <2>1, <2>2 DEF Truth, WorkersTrue, In
<1>2. RowsHold' /\ JobTrue'
  BY DEF Truth, RowsHold, JobTrue
<1>3. StatesTrue' /\ PlanTrue'
  <2>1. \A i, s, n : Safe(worker, written, i, s, n) => Safe(worker', written', i, s, n)
    BY AtWorkSafe
  <2> QED BY <2>1 DEF Truth, StatesTrue, PlanTrue, PartTrue
<1>4. ReportsTrue'
  BY DEF Truth, ReportsTrue, IsReport, Looped
<1> QED BY <1>1, <1>2, <1>3, <1>4 DEF Truth

LEMMA WorkerExitTruth ==
  ASSUME Truth, IInv, NEW w \in Workers, WorkerExit(w) PROVE Truth'
<1>1. UNCHANGED <<segments, nextIndex, co, job, events, cancelled>> /\ SaveExit(w)
  BY DEF WorkerExit, planVars, endVars
<1>2. CASE worker[w].pc \in {"reported", "dead"} /\ Become(w, Off)
  <2>1. UNCHANGED <<written, segStates, rows>>
    BY <1>1, <1>2 DEF SaveExit
  <2>2. DOMAIN worker = Workers
    BY DEF IInv, TypeOK
  <2>3. Off.pc = "off"
    BY OffFacts
  <2>4. AtWork
    BY <1>2, <2>2, <2>3 DEF AtWork, Busy, Become
  <2> QED BY <1>1, <2>1, <2>4, IdleTruth
<1>3. CASE worker[w].pc \in {"connect", "read", "retry"}
           /\ Become(w, [Off EXCEPT !.pc = "dead", !.seg = worker[w].seg])
  <2>1. w \in Busy
    BY <1>3 DEF Busy
  <2> QED BY <1>1, <1>3, <2>1, SaveExitStores, LostTruth
<1> QED BY <1>2, <1>3 DEF WorkerExit

(* The batch of durable progress stores what has been flushed. *)
LEMMA FlushTickTruth ==
  ASSUME Truth, IInv, NEW w \in Workers, FlushTick(w) PROVE Truth'
<1> DEFINE i == worker[w].seg
           m == Smaller(DurableOffset(w), Smaller(size(rows[i]), size(segments[i])))
<1>1. /\ w \in Busy /\ i \in DOMAIN rows /\ i \in DOMAIN segments /\ co # "down"
      /\ rows' = [rows EXCEPT ![i].dl = Larger(rows[i].dl, m)]
  BY DEF FlushTick, Quiet, Looping, Busy
<1>2. /\ UNCHANGED <<segments, nextIndex, co, job, segStates, written, events, worker, cancelled>>
  BY DEF FlushTick, planVars, endVars
<1>3. rows[i] \in RowRec /\ segments[i] \in Segment
  BY <1>1 DEF IInv, TypeOK, RowRec
<1>4. m \in Int /\ m <= worker[w].kept
  BY <1>1, <1>3, AtBoundary, SMTT(30) DEF DurableOffset, Smaller, size, Larger, RowRec, Segment
<1> HIDE DEF m
<1>5. PICK n : n = Larger(rows[i].dl, m)
  OBVIOUS
<1>6. /\ rows'[i].start = rows[i].start /\ rows'[i].end = rows[i].end /\ rows'[i].dl = n
      /\ DOMAIN rows' = DOMAIN rows /\ \A j \in DOMAIN rows : j # i => rows'[j] = rows[j]
  BY <1>1, <1>3, <1>5 DEF RowRec
<1>7. RowTrue(rows[i], written) /\ RowOf(rows[i], segments[i], written)
  BY <1>1 DEF Truth, RowsHold
<1>8. rows[i].start = worker[w].base
  BY <1>1, <1>7, AtBoundary DEF RowOf
<1>9. Upto(rows[i].start, n) \subseteq written
  <2>1. Upto(rows[i].start, rows[i].dl) \subseteq written /\ Upto(worker[w].base, worker[w].kept) \subseteq written
    BY <1>1, <1>7, AtBoundary DEF RowOf, Sound
  <2>2. n = rows[i].dl \/ n = m
    BY <1>5 DEF Larger
  <2>3. Upto(worker[w].base, m) \subseteq Upto(worker[w].base, worker[w].kept)
    BY <1>1, <1>4, AtBoundary DEF Upto
  <2> QED BY <1>8, <2>1, <2>2, <2>3
<1>10. n \in Int
  BY <1>3, <1>4, <1>5 DEF Larger, RowRec
<1>11. RowTrue(rows'[i], written)
  <2>1. rows[i].start \in Nat /\ rows[i].end \in Int
    BY <1>3 DEF RowRec
  <2>2. PICK z : z = size(rows'[i])
    OBVIOUS
  <2>3. z \in Int
    BY <1>6, <2>1, <2>2 DEF size, Larger
  <2>4. Smaller(n, z) \in Int /\ Smaller(n, z) <= n
    BY <1>10, <2>3 DEF Smaller
  <2>5. Upto(rows[i].start, Smaller(n, z)) \subseteq Upto(rows[i].start, n)
    BY <1>10, <2>1, <2>4 DEF Upto
  <2> QED BY <1>6, <1>7, <1>9, <2>2, <2>5 DEF RowTrue
<1>12. RowOf(rows'[i], segments[i], written)
  BY <1>1, <1>6, <1>7, <1>9, AtBoundary DEF RowOf
<1>13. RowsHold'
  BY <1>1, <1>2, <1>6, <1>11, <1>12 DEF Truth, RowsHold
<1>14. WorkersTrue' /\ JobTrue'
  BY <1>2, BusyIs, BusyIsNext DEF Truth, WorkersTrue, JobTrue, In
<1>15. StatesTrue' /\ PlanTrue'
  BY <1>2 DEF Truth, StatesTrue, PlanTrue
<1>16. ReportsTrue'
  BY <1>2 DEF Truth, ReportsTrue, IsReport, Looped
<1> QED BY <1>13, <1>14, <1>15, <1>16 DEF Truth

LEMMA WorkersTruth ==
  ASSUME "write" \notin Faults, Truth, IInv,
         \/ UserCancel
         \/ \E w \in Workers : Worker(w) \/ Trouble(w) \/ PeriodicFlush(w) \/ FlushTick(w)
  PROVE  Truth'
<1>1. CASE UserCancel
  <2>1. UNCHANGED <<segments, nextIndex, co, job, segStates, rows, written, events, worker>>
        /\ cancelled' = TRUE
    BY <1>1 DEF UserCancel, planVars, fileVars
  <2>2. AtWork
    BY <2>1 DEF AtWork, Busy
  <2> QED BY <2>1, <2>2, IdleTruth
<1>2. ASSUME NEW w \in Workers, Worker(w) \/ Trouble(w) \/ PeriodicFlush(w) \/ FlushTick(w)
      PROVE  Truth'
  BY <1>2, SkipSegmentTruth, RespondTruth, ReadChunkTruth, WriteChunkTruth, StreamEndTruth,
     FinishSegmentTruth, SaveDoneTruth, RetryActionTruth, WorkerExitTruth, TroubleTruth,
     PeriodicFlushTruth, FlushTickTruth DEF Worker
<1> QED BY <1>1, <1>2

-----------------------------------------------------------------------------
(* The steps of the coordinator: the plan *)

(* A plan that may follow: no segment moves its start or is taken back once *)
(* complete, what it calls downloaded is safe, and a new one is empty.      *)
Evolved(T) ==
    /\ \A i \in DOMAIN segments :
         /\ i \in DOMAIN T /\ T[i].start = segments[i].start
         /\ ~Open(segments[i]) => T[i] = segments[i]
         /\ Open(segments[i]) /\ ~Open(T[i]) => T[i].dl <= size(T[i])
         /\ PartTrue(worker, written, i, T[i])
    /\ \A i \in DOMAIN T \ DOMAIN segments :
         i = nextIndex /\ Open(T[i]) /\ T[i].dl = 0 /\ T[i].start \in Int

LEMMA EvolvedTruth ==
  ASSUME Truth, IInv, Looped, co' # "down", Evolved(segments'), nextIndex' \in {nextIndex, nextIndex + 1},
         UNCHANGED <<rows, written, segStates>>, AtWork, cancelled => cancelled',
         \A w \in Busy : segments'[worker[w].seg].state = "Active", JobTrue',
         \A k : IsReport(k)' => \E l : IsReport(l) /\ events'[k] = events[l]
  PROVE  Truth'
<1>0. nextIndex \in Nat /\ DOMAIN rows \subseteq Nat
  BY DEF IInv, TypeOK
<1>1. WorkersTrue'
  <2>1. ASSUME NEW w \in Busy
        PROVE  /\ worker[w].seg \in In(segments', "Active")
               /\ worker[w].base = segments'[worker[w].seg].start
               /\ Sound(worker[w], written', cancelled')
    <3>1. /\ worker[w].seg \in In(segments, "Active") /\ worker[w].base = segments[worker[w].seg].start
          /\ Sound(worker[w], written, cancelled)
      BY DEF Truth, WorkersTrue
    <3>2. Sound(worker[w], written', cancelled')
      BY <3>1 DEF Sound
    <3> QED BY <3>1, <3>2 DEF Evolved, In
  <2>2. \A w \in Busy' : w \in Busy /\ worker'[w] = worker[w]
    BY DEF AtWork
  <2> QED BY <2>1, <2>2 DEF WorkersTrue
<1>2. RowsHold'
  <2>1. ASSUME NEW i \in DOMAIN rows
        PROVE  i < nextIndex' /\ (i \in DOMAIN segments' => RowOf(rows[i], segments'[i], written))
    <3>1. i < nextIndex /\ i \in Nat /\ (i \in DOMAIN segments => RowOf(rows[i], segments[i], written))
      BY <1>0 DEF Truth, RowsHold, Looped
    <3>2. CASE i \in DOMAIN segments
      BY <1>0, <3>1, <3>2 DEF Evolved, RowOf
    <3>3. CASE i \notin DOMAIN segments
      BY <1>0, <3>1, <3>3 DEF Evolved
    <3> QED BY <3>2, <3>3
  <2> QED BY <2>1 DEF Truth, RowsHold
<1>3. \A i, s, n : Safe(worker, written, i, s, n) => Safe(worker', written', i, s, n)
  BY AtWorkSafe
<1>4. StatesTrue'
  BY <1>3 DEF Truth, StatesTrue, Evolved
<1>5. PlanTrue'
  <2>1. ASSUME NEW i \in DOMAIN segments' PROVE PartTrue(worker', written', i, segments'[i])
    <3>1. CASE i \in DOMAIN segments
      BY <1>3, <3>1 DEF Evolved, PartTrue
    <3>2. CASE i \notin DOMAIN segments
      BY <3>2 DEF Evolved, PartTrue, Safe, Upto
    <3> QED BY <3>1, <3>2
  <2> QED BY <2>1 DEF PlanTrue
<1>6. ReportsTrue'
  <2>1. ASSUME NEW k, IsReport(k)', ~cancelled
        PROVE  Told(events'[k], segments'[events'[k].seg].start, written)
    <3>1. PICK l : IsReport(l) /\ events'[k] = events[l]
      BY <2>1
    <3>2. Standing(l)
      BY <3>1 DEF IInv, Reports
    <3>3. events[l].seg \in DOMAIN segments
      BY <3>2 DEF Standing, Reported, Alive, IInv, Holding, In
    <3> QED BY <2>1, <3>1, <3>3 DEF Truth, ReportsTrue, Evolved
  <2> QED BY <2>1 DEF ReportsTrue
<1> QED BY <1>1, <1>2, <1>4, <1>5, <1>6 DEF Truth, Looped

LEMMA BusyElsewhere ==
  ASSUME IInv PROVE Busy \subseteq Alive \ {job.w}
BY AnswerNotBusy DEF IInv, Busy, Alive

LEMMA TakenEvents ==
  ASSUME IInv, NEW kind, Take(kind)
  PROVE  \A k : IsReport(k)' => \E l : IsReport(l) /\ events'[k] = events[l]
BY TakeFacts

LEMMA SentEvents ==
  ASSUME UNCHANGED events
  PROVE  \A k : IsReport(k)' => \E l : IsReport(l) /\ events'[k] = events[l]
BY DEF IsReport

LEMMA SameEvolved ==
  ASSUME Truth PROVE Evolved(segments)
BY DEF Truth, PlanTrue, Evolved

(* The progress of the active segments comes from the workers. *)
LEMMA SyncEvolved ==
  ASSUME Truth, IInv PROVE Evolved(sync_downloaded_from_shared)
<1>1. PICK S : S = sync_downloaded_from_shared
  OBVIOUS
<1>2. /\ DOMAIN S = DOMAIN segments
      /\ \A i \in DOMAIN segments :
           S[i] = IF segments[i].state = "Active" /\ i \in DOMAIN segStates
                  THEN [segments[i] EXCEPT !.dl = segStates[i].dl] ELSE segments[i]
  BY <1>1, SyncFacts DEF IInv, Same
<1>3. ASSUME NEW i \in DOMAIN segments
      PROVE  /\ S[i].start = segments[i].start
             /\ ~Open(segments[i]) => S[i] = segments[i]
             /\ Open(segments[i]) => Open(S[i])
             /\ PartTrue(worker, written, i, S[i])
  <2>1. segments[i] \in Segment /\ PartTrue(worker, written, i, segments[i])
    BY DEF IInv, TypeOK, Truth, PlanTrue
  <2>2. CASE segments[i].state = "Active" /\ i \in DOMAIN segStates
    <3>1. /\ S[i].start = segments[i].start /\ S[i].state = "Active" /\ S[i].dl = segStates[i].dl
      BY <1>2, <2>1, <2>2 DEF Segment
    <3>2. Safe(worker, written, i, segments[i].start, segStates[i].dl)
      BY <2>2 DEF Truth, StatesTrue, Open
    <3> QED BY <2>2, <3>1, <3>2 DEF Open, PartTrue
  <2>3. CASE ~(segments[i].state = "Active" /\ i \in DOMAIN segStates)
    BY <1>2, <2>1, <2>3
  <2> QED BY <2>2, <2>3
<1>4. Evolved(S)
  BY <1>2, <1>3 DEF Evolved
<1> QED BY <1>1, <1>4

(* A segment is given back. *)
LEMMA FreedEvolved ==
  ASSUME Truth, IInv, NEW i \in In(segments, "Active")
  PROVE  Evolved([segments EXCEPT ![i].state = "Pending"])
<1>1. PICK T : T = [segments EXCEPT ![i].state = "Pending"]
  OBVIOUS
<1>2. i \in DOMAIN segments /\ segments[i].state = "Active" /\ segments[i] \in Segment
  BY DEF In, IInv, TypeOK
<1>3. /\ DOMAIN T = DOMAIN segments /\ \A j \in DOMAIN segments : j # i => T[j] = segments[j]
      /\ T[i].start = segments[i].start /\ T[i].dl = segments[i].dl /\ T[i].state = "Pending"
  BY <1>1, <1>2 DEF Segment
<1>4. PartTrue(worker, written, i, T[i])
  BY <1>2, <1>3 DEF Truth, PlanTrue, PartTrue, Open
<1>5. \A j \in DOMAIN segments : PartTrue(worker, written, j, segments[j])
  BY DEF Truth, PlanTrue
<1>6. Open(segments[i]) /\ Open(T[i])
  BY <1>2, <1>3 DEF Open
<1>7. Evolved(T)
  BY <1>3, <1>4, <1>5, <1>6 DEF Evolved
<1> QED BY <1>1, <1>7

(* The work found. *)
LEMMA DispatchEvolved ==
  ASSUME Truth, IInv, NEW S, PlanType(S, nextIndex), Same(S, segments), Evolved(S),
         NEW nw, NEW state \in {"Pending", "Active"}, Picked(S, nw) \/ Cut(S, nw, state)
  PROVE  /\ Evolved(nw.segs)
         /\ \A i \in In(S, "Active") : nw.segs[i].state = "Active"
         /\ Cut(S, nw, state) => nw.segs[nw.child].state = state
<1>0. nextIndex \in Nat /\ DOMAIN S = DOMAIN segments
  BY DEF IInv, TypeOK, Same
<1>1. CASE Picked(S, nw)
  <2>1. /\ Same(nw.segs, S) /\ nw.child \in DOMAIN S /\ S[nw.child].state = "Pending"
        /\ \A i \in DOMAIN S : /\ nw.segs[i].dl = S[i].dl
                               /\ nw.segs[i].state = IF i = nw.child THEN "Active" ELSE S[i].state
    BY <1>0, <1>1, PickedPlan
  <2>2. \A i \in DOMAIN S : i # nw.child => nw.segs[i] = S[i]
    BY <1>1 DEF Picked
  <2>3. DOMAIN nw.segs = DOMAIN S /\ nw.segs[nw.child].start = S[nw.child].start
    BY <2>1 DEF Same, SameRange
  <2>4. Open(S[nw.child]) /\ Open(nw.segs[nw.child])
    BY <2>1 DEF Open
  <2>5. PartTrue(worker, written, nw.child, nw.segs[nw.child])
    BY <1>0, <2>1, <2>3, <2>4 DEF Evolved, PartTrue
  <2>6. Evolved(nw.segs)
    BY <1>0, <2>1, <2>2, <2>3, <2>4, <2>5 DEF Evolved
  <2>7. ~Cut(S, nw, state)
    <3>1. nw.child # nextIndex
      BY <1>0, <2>1 DEF PlanType
    <3> QED BY <3>1 DEF Cut, CutAt
  <2> QED BY <2>1, <2>6, <2>7 DEF In
<1>2. ASSUME NEW cut \in Nat, CutAt(S, nw, state, cut)
      PROVE  /\ Evolved(nw.segs)
             /\ \A i \in In(S, "Active") : nw.segs[i].state = "Active"
             /\ nw.segs[nw.child].state = state
  <2>1. /\ Halved(S, nw.segs, nw.parent, nw.child, cut)
        /\ nw.child = nextIndex /\ nw.parent \in In(S, "Active") /\ nw.parent # nw.child
        /\ nw.segs[nw.child].dl = 0 /\ nw.segs[nw.child].state = state
        /\ \A i \in DOMAIN S : i # nw.parent => nw.segs[i] = S[i]
        /\ \A i \in DOMAIN S : nw.segs[i].dl = S[i].dl
        /\ \A i \in DOMAIN S : nw.segs[i].state = S[i].state
    BY <1>0, <1>2, CutPlan
  <2>2. /\ DOMAIN nw.segs = DOMAIN S \cup {nextIndex} /\ nw.segs[nw.parent].start = S[nw.parent].start
        /\ nw.segs[nw.child].start = cut
    BY <2>1 DEF Halved
  <2>3. Open(S[nw.parent]) /\ Open(nw.segs[nw.parent]) /\ nw.parent \in DOMAIN S /\ Open(nw.segs[nw.child])
    BY <2>1 DEF Open, In
  <2>4. PartTrue(worker, written, nw.parent, nw.segs[nw.parent])
    BY <1>0, <2>1, <2>2, <2>3 DEF Evolved, PartTrue
  <2>5. Evolved(nw.segs)
    BY <1>0, <2>1, <2>2, <2>3, <2>4 DEF Evolved
  <2> QED BY <2>1, <2>5 DEF In
<1> QED BY <1>1, <1>2 DEF Cut

LEMMA DispatchTruth ==
  ASSUME Truth, IInv, Looped, NEW S, PlanType(S, nextIndex), Same(S, segments), Evolved(S), Others(S),
         NEW nw, NEW state \in {"Pending", "Active"}, Picked(S, nw) \/ Cut(S, nw, state),
         NEW w, NEW then \in {"send", "fill", "idle"}, NEW plain,
         then = "idle" => Cut(S, nw, state) /\ state = "Pending",
         Dispatch(w, nw, then, plain), UNCHANGED <<rows, written, segStates, events, cancelled>>
  PROVE  Truth'
<1>1. /\ Evolved(nw.segs)
      /\ \A i \in In(S, "Active") : nw.segs[i].state = "Active"
      /\ Cut(S, nw, state) => nw.segs[nw.child].state = state
  BY DispatchEvolved
<1>2. /\ segments' = nw.segs /\ co' = "persist" /\ nextIndex' \in {nextIndex, nextIndex + 1}
      /\ job'.child = nw.child /\ job'.then = then /\ worker' = worker
  BY DEF Dispatch, NoJob
<1>3. AtWork
  BY <1>2 DEF AtWork, Busy
<1>4. \A v \in Busy : segments'[worker[v].seg].state = "Active"
  BY <1>1, <1>2, BusyElsewhere DEF Others
<1>5. JobTrue'
  BY <1>1, <1>2 DEF JobTrue
<1> QED BY <1>1, <1>2, <1>3, <1>4, <1>5, SentEvents, EvolvedTruth

(* No work: the plan is as it was, a worker may be retired. *)
LEMMA RestTruth ==
  ASSUME Truth, IInv, Looped, NEW S, Evolved(S), Others(S), segments' = S, nextIndex' = nextIndex,
         co' \notin {"down", "persist", "publish"}, AtWork,
         UNCHANGED <<rows, written, segStates>>, cancelled => cancelled',
         \A k : IsReport(k)' => \E l : IsReport(l) /\ events'[k] = events[l]
  PROVE  Truth'
<1>1. \A v \in Busy : segments'[worker[v].seg].state = "Active"
  BY BusyElsewhere DEF Others, In
<1>2. JobTrue'
  BY DEF JobTrue
<1> QED BY <1>1, <1>2, EvolvedTruth

LEMMA RetiredAtWork ==
  ASSUME IInv, worker' = [worker EXCEPT ![job.w] = Off]
  PROVE  AtWork
<1>1. DOMAIN worker = Workers /\ job.w \notin Busy
  BY AnswerNotBusy DEF IInv, TypeOK
<1>2. Off.pc = "off"
  BY OffFacts
<1>3. \A v \in Workers : worker'[v] = IF v = job.w THEN Off ELSE worker[v]
  BY <1>1
<1> QED BY <1>1, <1>2, <1>3 DEF AtWork, Busy

(* The end of a segment: what the report counts is in the file. *)
LEMMA HandleDoneTruth ==
  ASSUME Truth, IInv, HandleDone PROVE Truth'
<1> DEFINE i == Head1.seg
           n == Head1.n
           s == segments[i]
<1>1. /\ Take("done") /\ UNCHANGED <<rows, written, segStates, worker, cancelled>>
  BY DEF HandleDone, fileVars, endVars
<1>2. /\ co = "idle" /\ Looped /\ ~cancelled /\ Head1 \in EventRec /\ Head1.kind = "done"
      /\ Reported(Head1.w) /\ worker[Head1.w].seg = i /\ i \in In(segments, "Active")
      /\ \A v \in Alive \ {Head1.w} : worker[v].seg # i
      /\ job = NoJob
  BY <1>1, TakeFacts
<1>3. PlanType(segments, nextIndex) /\ nextIndex \in Nat /\ i \in DOMAIN segments
  BY <1>2, TypeParts DEF IInv, TypePlan, In
<1>4. s \in Segment /\ nextIndex \notin DOMAIN segments /\ i # nextIndex /\ n \in Nat
  BY <1>2, <1>3, ReporterType DEF PlanType
<1>5. n > 0 /\ Upto(s.start, n) \subseteq written
  <2>1. events # <<>> /\ events \in Seq(EventRec)
    BY <1>1 DEF Take, IInv, TypeOK
  <2>2. Head1 = events[1] /\ Len(events) \in Nat /\ Len(events) >= 1
    BY <2>1 DEF Head1
  <2>3. IsReport(1)
    BY <1>2, <2>2 DEF IsReport
  <2>4. Told(events[1], segments[events[1].seg].start, written)
    BY <1>2, <2>3 DEF Truth, ReportsTrue
  <2> QED BY <1>2, <2>2, <2>4 DEF Told
<1>6. \A w \in Busy : worker[w].seg # i
  <2>1. \A w \in Busy : w \in Alive /\ w # Head1.w
    BY <1>2 DEF Busy, Alive, Reported
  <2> QED BY <1>2, <2>1
<1>7. \A w \in Busy : worker[w].seg \in DOMAIN segments /\ segments[worker[w].seg].state = "Active"
  BY DEF Truth, WorkersTrue, In
<1>8. AtWork
  BY <1>1 DEF AtWork, Busy
<1>9. s.start \in Int /\ s.end \in Int /\ s.state = "Active" /\ Open(s)
  BY <1>2, <1>4 DEF Segment, In, Open
<1>10. CASE Shortfall(s, n)
  <2>1. PICK r : r = [start |-> s.start, end |-> s.start + n - 1, dl |-> n, state |-> "Completed"]
    OBVIOUS
  <2>2. PICK c : c = [start |-> s.start + n, end |-> s.end, dl |-> 0, state |-> "Pending"]
    OBVIOUS
  <2>3. /\ segments' = With([segments EXCEPT ![i] = r], nextIndex, c)
        /\ job' = [Reporter EXCEPT !.child = nextIndex, !.parent = i, !.then = "assign"]
        /\ co' = "persist" /\ nextIndex' = nextIndex + 1
    BY <1>10, <2>1, <2>2 DEF HandleDone
  <2>4. /\ DOMAIN segments' = DOMAIN segments \cup {nextIndex}
        /\ segments'[i] = r /\ segments'[nextIndex] = c
        /\ \A j \in DOMAIN segments : j # i => segments'[j] = segments[j]
    BY <1>3, <1>4, <2>3 DEF With
  <2>5. r.start = s.start /\ r.dl = n /\ size(r) = n /\ Bytes(r) = Upto(s.start, n) /\ ~Open(r)
    BY <1>4, <1>5, <1>9, <2>1 DEF size, Larger, Bytes, Upto, Open
  <2>6. PartTrue(worker, written, i, r)
    BY <1>5, <2>5 DEF PartTrue
  <2>7. Open(c) /\ c.dl = 0 /\ c.start \in Int
    BY <1>4, <1>9, <2>2 DEF Open
  <2>8. r.dl <= size(r)
    BY <1>4, <2>5
  <2>9. Evolved(segments')
    <3>1. ASSUME NEW j \in DOMAIN segments
          PROVE  /\ j \in DOMAIN segments' /\ segments'[j].start = segments[j].start
                 /\ ~Open(segments[j]) => segments'[j] = segments[j]
                 /\ Open(segments[j]) /\ ~Open(segments'[j]) => segments'[j].dl <= size(segments'[j])
                 /\ PartTrue(worker, written, j, segments'[j])
      <4>1. CASE j = i
        BY <1>9, <2>4, <2>5, <2>6, <2>8, <4>1
      <4>2. CASE j # i
        BY <2>4, <4>2 DEF Truth, PlanTrue
      <4> QED BY <4>1, <4>2
    <3> QED BY <2>4, <2>7, <3>1 DEF Evolved
  <2>10. JobTrue'
    <3>1. job'.child = nextIndex
      BY <2>3 DEF Reporter, NoJob
    <3> QED BY <2>2, <2>4, <3>1 DEF JobTrue
  <2>11. \A w \in Busy : segments'[worker[w].seg].state = "Active"
    BY <1>6, <1>7, <2>4
  <2> QED BY <1>1, <1>2, <1>8, <2>3, <2>9, <2>10, <2>11, TakenEvents, EvolvedTruth
<1>11. CASE ~Shortfall(s, n)
  <2>1. PICK r : r = [s EXCEPT !.dl = Smaller(n, size(s)), !.state = "Completed"]
    OBVIOUS
  <2>2. segments' = [segments EXCEPT ![i] = r] /\ co' = "assign" /\ nextIndex' = nextIndex
    BY <1>11, <2>1 DEF HandleDone
  <2>3. r.start = s.start /\ r.end = s.end /\ r.dl = Smaller(n, size(s)) /\ ~Open(r) /\ size(r) = size(s)
    BY <1>4, <2>1 DEF Segment, Open, size
  <2>4. n >= size(s) /\ size(s) \in Nat
    BY <1>4, <1>5, <1>9, <1>11 DEF Shortfall, size, Larger
  <2>5. Bytes(r) \subseteq written
    <3>1. \A b \in s.start .. s.end : b \in s.start .. s.start + n - 1
      BY <1>4, <1>9, <2>4 DEF size, Larger
    <3> QED BY <1>5, <2>3, <3>1 DEF Bytes, Upto
  <2>6. r.dl <= size(r)
    BY <1>4, <2>3, <2>4 DEF Smaller
  <2>7. DOMAIN segments' = DOMAIN segments /\ segments'[i] = r
        /\ \A j \in DOMAIN segments : j # i => segments'[j] = segments[j]
    BY <1>3, <2>2
  <2>8. Evolved(segments')
    <3>1. ASSUME NEW j \in DOMAIN segments
          PROVE  /\ j \in DOMAIN segments' /\ segments'[j].start = segments[j].start
                 /\ ~Open(segments[j]) => segments'[j] = segments[j]
                 /\ Open(segments[j]) /\ ~Open(segments'[j]) => segments'[j].dl <= size(segments'[j])
                 /\ PartTrue(worker, written, j, segments'[j])
      <4>1. CASE j = i
        BY <1>9, <2>3, <2>5, <2>6, <2>7, <4>1 DEF PartTrue
      <4>2. CASE j # i
        BY <2>7, <4>2 DEF Truth, PlanTrue
      <4> QED BY <4>1, <4>2
    <3> QED BY <2>7, <3>1 DEF Evolved
  <2>9. JobTrue'
    BY <2>2 DEF JobTrue
  <2>10. \A w \in Busy : segments'[worker[w].seg].state = "Active"
    BY <1>6, <1>7, <2>7
  <2> QED BY <1>1, <1>2, <1>8, <2>2, <2>8, <2>9, <2>10, TakenEvents, EvolvedTruth
<1> QED BY <1>10, <1>11

(* A report that frees its segment, or leaves the plan alone. *)
LEMMA TakenTruth ==
  ASSUME Truth, IInv, NEW kind, Take(kind),
         \/ segments' = segments
         \/ kind # "verdict" /\ segments' = [segments EXCEPT ![Head1.seg].state = "Pending"],
         nextIndex' = nextIndex, co' \notin {"down", "persist", "publish"},
         UNCHANGED <<rows, written, segStates, worker>>, cancelled => cancelled'
  PROVE  Truth'
<1>1. Looped /\ AtWork /\ job = NoJob
  BY TakeFacts DEF AtWork, Busy
<1>2. PlanType(segments, nextIndex) /\ Others(segments)
  BY <1>1, SegmentsReady
<1>3. JobTrue'
  BY DEF JobTrue
<1>4. \A w \in Busy : worker[w].seg \in DOMAIN segments /\ segments[worker[w].seg].state = "Active"
  BY DEF Truth, WorkersTrue, In
<1>5. CASE segments' = segments
  BY <1>1, <1>3, <1>4, <1>5, SameEvolved, TakenEvents, EvolvedTruth
<1>6. CASE kind # "verdict" /\ segments' = [segments EXCEPT ![Head1.seg].state = "Pending"]
  <2>1. /\ Reported(Head1.w) /\ Head1.seg \in In(segments, "Active")
        /\ \A v \in Alive \ {Head1.w} : worker[v].seg # Head1.seg
    BY <1>6, TakeFacts
  <2>2. \A w \in Busy : w \in Alive /\ w # Head1.w
    BY <2>1 DEF Busy, Alive, Reported
  <2>3. \A w \in Busy : segments'[worker[w].seg].state = "Active"
    BY <1>4, <1>6, <2>1, <2>2
  <2>4. Evolved(segments')
    BY <1>6, <2>1, FreedEvolved
  <2> QED BY <1>1, <1>3, <2>3, <2>4, TakenEvents, EvolvedTruth
<1> QED BY <1>5, <1>6

LEMMA EventsTruth ==
  ASSUME Truth, IInv, HandleNode \/ HandleRejection \/ HandleFatal \/ HandleVerdict
  PROVE  Truth'
<1>1. CASE HandleNode
  <2>1. Take("node") /\ segments' = segments /\ nextIndex' = nextIndex /\ co' = "redispatch"
        /\ UNCHANGED <<rows, written, segStates, worker, cancelled>>
    BY <1>1 DEF HandleNode, planVars, fileVars, endVars
  <2> QED BY <2>1, TakenTruth
<1>2. CASE HandleRejection
  <2>1. PICK kind \in {"reject", "range"} : Take(kind)
    BY <1>2 DEF HandleRejection
  <2>2. segments' = [segments EXCEPT ![Head1.seg].state = "Pending"] /\ nextIndex' = nextIndex
        /\ co' \in {"retire", "merge"} /\ UNCHANGED <<rows, written, segStates, worker, cancelled>>
    BY <1>2 DEF HandleRejection, Absorb, fileVars, endVars
  <2> QED BY <2>1, <2>2, TakenTruth
<1>3. CASE HandleFatal
  <2>1. PICK kind \in {"fatal", "reject", "range"} : Take(kind)
    BY <1>3 DEF HandleFatal
  <2>2. segments' = [segments EXCEPT ![Head1.seg].state = "Pending"] /\ nextIndex' = nextIndex
        /\ co' = "drain" /\ UNCHANGED <<rows, written, segStates, worker>> /\ cancelled' = TRUE
    BY <1>3 DEF HandleFatal, Break, fileVars
  <2> QED BY <2>1, <2>2, TakenTruth
<1>4. CASE HandleVerdict
  <2>1. Take("verdict") /\ segments' = segments /\ nextIndex' = nextIndex
        /\ UNCHANGED <<rows, written, segStates, worker, cancelled>>
    BY <1>4 DEF HandleVerdict, Absorb, fileVars, endVars
  <2>2. co' \in {"idle", "merge"}
    BY <1>4, <2>1, TakeFacts DEF HandleVerdict, Absorb
  <2> QED BY <2>1, <2>2, TakenTruth
<1> QED BY <1>1, <1>2, <1>3, <1>4

(* The tail of a larger file is empty. *)
LEMMA HandleLargerTruth ==
  ASSUME Truth, IInv, HandleLarger PROVE Truth'
<1> DEFINE i == Head1.seg
           n == Head1.n
<1>1. Take("larger") /\ UNCHANGED <<rows, written, segStates, worker>>
  BY DEF HandleLarger, fileVars
<1>2. /\ co = "idle" /\ Looped /\ n \in 1 .. FileSize
  BY <1>1, TakeFacts, LargerSize
<1>3. TypePlan /\ validate_coverage(segments, total)
  BY <1>2, TypeParts DEF IInv, PlanCovers, Looped
<1>4. CASE /\ n > total
           /\ segments' = With(segments, nextIndex, TailSegment(n))
           /\ nextIndex' = nextIndex + 1
           /\ job' = [Reporter EXCEPT !.child = nextIndex, !.then = "redispatch"]
           /\ co' = "persist" /\ cancelled' = cancelled
  <2>1. /\ Extended(segments, segments', nextIndex, total, n)
        /\ \A j \in DOMAIN segments : segments'[j] = segments[j]
    BY <1>2, <1>3, <1>4, TailPlan
  <2>2. DOMAIN segments' = DOMAIN segments \cup {nextIndex} /\ segments'[nextIndex] = TailSegment(n)
    BY <1>4 DEF With
  <2>3. Open(TailSegment(n)) /\ TailSegment(n).dl = 0 /\ TailSegment(n).start \in Int
        /\ TailSegment(n).state = "Pending"
    BY <1>3 DEF TailSegment, Open, TypePlan
  <2>4. Evolved(segments')
    BY <2>1, <2>2, <2>3 DEF Evolved, Truth, PlanTrue
  <2>5. JobTrue'
    <3>1. job'.child = nextIndex
      BY <1>4 DEF Reporter, NoJob
    <3> QED BY <2>2, <2>3, <3>1 DEF JobTrue
  <2>6. \A w \in Busy : segments'[worker[w].seg].state = "Active"
    BY <2>1 DEF Truth, WorkersTrue, In
  <2>7. AtWork
    BY <1>1 DEF AtWork, Busy
  <2> QED BY <1>1, <1>2, <1>4, <2>4, <2>5, <2>6, <2>7, TakenEvents, EvolvedTruth
<1>5. CASE /\ segments' = [segments EXCEPT ![i].state = "Pending"] /\ co' = "drain"
           /\ nextIndex' = nextIndex /\ cancelled' = TRUE
  BY <1>1, <1>5, TakenTruth
<1>6. CASE segments' = segments /\ co' = "redispatch" /\ nextIndex' = nextIndex /\ cancelled' = cancelled
  BY <1>1, <1>6, TakenTruth
<1>7. \/ /\ n > total
         /\ segments' = With(segments, nextIndex, TailSegment(n))
         /\ nextIndex' = nextIndex + 1
         /\ job' = [Reporter EXCEPT !.child = nextIndex, !.then = "redispatch"]
         /\ co' = "persist" /\ cancelled' = cancelled
      \/ /\ segments' = [segments EXCEPT ![i].state = "Pending"] /\ co' = "drain"
         /\ nextIndex' = nextIndex /\ cancelled' = TRUE
      \/ segments' = segments /\ co' = "redispatch" /\ nextIndex' = nextIndex /\ cancelled' = cancelled
  BY DEF HandleLarger, Break, planVars
<1> QED BY <1>4, <1>5, <1>6, <1>7


(* The handlers that look for work. *)
LEMMA AssignTruth ==
  ASSUME Truth, IInv, Assign PROVE Truth'
<1>1. PICK m \in MinSplits :
        LET S == sync_downloaded_from_shared
            nw == IF serial THEN SerialWork(S)
                  ELSE IF Cardinality(Alive) > allowed THEN NoWork(S)
                  ELSE find_next_work(S, m)
        IN  \/ nw.child # NoSeg /\ Dispatch(job.w, nw, "send", FALSE)
            \/ /\ nw.child = NoSeg /\ Retire(S)
               /\ IF all_done(S) THEN Break("none") ELSE co' = "idle" /\ job' = NoJob /\ UNCHANGED err
  BY DEF Assign
<1>2. PICK S : S = sync_downloaded_from_shared
  OBVIOUS
<1>3. PICK nw : nw = IF serial THEN SerialWork(S)
                     ELSE IF Cardinality(Alive) > allowed THEN NoWork(S)
                     ELSE find_next_work(S, m)
  OBVIOUS
<1>4. \/ nw.child # NoSeg /\ Dispatch(job.w, nw, "send", FALSE)
      \/ Retire(S) /\ co' \in {"idle", "drain"}
  BY <1>1, <1>2, <1>3 DEF Break
<1>5. UNCHANGED <<rows, written, segStates, events, cancelled>> /\ Looped
  BY DEF Assign, fileVars, Looped
<1>6. /\ PlanType(S, nextIndex) /\ Same(S, segments) /\ Others(S)
      /\ nextIndex \in Nat /\ total \in Nat /\ validate_coverage(S, total)
  BY <1>2, <1>5, SyncReady
<1>7. Found(S, nw) /\ Evolved(S)
  BY <1>2, <1>3, <1>6, WorkFacts, SyncEvolved
<1>8. CASE nw.child # NoSeg /\ Dispatch(job.w, nw, "send", FALSE)
  <2>1. Picked(S, nw) \/ Cut(S, nw, "Active")
    BY <1>7, <1>8 DEF Found, Nothing
  <2> QED BY <1>5, <1>6, <1>7, <1>8, <2>1, DispatchTruth
<1>9. CASE Retire(S) /\ co' \in {"idle", "drain"}
  BY <1>5, <1>6, <1>7, <1>9, RetiredAtWork, SentEvents, RestTruth DEF Retire
<1> QED BY <1>4, <1>8, <1>9

LEMMA RedispatchTruth ==
  ASSUME Truth, IInv, Redispatch PROVE Truth'
<1>1. PICK S : S = [segments EXCEPT ![job.seg].state = "Pending"]
  OBVIOUS
<1>2. PICK m \in MinSplits :
        LET nw == IF ~range_ok THEN find_next_pending_only(S)
                  ELSE IF serial THEN SerialWork(S) ELSE find_next_work(S, m)
            plain == ~range_ok
            usable == nw.child # NoSeg
                      /\ (plain => S[nw.child].start + S[nw.child].dl = 0)
        IN  \/ usable /\ Dispatch(job.w, nw, "send", plain)
            \/ ~usable /\ Retire(S) /\ co' = "idle" /\ job' = NoJob /\ UNCHANGED err
  BY <1>1 DEF Redispatch
<1>3. PICK nw : nw = IF ~range_ok THEN find_next_pending_only(S)
                     ELSE IF serial THEN SerialWork(S) ELSE find_next_work(S, m)
  OBVIOUS
<1>4. \/ nw.child # NoSeg /\ Dispatch(job.w, nw, "send", ~range_ok)
      \/ Retire(S) /\ co' = "idle"
  BY <1>2, <1>3
<1>5. UNCHANGED <<rows, written, segStates, events, cancelled>> /\ co = "redispatch" /\ Looped
  BY DEF Redispatch, fileVars, Looped
<1>6. /\ PlanType(segments, nextIndex) /\ nextIndex \in Nat /\ total \in Nat
      /\ validate_coverage(segments, total) /\ Kept(job.seg)
  BY <1>5, TypeParts, FileAssumption DEF IInv, TypePlan, PlanCovers, JobInv
<1>7. /\ PlanType(S, nextIndex) /\ Same(S, segments)
      /\ \A j \in DOMAIN segments : j # job.seg => S[j] = segments[j]
  BY <1>1, <1>6, Restated DEF Kept, In
<1>8. validate_coverage(S, total)
  BY <1>6, <1>7, CoverSame
<1>9. Found(S, nw)
  BY <1>3, <1>6, <1>7, <1>8, WorkFacts
<1>10. Evolved(S)
  BY <1>1, <1>6, FreedEvolved DEF Kept
<1>11. Others(S)
  <2>1. \A v \in Alive \ {job.w} : worker[v].seg \in In(segments, "Active") /\ worker[v].seg # job.seg
    BY <1>5, <1>6 DEF IInv, Holding, Kept, HeldByOther
  <2> QED BY <1>7, <2>1 DEF Others, In, Same
<1>12. CASE nw.child # NoSeg /\ Dispatch(job.w, nw, "send", ~range_ok)
  <2>1. Picked(S, nw) \/ Cut(S, nw, "Active")
    BY <1>9, <1>12 DEF Found, Nothing
  <2> QED BY <1>5, <1>7, <1>10, <1>11, <1>12, <2>1, DispatchTruth
<1>13. CASE Retire(S) /\ co' = "idle"
  BY <1>5, <1>10, <1>11, <1>13, RetiredAtWork, SentEvents, RestTruth DEF Retire
<1> QED BY <1>4, <1>12, <1>13

LEMMA ProactiveTickTruth ==
  ASSUME Truth, IInv, ProactiveTick PROVE Truth'
<1>1. PICK m \in MinSplits :
        LET S == sync_downloaded_from_shared
            nw == IF In(S, "Pending") # {} THEN NoWork(S) ELSE SplitLargest(S, m, "Pending")
        IN  \/ nw.child # NoSeg /\ Dispatch(NoSeg, nw, "idle", FALSE)
            \/ nw.child = NoSeg /\ segments' = S /\ UNCHANGED <<nextIndex, co, job, worker, err>>
  BY DEF ProactiveTick
<1>2. PICK S : S = sync_downloaded_from_shared
  OBVIOUS
<1>3. PICK nw : nw = IF In(S, "Pending") # {} THEN NoWork(S) ELSE SplitLargest(S, m, "Pending")
  OBVIOUS
<1>4. UNCHANGED <<rows, written, segStates, events, cancelled>> /\ co = "idle" /\ Looped
  BY DEF ProactiveTick, Quiet, Looping, fileVars, Looped
<1>5. \/ nw.child # NoSeg /\ Dispatch(NoSeg, nw, "idle", FALSE)
      \/ segments' = S /\ UNCHANGED <<nextIndex, co, worker>>
  BY <1>1, <1>2, <1>3
<1>6. /\ PlanType(S, nextIndex) /\ Same(S, segments) /\ Others(S)
      /\ nextIndex \in Nat /\ total \in Nat /\ validate_coverage(S, total)
  BY <1>2, <1>4, SyncReady
<1>7. Evolved(S)
  BY <1>2, SyncEvolved
<1>8. CASE nw.child # NoSeg /\ Dispatch(NoSeg, nw, "idle", FALSE)
  <2>1. Cut(S, nw, "Pending")
    BY <1>3, <1>6, <1>8, SplitFacts DEF Nothing, NoWork
  <2> QED BY <1>4, <1>6, <1>7, <1>8, <2>1, DispatchTruth
<1>9. CASE segments' = S /\ UNCHANGED <<nextIndex, co, worker>>
  <2>1. AtWork
    BY <1>9 DEF AtWork, Busy
  <2> QED BY <1>4, <1>6, <1>7, <1>9, <2>1, SentEvents, RestTruth
<1> QED BY <1>5, <1>8, <1>9

LEMMA FillTruth ==
  ASSUME Truth, IInv, Fill PROVE Truth'
<1>1. PICK S : S = sync_downloaded_from_shared
  OBVIOUS
<1>2. PICK m \in MinSplits :
        LET nw == IF MayGrow(S) THEN find_next_work(S, m) ELSE NoWork(segments)
        IN  \/ /\ nw.child # NoSeg
               /\ Dispatch(CHOOSE w \in Workers : w \notin Alive, nw, "fill", FALSE)
            \/ /\ nw.child = NoSeg
               /\ segments' = nw.segs
               /\ IF NobodyLeft(S) THEN Break("none")
                  ELSE co' = "idle" /\ job' = NoJob /\ UNCHANGED err
               /\ UNCHANGED <<nextIndex, worker>>
  BY <1>1 DEF Fill
<1>3. PICK nw : nw = IF MayGrow(S) THEN find_next_work(S, m) ELSE NoWork(segments)
  OBVIOUS
<1>4. \/ nw.child # NoSeg /\ Dispatch(CHOOSE w \in Workers : w \notin Alive, nw, "fill", FALSE)
      \/ /\ nw.child = NoSeg /\ segments' = nw.segs /\ co' \in {"idle", "drain"}
         /\ UNCHANGED <<nextIndex, worker>>
  BY <1>2, <1>3 DEF Break
<1>5. UNCHANGED <<rows, written, segStates, events, cancelled>> /\ Looped
  BY DEF Fill, fileVars, Looped
<1>6. /\ PlanType(S, nextIndex) /\ Same(S, segments) /\ Others(S)
      /\ nextIndex \in Nat /\ total \in Nat /\ validate_coverage(S, total)
  BY <1>1, <1>5, SyncReady
<1>7. Found(S, nw) \/ nw = NoWork(segments)
  BY <1>3, <1>6, WorkFacts
<1>8. Evolved(S) /\ Evolved(segments) /\ Others(segments)
  BY <1>1, <1>5, SyncEvolved, SameEvolved, SegmentsReady
<1>9. CASE nw.child # NoSeg /\ Dispatch(CHOOSE w \in Workers : w \notin Alive, nw, "fill", FALSE)
  <2>1. Picked(S, nw) \/ Cut(S, nw, "Active")
    BY <1>7, <1>9 DEF Found, Nothing, NoWork
  <2> QED BY <1>5, <1>6, <1>8, <1>9, <2>1, DispatchTruth
<1>10. CASE /\ nw.child = NoSeg /\ segments' = nw.segs /\ co' \in {"idle", "drain"}
            /\ UNCHANGED <<nextIndex, worker>>
  <2>1. nw.segs = segments \/ nw.segs = S
    <3>1. CASE nw = NoWork(segments)
      BY <3>1 DEF NoWork
    <3>2. CASE Found(S, nw)
      <4>1. ~Picked(S, nw)
        BY <1>6, <1>10, PickedPlan
      <4>2. nw.child # nextIndex
        BY <1>6, <1>10 DEF NoSeg
      <4>3. ~Cut(S, nw, "Active")
        BY <4>2 DEF Cut, CutAt
      <4> QED BY <3>2, <4>1, <4>3 DEF Found, Nothing
    <3> QED BY <1>7, <3>1, <3>2
  <2>2. AtWork
    BY <1>10 DEF AtWork, Busy
  <2> QED BY <1>5, <1>6, <1>8, <1>10, <2>1, <2>2, SentEvents, RestTruth
<1> QED BY <1>4, <1>9, <1>10

(* The ramp, a cancel, a retired worker. *)
LEMMA LoopTruth ==
  ASSUME Truth, IInv, RetireRejected \/ HandleCancel \/ RampTick
  PROVE  Truth'
<1>1. UNCHANGED <<segments, nextIndex, rows, written, segStates, events, cancelled>>
  BY DEF RetireRejected, HandleCancel, RampTick, planVars, fileVars, endVars
<1>2. Looped
  BY DEF RetireRejected, HandleCancel, RampTick, Quiet, Looping, Looped
<1>3. co' \in {"idle", "fill", "drain"}
  BY DEF RetireRejected, HandleCancel, RampTick, Break
<1>4. AtWork
  <2>1. CASE RetireRejected
    BY <2>1, RetiredAtWork DEF RetireRejected
  <2>2. CASE HandleCancel
    BY <2>2 DEF HandleCancel, AtWork, Busy
  <2>3. CASE RampTick
    <3>1. worker' = [w \in Workers |-> IF worker[w].pc = "dead" THEN Off ELSE worker[w]]
      BY <2>3 DEF RampTick
    <3>2. Off.pc = "off"
      BY OffFacts
    <3>3. \A w \in Workers : worker'[w] = IF worker[w].pc = "dead" THEN Off ELSE worker[w]
      BY <3>1
    <3> QED BY <3>2, <3>3 DEF AtWork, Busy
  <2> QED BY <2>1, <2>2, <2>3
<1> QED BY <1>1, <1>2, <1>3, <1>4, SegmentsReady, SameEvolved, SentEvents, RestTruth


-----------------------------------------------------------------------------
(* The steps of the coordinator: the rows and the shared state *)

(* The segment that is being stored has nobody at work on it. *)
LEMMA ChildFree ==
  ASSUME Truth, IInv, co \in {"persist", "publish"}
  PROVE  /\ job.child \in DOMAIN segments /\ Open(segments[job.child])
         /\ \A w \in Busy : worker[w].seg # job.child
         /\ Upto(segments[job.child].start, segments[job.child].dl) \subseteq written
<1> DEFINE c == job.child
<1>1. c \in DOMAIN segments /\ job.then \in {"assign", "redispatch", "idle", "send", "fill"}
  BY DEF IInv, TypeOK, JobInv
<1>2. Open(segments[c]) /\ \A w \in Busy : worker[w].seg # c
  <2>1. CASE job.then \in {"assign", "redispatch", "idle"}
    <3>1. segments[c].state = "Pending"
      BY <2>1 DEF Truth, JobTrue
    <3>2. \A w \in Busy : segments[worker[w].seg].state = "Active"
      BY DEF Truth, WorkersTrue, In
    <3> QED BY <3>1, <3>2 DEF Open
  <2>2. CASE job.then \in {"send", "fill"}
    <3>1. Kept(c)
      BY <2>2 DEF IInv, JobInv
    <3>2. \A w \in Busy : w \in Alive \ {job.w}
      BY BusyElsewhere
    <3> QED BY <3>1, <3>2 DEF Kept, HeldByOther, In, Open
  <2> QED BY <1>1, <2>1, <2>2
<1>3. Safe(worker, written, c, segments[c].start, segments[c].dl)
  BY <1>1, <1>2 DEF Truth, PlanTrue, PartTrue
<1>4. \A v \in Workers : worker[v].pc \in BusyPcs => worker[v].seg # c
  BY <1>2, BusyIs
<1>5. Upto(segments[c].start, segments[c].dl) \subseteq written
  BY <1>3, <1>4 DEF Safe
<1> QED BY <1>1, <1>2, <1>5

(* A row with the range of its segment. *)
LEMMA RowFits ==
  ASSUME Truth, NEW i \in DOMAIN segments, segments[i] \in Segment, segments[i].start <= segments[i].end,
         NEW r, r.start = segments[i].start, r.end = segments[i].end, r.dl \in Nat,
         Open(segments[i]) => Upto(r.start, r.dl) \subseteq written
  PROVE  RowTrue(r, written) /\ RowOf(r, segments[i], written)
<1>1. /\ r.start \in Int /\ r.end \in Int /\ size(r) = r.end - r.start + 1 /\ r.start <= r.end
  BY DEF Segment, size, Larger
<1>2. PICK m : m = Smaller(r.dl, size(r))
  OBVIOUS
<1>3. m \in Int /\ m <= r.dl /\ m <= size(r)
  BY <1>1, <1>2 DEF Smaller
<1>4. Upto(r.start, m) \subseteq written
  <2>1. CASE Open(segments[i])
    <3>1. Upto(r.start, m) \subseteq Upto(r.start, r.dl)
      BY <1>1, <1>3 DEF Upto
    <3> QED BY <2>1, <3>1
  <2>2. CASE ~Open(segments[i])
    <3>1. Bytes(segments[i]) \subseteq written
      BY <2>2 DEF Truth, PlanTrue, PartTrue
    <3>2. Upto(r.start, m) \subseteq r.start .. r.end
      BY <1>1, <1>3 DEF Upto
    <3> QED BY <3>1, <3>2 DEF Bytes
  <2> QED BY <2>1, <2>2
<1>5. RowTrue(r, written)
  BY <1>1, <1>2, <1>4 DEF RowTrue
<1> QED BY <1>5 DEF RowOf

LEMMA PersistTruth ==
  ASSUME Truth, IInv, Persist PROVE Truth'
<1> DEFINE c == job.child
           p == job.parent
<1>1. /\ co = "persist" /\ co' = "publish"
      /\ rows' = persist_segment_change \/ rows' = rows
      /\ UNCHANGED <<segments, nextIndex, segStates, written, worker, events, job, cancelled>>
  BY DEF Persist, planVars, endVars
<1>2. /\ TypePlan /\ validate_coverage(segments, total) /\ nextIndex \in Nat /\ PlanType(segments, nextIndex)
  BY <1>1, TypeParts DEF IInv, PlanCovers, TypePlan
<1>3. \A i \in DOMAIN segments : /\ segments[i] \in Segment /\ segments[i].start <= segments[i].end
                                 /\ i < nextIndex
  BY <1>2 DEF PlanType, validate_coverage
<1>4. /\ c \in DOMAIN segments /\ Open(segments[c])
      /\ Upto(segments[c].start, segments[c].dl) \subseteq written
  BY <1>1, ChildFree
<1>5. RowsHold'
  <2>1. CASE rows' = rows
    BY <1>1, <2>1 DEF Truth, RowsHold
  <2>2. CASE rows' = persist_segment_change
    <3>1. PICK R : R = With(rows, c, Row(segments[c]))
      OBVIOUS
    <3>2. /\ DOMAIN R = DOMAIN rows \cup {c} /\ R[c] = Row(segments[c])
          /\ \A i \in DOMAIN rows : i # c => R[i] = rows[i]
      BY <3>1 DEF With
    <3>3. R[c].start = segments[c].start /\ R[c].end = segments[c].end /\ R[c].dl = segments[c].dl
      BY <3>2 DEF Row
    <3>4. ASSUME NEW i \in DOMAIN R
          PROVE  /\ RowTrue(R[i], written) /\ i < nextIndex
                 /\ i \in DOMAIN segments => RowOf(R[i], segments[i], written)
      <4>1. CASE i = c
        <5>1. R[c].dl \in Nat
          BY <1>3, <1>4, <3>3 DEF Segment
        <5>2. RowTrue(R[c], written) /\ RowOf(R[c], segments[c], written)
          BY <1>3, <1>4, <3>3, <5>1, RowFits
        <5> QED BY <1>3, <1>4, <4>1, <5>2
      <4>2. CASE i # c
        BY <1>1, <3>2, <4>2 DEF Truth, RowsHold
      <4> QED BY <4>1, <4>2
    <3>5. CASE p \notin DOMAIN rows
      <4>1. rows' = R
        BY <2>2, <3>1, <3>5 DEF persist_segment_change
      <4> QED BY <1>1, <3>4, <4>1 DEF RowsHold
    <3>6. CASE p \in DOMAIN rows
      <4>1. rows' = [R EXCEPT ![p].end = segments[p].end]
        BY <2>2, <3>1, <3>6 DEF persist_segment_change
      <4>2. p \in DOMAIN R /\ p \in Nat /\ p \in DOMAIN segments
        <5>1. p \in Nat
          BY <3>6 DEF IInv, TypeOK
        <5>2. p # NoSeg
          BY <5>1 DEF NoSeg
        <5> QED BY <1>1, <3>2, <3>6, <5>1, <5>2 DEF IInv, JobInv
      <4>3. /\ DOMAIN rows' = DOMAIN R /\ rows'[p] = [R[p] EXCEPT !.end = segments[p].end]
            /\ \A i \in DOMAIN R : i # p => rows'[i] = R[i]
        BY <4>1, <4>2
      <4>4. R[p] \in [start : Nat, end : Nat, dl : Nat]
        <5>1. CASE p = c
          BY <1>3, <1>4, <3>2, <5>1 DEF Row, Segment
        <5>2. CASE p # c
          BY <3>2, <3>6, <5>2 DEF IInv, TypeOK
        <5> QED BY <5>1, <5>2
      <4>5. rows'[p].start = R[p].start /\ rows'[p].end = segments[p].end /\ rows'[p].dl = R[p].dl
        BY <4>3, <4>4
      <4>6. RowOf(R[p], segments[p], written) /\ p < nextIndex
        BY <3>4, <4>2
      <4>7. RowTrue(rows'[p], written) /\ RowOf(rows'[p], segments[p], written)
        <5>1. rows'[p].start = segments[p].start /\ rows'[p].dl \in Nat
          BY <4>4, <4>5, <4>6 DEF RowOf
        <5>2. Open(segments[p]) => Upto(rows'[p].start, rows'[p].dl) \subseteq written
          BY <4>5, <4>6 DEF RowOf
        <5> QED BY <1>3, <4>2, <4>5, <5>1, <5>2, RowFits
      <4>8. ASSUME NEW i \in DOMAIN rows'
            PROVE  /\ RowTrue(rows'[i], written) /\ i < nextIndex
                   /\ i \in DOMAIN segments => RowOf(rows'[i], segments[i], written)
        BY <3>4, <4>3, <4>6, <4>7
      <4> QED BY <1>1, <4>8 DEF RowsHold
    <3> QED BY <3>5, <3>6
  <2> QED BY <1>1, <2>1, <2>2
<1>6. WorkersTrue'
  <2>1. Busy' = Busy
    BY <1>1 DEF Busy
  <2> QED BY <1>1, <2>1 DEF Truth, WorkersTrue, In
<1>7. StatesTrue' /\ PlanTrue'
  BY <1>1 DEF Truth, StatesTrue, PlanTrue
<1>8. JobTrue'
  BY <1>1 DEF Truth, JobTrue
<1>9. ReportsTrue'
  BY <1>1 DEF Truth, ReportsTrue, IsReport, Looped
<1> QED BY <1>5, <1>6, <1>7, <1>8, <1>9 DEF Truth

(* The assignment of a segment nobody works on. *)
LEMMA AssignedSound ==
  ASSUME NEW S, NEW i \in DOMAIN S, S[i] \in Segment, NEW W, Upto(S[i].start, S[i].dl) \subseteq W,
         NEW c, NEW open, NEW plain
  PROVE  LET r == Assigned(S, i, open, plain)
         IN  /\ r.pc = "connect" /\ r.seg = i /\ r.base = S[i].start
             /\ Sound(r, W, c)
<1>1. PICK r : r = Assigned(S, i, open, plain)
  OBVIOUS
<1>2. /\ r.pc = "connect" /\ r.seg = i /\ r.base = S[i].start /\ r.from = S[i].dl
      /\ r.off = 0 /\ r.kept = 0 /\ r.whole = FALSE
  BY <1>1 DEF Assigned, Off
<1>3. r.base \in Int
  BY <1>2 DEF Segment
<1>4. Upto(r.base, 0) = {}
  BY <1>3 DEF Upto
<1>5. Sound(r, W, c)
  BY <1>2, <1>4 DEF Sound
<1> QED BY <1>1, <1>2, <1>5

LEMMA PublishTruth ==
  ASSUME Truth, IInv, Publish PROVE Truth'
<1> DEFINE c == job.child
<1>1. /\ co = "publish" /\ segStates' = rebuild_seg_states(segments)
      /\ co' \in {"assign", "redispatch", "idle", "fill"}
      /\ UNCHANGED <<segments, nextIndex, rows, written, events, cancelled>>
  BY DEF Publish, planVars, fileVars, endVars
<1>2. /\ TypePlan /\ validate_coverage(segments, total) /\ nextIndex \in Nat /\ PlanType(segments, nextIndex)
  BY <1>1, TypeParts DEF IInv, PlanCovers, TypePlan
<1>3. \A i \in DOMAIN segments : segments[i] \in Segment /\ segments[i].start <= segments[i].end
  BY <1>2 DEF PlanType, validate_coverage
<1>4. /\ c \in DOMAIN segments /\ Upto(segments[c].start, segments[c].dl) \subseteq written
  BY <1>1, ChildFree
<1>5. \/ worker' = worker
      \/ /\ job.then \in {"send", "fill"}
         /\ \E open, plain : worker' = [worker EXCEPT ![job.w] = Assigned(segments, c, open, plain)]
  BY DEF Publish, Become
<1>6. DOMAIN worker = Workers /\ job.w \notin Busy
  BY AnswerNotBusy DEF IInv, TypeOK
<1>7. \A v \in Workers : worker[v].pc \in BusyPcs => worker'[v] = worker[v]
  <2>1. \A v \in Workers : worker[v].pc \in BusyPcs => v # job.w
    BY <1>6, BusyIs
  <2> QED BY <1>5, <1>6, <2>1
<1>8. \A i, s, n : Safe(worker, written, i, s, n) => Safe(worker', written', i, s, n)
  BY <1>1, <1>7, SafeSame
<1>9. WorkersTrue'
  <2>1. ASSUME NEW v \in Busy'
        PROVE  /\ worker'[v].seg \in In(segments, "Active")
               /\ worker'[v].base = segments[worker'[v].seg].start
               /\ Sound(worker'[v], written, cancelled)
    <3>0. v \in Workers /\ worker'[v].pc \in BusyPcs
      BY <2>1, BusyIsNext
    <3>1. CASE worker'[v] = worker[v]
      <4>1. v \in Busy
        BY <3>0, <3>1, BusyIs
      <4> QED BY <3>1, <4>1 DEF Truth, WorkersTrue
    <3>2. CASE worker'[v] # worker[v]
      <4>1. PICK open, plain : worker' = [worker EXCEPT ![job.w] = Assigned(segments, c, open, plain)]
        BY <1>5, <3>2
      <4>2. worker'[v] = Assigned(segments, c, open, plain)
        BY <1>6, <3>0, <3>2, <4>1
      <4>3. /\ worker'[v].seg = c /\ worker'[v].base = segments[c].start
            /\ Sound(worker'[v], written, cancelled)
        BY <1>3, <1>4, <4>2, AssignedSound
      <4>4. job.then \in {"send", "fill"}
        BY <1>5, <3>2
      <4>5. Kept(c)
        BY <1>1, <4>4 DEF IInv, JobInv
      <4> QED BY <4>3, <4>5 DEF Kept
    <3> QED BY <3>1, <3>2
  <2> QED BY <1>1, <2>1 DEF WorkersTrue, In
<1>10. StatesTrue'
  <2>1. /\ DOMAIN segStates' = DOMAIN segments
        /\ \A i \in DOMAIN segments :
             /\ segStates'[i].end = segments[i].end
             /\ segStates'[i].dl = IF i \in DOMAIN segStates THEN segStates[i].dl ELSE segments[i].dl
    BY <1>1 DEF rebuild_seg_states
  <2>2. ASSUME NEW i \in DOMAIN segments, Open(segments[i])
        PROVE  Safe(worker', written', i, segments[i].start, segStates'[i].dl)
    <3>1. Safe(worker, written, i, segments[i].start, segments[i].dl)
      BY <2>2 DEF Truth, PlanTrue, PartTrue
    <3>2. i \in DOMAIN segStates => Safe(worker, written, i, segments[i].start, segStates[i].dl)
      BY <2>2 DEF Truth, StatesTrue
    <3> QED BY <1>8, <2>1, <3>1, <3>2
  <2> QED BY <1>1, <1>3, <2>1, <2>2 DEF StatesTrue
<1>11. PlanTrue'
  <2>1. ASSUME NEW i \in DOMAIN segments PROVE PartTrue(worker', written', i, segments[i])
    <3>1. PartTrue(worker, written, i, segments[i])
      BY DEF Truth, PlanTrue
    <3> QED BY <1>1, <1>8, <3>1 DEF PartTrue
  <2> QED BY <1>1, <2>1 DEF PlanTrue
<1>12. JobTrue'
  BY <1>1 DEF JobTrue
<1>13. RowsHold' /\ ReportsTrue'
  BY <1>1 DEF Truth, RowsHold, ReportsTrue, IsReport, Looped
<1> QED BY <1>9, <1>10, <1>11, <1>12, <1>13 DEF Truth


(* A merge lengthens the row of the stream, which is still open. *)
LEMMA MergeRowsTruth ==
  ASSUME Truth, IInv, MergeRows PROVE Truth'
<1> DEFINE A == Absorbed(segments, openSeg)
           o == openSeg
<1>1. /\ co = "merge" /\ co' \in {"merged", "idle", "retire"}
      /\ rows' = rows \/ rows' = Merge(segments, rows, openSeg)
      /\ UNCHANGED <<segments, nextIndex, segStates, written, worker, events, cancelled>>
  BY DEF MergeRows, planVars, endVars, IInv, JobInv, NoJob
<1>2. /\ validate_coverage(segments, total) /\ total \in Nat \ {0} /\ Ranges(segments)
      /\ PlanType(segments, nextIndex) /\ A # {}
  BY <1>1, TypeParts, RowsRanges, FileAssumption DEF IInv, PlanCovers, TypePlan, JobInv
<1>3. /\ o \in In(segments, "Active")
      /\ \E a \in A : NewEnd(segments, o) = segments[a].end
      /\ A \subseteq In(segments, "Pending")
      /\ \A a \in A : segments[o].end < segments[a].start /\ segments[a].end <= NewEnd(segments, o)
  BY <1>2, AbsorbedFacts
<1>4. PICK e : e = NewEnd(segments, o)
  OBVIOUS
<1>5. o \in DOMAIN segments /\ Open(segments[o]) /\ segments[o].start <= e /\ e \in Int
  <2>1. PICK a \in A : e = segments[a].end
    BY <1>3, <1>4
  <2>2. o \in DOMAIN segments /\ a \in DOMAIN segments /\ segments[o].end < segments[a].start
    BY <1>3 DEF In
  <2>3. /\ segments[o].start <= segments[o].end /\ segments[a].start <= segments[a].end
        /\ segments[o].start \in Int /\ segments[a].start \in Int
        /\ segments[o].end \in Int /\ segments[a].end \in Int
    BY <1>2, <2>2 DEF validate_coverage, Ranges
  <2>4. Open(segments[o])
    BY <1>3 DEF In, Open
  <2> QED BY <2>1, <2>2, <2>3, <2>4
<1>6. RowsHold'
  <2>1. CASE rows' = rows
    BY <1>1, <2>1 DEF Truth, RowsHold
  <2>2. CASE rows' = Merge(segments, rows, openSeg)
    <3>1. /\ DOMAIN rows' = DOMAIN rows \ A
          /\ \A i \in DOMAIN rows' : rows'[i] = IF i = o THEN [rows[i] EXCEPT !.end = e] ELSE rows[i]
      BY <1>4, <2>2 DEF Merge
    <3>2. ASSUME NEW i \in DOMAIN rows'
          PROVE  /\ RowTrue(rows'[i], written) /\ i < nextIndex
                 /\ i \in DOMAIN segments => RowOf(rows'[i], segments[i], written)
      <4>1. /\ i \in DOMAIN rows /\ rows[i] \in RowRec /\ i < nextIndex /\ RowTrue(rows[i], written)
            /\ i \in DOMAIN segments => RowOf(rows[i], segments[i], written)
        BY <1>1, <3>1 DEF Truth, RowsHold, IInv, TypeOK, RowRec
      <4>2. CASE i # o
        BY <3>1, <4>1, <4>2
      <4>3. CASE i = o
        <5>1. rows'[i].start = rows[i].start /\ rows'[i].end = e /\ rows'[i].dl = rows[i].dl
          BY <3>1, <4>1, <4>3 DEF RowRec
        <5>2. rows[i].start = segments[o].start /\ Upto(rows[i].start, rows[i].dl) \subseteq written
          BY <1>5, <4>1, <4>3 DEF RowOf
        <5>3. RowOf(rows'[i], segments[o], written)
          BY <1>5, <5>1, <5>2 DEF RowOf
        <5>4. PICK z : z = Smaller(rows[i].dl, size(rows'[i]))
          OBVIOUS
        <5>5. z \in Int /\ z <= rows[i].dl
          BY <1>5, <4>1, <5>1, <5>4 DEF RowRec, size, Larger, Smaller
        <5>6. Upto(rows[i].start, z) \subseteq Upto(rows[i].start, rows[i].dl)
          BY <4>1, <5>5 DEF Upto, RowRec
        <5>7. RowTrue(rows'[i], written)
          BY <1>5, <5>1, <5>2, <5>4, <5>6 DEF RowTrue
        <5> QED BY <4>1, <4>3, <5>3, <5>7
      <4> QED BY <4>2, <4>3
    <3> QED BY <1>1, <3>2 DEF RowsHold
  <2> QED BY <1>1, <2>1, <2>2
<1>7. WorkersTrue'
  <2>1. Busy' = Busy
    BY <1>1 DEF Busy
  <2> QED BY <1>1, <2>1 DEF Truth, WorkersTrue, In
<1>8. StatesTrue' /\ PlanTrue' /\ JobTrue'
  BY <1>1 DEF Truth, StatesTrue, PlanTrue, JobTrue
<1>9. ReportsTrue'
  BY <1>1 DEF Truth, ReportsTrue, IsReport, Looped
<1> QED BY <1>6, <1>7, <1>8, <1>9 DEF Truth

(* The merge in memory: nobody works on what is absorbed. *)
LEMMA MergeSegmentsTruth ==
  ASSUME Truth, IInv, MergeSegments PROVE Truth'
<1> DEFINE o == openSeg
<1>1. PICK S : S = Merge(segments, segments, openSeg)
  OBVIOUS
<1>2. /\ co = "merged" /\ segments' = S /\ segStates' = rebuild_seg_states(S) /\ co' \in {"idle", "retire"}
      /\ UNCHANGED <<nextIndex, rows, written, worker, events, cancelled>>
  BY <1>1 DEF MergeSegments, fileVars, endVars, IInv, JobInv, NoJob
<1>3. /\ validate_coverage(segments, total) /\ total \in 1 .. FileSize /\ nextIndex \in Nat
      /\ PlanType(segments, nextIndex) /\ Absorbed(segments, o) # {}
  BY <1>2, TypeParts DEF IInv, PlanCovers, TypePlan, JobInv
<1>4. /\ PlanType(S, nextIndex) /\ validate_coverage(S, total) /\ In(S, "Active") = In(segments, "Active")
      /\ DOMAIN S \subseteq DOMAIN segments
      /\ \A i \in DOMAIN S : /\ S[i].dl = segments[i].dl /\ S[i].state = segments[i].state
                             /\ S[i].start = segments[i].start
      /\ \A i \in DOMAIN S : i # o => S[i] = segments[i]
  <2>1. LET T == Merge(segments, segments, openSeg)
        IN  /\ PlanType(T, nextIndex) /\ validate_coverage(T, total) /\ In(T, "Active") = In(segments, "Active")
            /\ DOMAIN T = DOMAIN segments \ Absorbed(segments, openSeg)
            /\ \A i \in DOMAIN T : /\ T[i].dl = segments[i].dl /\ T[i].state = segments[i].state
                                   /\ T[i].start = segments[i].start
            /\ \A i \in DOMAIN T : i # openSeg => T[i] = segments[i]
    BY <1>3, MergePlan
  <2> QED BY <1>1, <2>1
<1>5. Open(segments[o])
  <2>1. Ranges(segments) /\ total \in Nat \ {0}
    BY <1>3, PlanRanges, FileAssumption
  <2> QED BY <1>3, <2>1, AbsorbedFacts DEF In, Open
<1>6. WorkersTrue'
  <2>1. Busy' = Busy
    BY <1>2 DEF Busy
  <2>2. ASSUME NEW w \in Busy
        PROVE  worker[w].seg \in In(S, "Active") /\ worker[w].base = S[worker[w].seg].start
    <3>1. worker[w].seg \in In(S, "Active") /\ worker[w].base = segments[worker[w].seg].start
      BY <1>4 DEF Truth, WorkersTrue
    <3> QED BY <1>4, <3>1 DEF In
  <2> QED BY <1>2, <2>1, <2>2 DEF Truth, WorkersTrue, In
<1>7. ASSUME NEW i \in DOMAIN S
      PROVE  /\ Open(S[i]) <=> Open(segments[i])
             /\ ~Open(S[i]) => S[i] = segments[i]
  BY <1>4, <1>5 DEF Open
<1>8. RowsHold'
  <2>1. \A i \in DOMAIN rows : i < nextIndex /\ (i \in DOMAIN segments => RowOf(rows[i], segments[i], written))
    BY <1>2 DEF Truth, RowsHold
  <2>2. ASSUME NEW i \in DOMAIN rows, i \in DOMAIN S PROVE RowOf(rows[i], S[i], written)
    <3>1. RowOf(rows[i], segments[i], written) /\ S[i].start = segments[i].start
      BY <1>4, <2>1, <2>2
    <3> QED BY <1>7, <2>2, <3>1 DEF RowOf
  <2> QED BY <1>2, <2>1, <2>2 DEF Truth, RowsHold
<1>9. PlanTrue'
  <2>1. ASSUME NEW i \in DOMAIN S PROVE PartTrue(worker, written, i, S[i])
    <3>1. PartTrue(worker, written, i, segments[i])
      BY <1>4 DEF Truth, PlanTrue
    <3> QED BY <1>4, <1>7, <3>1 DEF PartTrue
  <2> QED BY <1>2, <2>1 DEF PlanTrue
<1>10. StatesTrue'
  <2>1. /\ DOMAIN segStates' = DOMAIN S
        /\ \A i \in DOMAIN S : /\ segStates'[i].end = S[i].end
                               /\ segStates'[i].dl = IF i \in DOMAIN segStates THEN segStates[i].dl ELSE S[i].dl
    BY <1>2 DEF rebuild_seg_states
  <2>2. \A i \in DOMAIN S : S[i].start <= S[i].end
    BY <1>4 DEF validate_coverage
  <2>3. ASSUME NEW i \in DOMAIN S, Open(S[i]) PROVE Safe(worker, written, i, S[i].start, segStates'[i].dl)
    <3>1. Safe(worker, written, i, segments[i].start, segments[i].dl)
      BY <1>4, <1>7, <2>3 DEF Truth, PlanTrue, PartTrue
    <3>2. i \in DOMAIN segStates => Safe(worker, written, i, segments[i].start, segStates[i].dl)
      BY <1>7, <2>3 DEF Truth, StatesTrue
    <3> QED BY <1>4, <2>1, <3>1, <3>2
  <2> QED BY <1>2, <2>1, <2>2, <2>3 DEF StatesTrue
<1>11. JobTrue'
  BY <1>2 DEF JobTrue
<1>12. ReportsTrue'
  <2>1. ASSUME NEW k, IsReport(k), ~cancelled
        PROVE  Told(events[k], S[events[k].seg].start, written)
    <3>0. Looped
      BY <1>2 DEF Looped
    <3>1. Standing(k)
      BY <2>1, <3>0 DEF IInv, Reports
    <3>2. events[k].seg \in In(segments, "Active")
      BY <3>0, <3>1 DEF Standing, Reported, Alive, IInv, Holding
    <3>3. events[k].seg \in DOMAIN S
      BY <1>4, <3>2 DEF In
    <3> QED BY <1>4, <2>1, <3>0, <3>3 DEF Truth, ReportsTrue
  <2> QED BY <1>2, <2>1 DEF ReportsTrue, IsReport
<1> QED BY <1>6, <1>8, <1>9, <1>10, <1>11, <1>12 DEF Truth

-----------------------------------------------------------------------------
(* Sessions *)

(* Nothing is left but the rows. *)
LEMMA BlankTruth ==
  ASSUME Blank, \A i \in DOMAIN rows' : RowTrue(rows'[i], written') PROVE Truth'
<1>1. /\ co' = "down" /\ segments' = <<>> /\ segStates' = <<>>
      /\ worker' = [w \in Workers |-> Off]
  BY DEF Blank
<1>2. DOMAIN segments' = {} /\ DOMAIN segStates' = {}
  BY <1>1
<1>3. Busy' = {}
  <2>1. \A w \in Workers : worker'[w].pc = "off"
    BY <1>1, OffFacts
  <2> QED BY <2>1 DEF Busy
<1>4. WorkersTrue'
  BY <1>3 DEF WorkersTrue
<1>5. StatesTrue' /\ PlanTrue'
  BY <1>2 DEF StatesTrue, PlanTrue
<1>6. RowsHold' /\ JobTrue' /\ ReportsTrue'
  BY <1>1 DEF RowsHold, JobTrue, ReportsTrue, Looped
<1> QED BY <1>4, <1>5, <1>6 DEF Truth

(* A crash keeps what the rows claim. *)
LEMMA CrashTruth ==
  ASSUME Truth, Crash PROVE Truth'
<1>1. /\ Blank /\ rows' = rows /\ written' = written \cap UNION {Claimed(i) : i \in DOMAIN rows}
  BY DEF Crash
<1>2. ASSUME NEW i \in DOMAIN rows PROVE RowTrue(rows[i], written')
  <2>1. RowTrue(rows[i], written) /\ Claimed(i) = Upto(rows[i].start, Smaller(rows[i].dl, size(rows[i])))
    BY DEF Truth, RowsHold, Claimed, Upto
  <2>2. Claimed(i) \subseteq written /\ Claimed(i) \subseteq UNION {Claimed(j) : j \in DOMAIN rows}
    BY <2>1 DEF RowTrue
  <2> QED BY <1>1, <2>1, <2>2 DEF RowTrue
<1> QED BY <1>1, <1>2, BlankTruth

(* The last write of the rows: with no worker left nothing is in a buffer. *)
LEMMA FinishTruth ==
  ASSUME Truth, IInv, Finish PROVE Truth'
<1>1. PICK S : S = sync_downloaded_from_shared
  OBVIOUS
<1>2. /\ co = "drain" /\ Alive = {} /\ Blank /\ written' = written
      /\ \/ rows' = rows
         \/ rows' = [i \in DOMAIN rows |->
                       IF i \in DOMAIN S THEN [rows[i] EXCEPT !.dl = S[i].dl] ELSE rows[i]]
  BY <1>1 DEF Finish
<1>3. \A i, s, n : Safe(worker, written, i, s, n) => Upto(s, n) \subseteq written
  <2>1. \A v \in Workers : worker[v].pc \notin BusyPcs
    BY <1>2 DEF Alive, BusyPcs
  <2> QED BY <2>1 DEF Safe
<1>4. /\ DOMAIN S = DOMAIN segments /\ Evolved(S) /\ PlanType(S, nextIndex)
  BY <1>1, SyncEvolved, SyncFacts DEF IInv, Same
<1>5. CASE rows' = rows
  BY <1>2, <1>5, BlankTruth DEF Truth, RowsHold
<1>6. CASE rows' = [i \in DOMAIN rows |->
                      IF i \in DOMAIN S THEN [rows[i] EXCEPT !.dl = S[i].dl] ELSE rows[i]]
  <2>1. ASSUME NEW i \in DOMAIN rows PROVE RowTrue(rows'[i], written)
    <3>1. rows[i] \in RowRec /\ RowTrue(rows[i], written)
      BY DEF IInv, TypeOK, RowRec, Truth, RowsHold
    <3>2. CASE i \notin DOMAIN S
      BY <1>6, <3>1, <3>2
    <3>3. CASE i \in DOMAIN S
      <4>1. /\ rows'[i].start = rows[i].start /\ rows'[i].end = rows[i].end /\ rows'[i].dl = S[i].dl
        BY <1>6, <3>1, <3>3 DEF RowRec
      <4>2. RowOf(rows[i], segments[i], written) /\ S[i].start = segments[i].start
            /\ rows[i].start = S[i].start
        BY <1>2, <1>4, <3>3 DEF Truth, RowsHold, RowOf, Evolved
      <4>3. S[i] \in Segment /\ PartTrue(worker, written, i, S[i])
        BY <1>4, <3>3 DEF PlanType, Evolved
      <4>4. PICK z : z = Smaller(S[i].dl, size(rows'[i]))
        OBVIOUS
      <4>5. z \in Int /\ z <= S[i].dl /\ z <= size(rows'[i]) /\ size(rows'[i]) \in Int
        BY <3>1, <4>1, <4>3, <4>4 DEF RowRec, Segment, size, Larger, Smaller
      <4>6. Upto(S[i].start, z) \subseteq written
        <5>1. CASE Open(S[i])
          <6>1. Upto(S[i].start, S[i].dl) \subseteq written
            BY <1>3, <4>3, <5>1 DEF PartTrue
          <6>2. Upto(S[i].start, z) \subseteq Upto(S[i].start, S[i].dl)
            BY <4>3, <4>5 DEF Upto, Segment
          <6> QED BY <6>1, <6>2
        <5>2. CASE ~Open(S[i])
          <6>1. ~Open(segments[i]) \/ S[i].dl <= size(S[i])
            BY <1>4, <3>3, <5>2 DEF Evolved
          <6>2. S[i].dl <= size(S[i]) \/ rows[i].end = S[i].end
            <7>1. CASE ~Open(segments[i])
              <8>1. S[i] = segments[i]
                BY <1>4, <3>3, <7>1 DEF Evolved
              <8> QED BY <4>2, <7>1, <8>1 DEF RowOf
            <7> QED BY <6>1, <7>1
          <6>3. z <= size(S[i])
            <7>1. CASE rows[i].end = S[i].end
              BY <4>1, <4>2, <4>5, <7>1 DEF size
            <7>2. CASE S[i].dl <= size(S[i])
              <8>1. size(S[i]) \in Int
                BY <4>3 DEF size, Larger, Segment
              <8> QED BY <4>3, <4>5, <7>2, <8>1 DEF Segment
            <7> QED BY <6>2, <7>1, <7>2
          <6>4. Upto(S[i].start, z) \subseteq Bytes(S[i])
            BY <4>3, <4>5, <6>3 DEF Upto, Bytes, size, Larger, Segment
          <6> QED BY <4>3, <5>2, <6>4 DEF PartTrue
        <5> QED BY <5>1, <5>2
      <4> QED BY <3>1, <4>1, <4>2, <4>4, <4>6 DEF RowTrue
    <3> QED BY <3>2, <3>3
  <2>2. DOMAIN rows' = DOMAIN rows
    BY <1>6
  <2> QED BY <1>2, <2>1, <2>2, BlankTruth
<1> QED BY <1>2, <1>5, <1>6


(* A start takes the rows as they are, or fresh ones. *)
LEMMA StartRows ==
  ASSUME TypeRows, Start
  PROVE  rows' = rows \/ \E t \in 1 .. FileSize : \E count \in 1 .. t : rows' = build_fresh_segments(count, t)
<1>1. PICK hint \in Estimates, n \in 1 .. WorkerCap :
        LET estimate == hint /\ ~verified
        IN  \E t \in Planned(estimate) :
             LET R == InitialRows(t, IF estimate THEN 1 ELSE Smaller(SegmentCount, t))
             IN  \E given \in FirstOf(In(LiveSegments(R), "Pending"), FirstWorkers(LiveSegments(R), n)) :
                  Launch(R, t, n, given, CHOOSE h \in Injection(given, Workers) : TRUE, estimate)
  BY Zenon DEF Start
<1>2. PICK estimate \in BOOLEAN : estimate = (hint /\ ~verified)
  OBVIOUS
<1>3. PICK t \in Planned(estimate) :
        LET R == InitialRows(t, IF estimate THEN 1 ELSE Smaller(SegmentCount, t))
        IN  \E given \in FirstOf(In(LiveSegments(R), "Pending"), FirstWorkers(LiveSegments(R), n)) :
             Launch(R, t, n, given, CHOOSE h \in Injection(given, Workers) : TRUE, estimate)
  BY <1>1, <1>2
<1>4. t \in 1 .. FileSize
  BY PlannedSize, FileAssumption DEF Planned
<1>5. PICK count \in 1 .. t : count = IF estimate THEN 1 ELSE Smaller(SegmentCount, t)
  BY <1>4, CountAssumption DEF Smaller
<1>6. rows' = InitialRows(t, count)
  BY <1>3, <1>5 DEF Launch
<1> QED BY <1>4, <1>6 DEF InitialRows

(* The map made of true rows: a complete one has its bytes, the progress of *)
(* a pending one is in the file.                                            *)
LEMMA LiveTrue ==
  ASSUME NEW r \in RowRec, NEW W, RowTrue(r, W), NEW s, s = LiveSegment(r)
  PROVE  /\ s.start = r.start /\ s.end = r.end /\ s.dl = r.dl
         /\ s.state = "Completed" => Bytes(s) \subseteq W
         /\ s.state # "Completed" => s.state = "Pending" /\ Upto(s.start, s.dl) \subseteq W
<1>1. /\ s.start = r.start /\ s.end = r.end /\ s.dl = r.dl
      /\ s.state = IF r.dl >= size(r) THEN "Completed" ELSE "Pending"
  BY DEF LiveSegment
<1>2. r.start \in Nat /\ r.end \in Int /\ r.dl \in Nat /\ size(r) \in Int
  BY DEF RowRec, size, Larger
<1>3. CASE r.dl >= size(r)
  <2>1. Smaller(r.dl, size(r)) = size(r)
    BY <1>2, <1>3 DEF Smaller
  <2>2. size(r) = r.end - r.start + 1
    BY <1>2 DEF RowTrue, size, Larger
  <2>3. Upto(r.start, size(r)) = Bytes(s)
    BY <1>1, <1>2, <2>2 DEF Upto, Bytes
  <2> QED BY <1>1, <1>3, <2>1, <2>3 DEF RowTrue
<1>4. CASE ~(r.dl >= size(r))
  <2>1. Smaller(r.dl, size(r)) = r.dl
    BY <1>2, <1>4 DEF Smaller
  <2> QED BY <1>1, <1>4, <2>1 DEF RowTrue
<1> QED BY <1>3, <1>4

LEMMA StartTruth ==
  ASSUME Truth, IInv, Start PROVE Truth'
<1>0. TypeRows
  BY TypeParts DEF IInv
<1>1. /\ co = "down" /\ UNCHANGED <<events, written>>
      /\ \E R, given : \E t \in 1 .. FileSize, n \in 1 .. WorkerCap, estimate \in BOOLEAN :
           \E m \in 1 .. n :
             /\ given \in FirstOf(In(LiveSegments(R), "Pending"), m)
             /\ RowsType(R) /\ validate_coverage(R, t)
             /\ Launch(R, t, n, given, CHOOSE h \in Injection(given, Workers) : TRUE, estimate)
  BY <1>0, StartPlans
<1>2. PICK R, given : \E t \in 1 .. FileSize, n \in 1 .. WorkerCap, estimate \in BOOLEAN :
        \E m \in 1 .. n :
          /\ given \in FirstOf(In(LiveSegments(R), "Pending"), m)
          /\ RowsType(R) /\ validate_coverage(R, t)
          /\ Launch(R, t, n, given, CHOOSE h \in Injection(given, Workers) : TRUE, estimate)
  BY <1>1
<1>3. PICK t \in 1 .. FileSize, n \in 1 .. WorkerCap, estimate \in BOOLEAN : \E m \in 1 .. n :
        /\ given \in FirstOf(In(LiveSegments(R), "Pending"), m)
        /\ RowsType(R) /\ validate_coverage(R, t)
        /\ Launch(R, t, n, given, CHOOSE h \in Injection(given, Workers) : TRUE, estimate)
  BY <1>2
<1>4. PICK m \in 1 .. n :
        /\ given \in FirstOf(In(LiveSegments(R), "Pending"), m)
        /\ RowsType(R) /\ validate_coverage(R, t)
        /\ Launch(R, t, n, given, CHOOSE h \in Injection(given, Workers) : TRUE, estimate)
  BY <1>3
<1>5. PICK S : S = LiveSegments(R)
  OBVIOUS
<1>6. PICK k \in Nat : k = Max(DOMAIN S) + 1
  BY <1>4, <1>5, LivePlan
<1>7. PlanType(S, k) /\ DOMAIN S = DOMAIN R /\ given \subseteq In(S, "Pending")
  BY <1>4, <1>5, <1>6, LivePlan DEF FirstOf
<1>8. PICK holder : holder = CHOOSE h \in Injection(given, Workers) : TRUE
  OBVIOUS
<1>9. /\ rows' = R /\ nextIndex' = k /\ co' \in {"drain", "idle"}
      /\ segments' = [i \in DOMAIN S |-> IF i \in given THEN [S[i] EXCEPT !.state = "Active"] ELSE S[i]]
      /\ segStates' = [i \in DOMAIN S |-> [end |-> S[i].end, dl |-> S[i].dl]]
      /\ worker' = [w \in Workers |->
            IF \E i \in given : holder[i] = w
            THEN LET i == CHOOSE j \in given : holder[j] = w
                 IN  Assigned(S, i, AtZero(S[i]), estimate /\ AtZero(S[i]))
            ELSE Off]
  BY <1>4, <1>5, <1>6, <1>8 DEF Launch
<1>10. ASSUME NEW i \in DOMAIN R PROVE RowTrue(R[i], written) /\ R[i] \in RowRec
  <2>1. R[i] \in RowRec /\ R[i].start <= R[i].end
    BY <1>4 DEF RowsType, validate_coverage
  <2>2. CASE R = rows
    BY <2>1, <2>2 DEF Truth, RowsHold
  <2>3. CASE \E u \in 1 .. FileSize : \E count \in 1 .. u : R = build_fresh_segments(count, u)
    <3>1. R[i].dl = 0
      BY <2>3 DEF build_fresh_segments
    <3>2. size(R[i]) \in Nat
      BY <2>1 DEF RowRec, size, Larger
    <3>3. Smaller(0, size(R[i])) = 0
      BY <3>2 DEF Smaller
    <3>4. Upto(R[i].start, 0) = {}
      BY <2>1 DEF RowRec, Upto
    <3> QED BY <2>1, <3>1, <3>3, <3>4 DEF RowTrue
  <2> QED BY <1>0, <1>9, <2>2, <2>3, StartRows
<1>11. ASSUME NEW i \in DOMAIN R
       PROVE  /\ S[i].start = R[i].start /\ S[i].end = R[i].end /\ S[i].dl = R[i].dl
              /\ S[i].state = "Completed" => Bytes(S[i]) \subseteq written
              /\ S[i].state # "Completed" => S[i].state = "Pending" /\ Upto(S[i].start, S[i].dl) \subseteq written
  <2>1. S[i] = LiveSegment(R[i])
    BY <1>5 DEF LiveSegments
  <2> QED BY <1>10, <2>1, LiveTrue
<1>12. DOMAIN segments' = DOMAIN R /\ \A i \in DOMAIN R :
          /\ segments'[i].start = S[i].start /\ segments'[i].end = S[i].end /\ segments'[i].dl = S[i].dl
          /\ segments'[i].state = IF i \in given THEN "Active" ELSE S[i].state
          /\ Open(segments'[i]) <=> Open(S[i])
  <2>1. ASSUME NEW i \in DOMAIN R
        PROVE  /\ segments'[i].start = S[i].start /\ segments'[i].end = S[i].end /\ segments'[i].dl = S[i].dl
               /\ segments'[i].state = IF i \in given THEN "Active" ELSE S[i].state
               /\ Open(segments'[i]) <=> Open(S[i])
    <3>1. S[i] \in Segment
      BY <1>7 DEF PlanType
    <3>2. CASE i \in given
      <4>1. segments'[i] = [S[i] EXCEPT !.state = "Active"] /\ S[i].state = "Pending"
        BY <1>7, <1>9, <3>2 DEF In
      <4> QED BY <3>1, <3>2, <4>1 DEF Segment, Open
    <3>3. CASE i \notin given
      BY <1>7, <1>9, <3>3
    <3> QED BY <3>2, <3>3
  <2> QED BY <1>7, <1>9, <2>1
<1>13. WorkersTrue'
  <2>1. ASSUME NEW v \in Busy'
        PROVE  /\ worker'[v].seg \in In(segments', "Active")
               /\ worker'[v].base = segments'[worker'[v].seg].start
               /\ Sound(worker'[v], written', cancelled')
    <3>1. v \in Workers /\ worker'[v].pc \in BusyPcs
      BY <2>1, BusyIsNext
    <3>2. \E j \in given : holder[j] = v
      <4>1. ~(\E j \in given : holder[j] = v) => worker'[v] = Off
        BY <1>9, <3>1
      <4> QED BY <3>1, <4>1, OffFacts DEF BusyPcs
    <3>3. PICK i : i = CHOOSE j \in given : holder[j] = v
      OBVIOUS
    <3>4. i \in given
      BY <3>2, <3>3
    <3>5. worker'[v] = Assigned(S, i, AtZero(S[i]), estimate /\ AtZero(S[i]))
      BY <1>9, <3>1, <3>2, <3>3
    <3>6. i \in DOMAIN S /\ i \in DOMAIN R /\ S[i] \in Segment /\ S[i].state = "Pending"
      BY <1>7, <3>4 DEF PlanType, In
    <3>7. Upto(S[i].start, S[i].dl) \subseteq written'
      BY <1>1, <1>11, <3>6
    <3>8. worker'[v].seg = i /\ worker'[v].base = S[i].start /\ Sound(worker'[v], written', cancelled')
      BY <3>5, <3>6, <3>7, AssignedSound
    <3> QED BY <1>12, <3>4, <3>6, <3>8 DEF In
  <2> QED BY <2>1 DEF WorkersTrue
<1>14. RowsHold'
  <2>1. ASSUME NEW i \in DOMAIN R
        PROVE  RowTrue(R[i], written) /\ i < k /\ RowOf(R[i], segments'[i], written)
    <3>1. i < k
      BY <1>7 DEF PlanType
    <3>2. RowOf(R[i], segments'[i], written)
      BY <1>11, <1>12 DEF RowOf, Open
    <3> QED BY <1>10, <3>1, <3>2
  <2> QED BY <1>1, <1>9, <2>1 DEF RowsHold
<1>15. StatesTrue'
  <2>1. ASSUME NEW i \in DOMAIN R
        PROVE  /\ segments'[i].start <= segStates'[i].end
               /\ Open(segments'[i]) => Safe(worker', written', i, segments'[i].start, segStates'[i].dl)
    <3>1. segStates'[i].end = R[i].end /\ segStates'[i].dl = S[i].dl
      BY <1>7, <1>9, <1>11
    <3>2. segments'[i].start <= segStates'[i].end
      BY <1>10, <1>11, <1>12, <3>1 DEF RowTrue
    <3> QED BY <1>1, <1>11, <1>12, <3>1, <3>2 DEF Open, Safe
  <2> QED BY <1>7, <1>9, <1>12, <2>1 DEF StatesTrue
<1>16. PlanTrue'
  <2>1. ASSUME NEW i \in DOMAIN R PROVE PartTrue(worker', written', i, segments'[i])
    <3>1. CASE Open(S[i])
      BY <1>1, <1>11, <1>12, <3>1 DEF PartTrue, Open, Safe
    <3>2. CASE ~Open(S[i])
      BY <1>1, <1>11, <1>12, <3>2 DEF PartTrue, Open, Bytes
    <3> QED BY <3>1, <3>2
  <2> QED BY <1>12, <2>1 DEF PlanTrue
<1>17. JobTrue'
  BY <1>9 DEF JobTrue
<1>18. ReportsTrue'
  <2>1. events' = <<>>
    BY <1>1 DEF IInv, Shared
  <2> QED BY <2>1 DEF ReportsTrue, IsReport
<1> QED BY <1>13, <1>14, <1>15, <1>16, <1>17, <1>18 DEF Truth

LEMMA InitTruth ==
  ASSUME Init PROVE Truth
<1>1. /\ co = "down" /\ segments = <<>> /\ segStates = <<>> /\ rows = <<>>
      /\ worker = [w \in Workers |-> Off]
  BY DEF Init
<1>2. DOMAIN segments = {} /\ DOMAIN segStates = {} /\ DOMAIN rows = {}
  BY <1>1
<1>3. Busy = {}
  <2>1. \A w \in Workers : worker[w].pc = "off"
    BY <1>1, OffFacts
  <2> QED BY <2>1 DEF Busy
<1>4. WorkersTrue
  BY <1>3 DEF WorkersTrue
<1>5. StatesTrue /\ PlanTrue /\ RowsHold
  BY <1>2 DEF StatesTrue, PlanTrue, RowsHold
<1>6. JobTrue /\ ReportsTrue
  BY <1>1 DEF JobTrue, ReportsTrue, Looped
<1> QED BY <1>4, <1>5, <1>6 DEF Truth

LEMMA StepTruth ==
  ASSUME "write" \notin Faults, Truth, IInv, [Next]_vars PROVE Truth'
<1>1. CASE Start BY <1>1, StartTruth
<1>2. CASE Coordinator
  BY <1>2, HandleDoneTruth, AssignTruth, PersistTruth, PublishTruth, HandleLargerTruth, EventsTruth,
     RedispatchTruth, MergeRowsTruth, MergeSegmentsTruth, LoopTruth, FillTruth, FinishTruth DEF Coordinator
<1>3. CASE ProactiveTick BY <1>3, ProactiveTickTruth
<1>4. CASE RampTick BY <1>4, LoopTruth
<1>5. CASE Crash BY <1>5, CrashTruth
<1>6. CASE \/ UserCancel
           \/ \E w \in Workers : Worker(w) \/ Trouble(w) \/ PeriodicFlush(w) \/ FlushTick(w)
  BY <1>6, WorkersTruth
<1>7. CASE UNCHANGED vars
  <2>1. UNCHANGED <<segments, nextIndex, co, job, segStates, rows, written, events, worker, cancelled>>
    BY <1>7 DEF vars
  <2>2. AtWork
    BY <2>1 DEF AtWork, Busy
  <2> QED BY <2>1, <2>2, IdleTruth
<1> QED BY <1>1, <1>2, <1>3, <1>4, <1>5, <1>6, <1>7 DEF Next

(* As long as no write fails, what the rows call downloaded is in the file, *)
(* also right after a crash: neither a boundary that moved under a writing  *)
(* worker, nor a reassignment, a merge or a report that was overtaken makes *)
(* a hole that a resume would trust.                                        *)
THEOREM RowsNeverLie ==
  ASSUME "write" \notin Faults
  PROVE  Spec => []RowsTrue
<1>1. Init => Truth
  BY InitTruth
<1>2. Truth /\ IInv /\ [Next]_vars => Truth'
  BY StepTruth
<1>3. Truth => RowsTrue
  BY DEF Truth, RowsHold, RowTrue, RowsTrue, Claimed, Upto
<1> QED BY Inductive, <1>1, <1>2, <1>3, PTL DEF Spec

(* As long as no write fails, a segment that counts as complete has all its *)
(* bytes in the file, also when its range was changed after its worker had  *)
(* stopped: the part of NoHole that speaks of the plan.                     *)
THEOREM CompleteIsWritten ==
  ASSUME "write" \notin Faults
  PROVE  Spec => [](\A i \in DOMAIN segments :
                      segments[i].state = "Completed" => Bytes(segments[i]) \subseteq written)
<1>1. Init => Truth
  BY InitTruth
<1>2. Truth /\ IInv /\ [Next]_vars => Truth'
  BY StepTruth
<1>3. Truth => \A i \in DOMAIN segments :
                 segments[i].state = "Completed" => Bytes(segments[i]) \subseteq written
  BY DEF Truth, PlanTrue, PartTrue, Open
<1> QED BY Inductive, <1>1, <1>2, <1>3, PTL DEF Spec

=============================================================================

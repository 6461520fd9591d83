------------------------- MODULE FileSyncGateProofs -------------------------
(***************************************************************************)
(* Proofs about FileSyncGate for any number of workers, any segment size   *)
(* and any number of saves and power losses.                               *)
(***************************************************************************)
EXTENDS FileSyncGate, TLAPS

(* What is in the database, or on its way there, is on the disk; what is on *)
(* the disk, in a snapshot or seen by an fdatasync was in the page cache.   *)
Ordered ==
    \A w \in Workers :
      /\ db[w] <= disk[w] /\ table[w] <= disk[w] /\ batch[w] <= disk[w]
      /\ durable[w] <= disk[w]
      /\ disk[w] <= cached[w] /\ snap[w] <= cached[w] /\ pendOff[w] <= cached[w]
      /\ \A v \in Workers : covers[w][v] <= cached[v]

(* No instant lies in the future. *)
Stamped ==
    /\ lastStart <= clock
    /\ \A w \in Workers : /\ start[w] <= clock /\ got[w] <= clock
                           /\ snapT[w] <= clock /\ pendT[w] <= clock

(* The contract of FileSyncGate: a completed fdatasync that started at or   *)
(* after a snapshot has made it durable; one that runs is going to.         *)
Covered ==
    \A v \in Workers :
      /\ lastStart >= snapT[v] => snap[v] <= disk[v]
      /\ pendT[v] # 0 /\ lastStart >= pendT[v] => pendOff[v] <= disk[v]
      /\ got[v] >= snapT[v] => snap[v] <= disk[v]
      /\ pendT[v] # 0 /\ got[v] >= pendT[v] => pendOff[v] <= disk[v]
      /\ \A w \in Workers : Syncing(w) =>
           /\ start[w] >= snapT[v] => snap[v] <= covers[w][v]
           /\ pendT[v] # 0 /\ start[w] >= pendT[v] => pendOff[v] <= covers[w][v]

(* What each worker knows at its place in do_segment. *)
Located ==
    \A w \in Workers :
      /\ Syncing(w) => start[w] >= snapT[w]
      /\ pc[w] \in {"covering", "coverSync"} => snap[w] = buf[w]
      /\ pc[w] = "finish" => buf[w] <= disk[w]
      /\ pc[w] = "exitSync" => buf[w] <= covers[w][w]

Inv == TypeOK /\ Ordered /\ Stamped /\ Covered /\ Located

-----------------------------------------------------------------------------
(* Types *)

(* Larger of two offsets is an offset. *)
LEMMA LargerType == \A a, b \in 0..Size : Larger(a, b) \in 0..Size
BY SizeAssumption DEF Larger

(* Zero is a table of offsets and of instants. *)
LEMMA ZeroType == Zero \in [Workers -> 0..Size] /\ Zero \in [Workers -> Nat]
BY SizeAssumption DEF Zero

(* The initial state has its type. *)
LEMMA TypeInit == Init => TypeOK
<1> SUFFICES ASSUME Init PROVE TypeOK
  OBVIOUS
<1>1. pc \in [Workers -> Labels]
  BY DEF Init, Labels
<1>2. covers \in [Workers -> [Workers -> 0..Size]]
  BY ZeroType DEF Init
<1>3. QED
  BY <1>1, <1>2, ZeroType DEF Init, TypeOK

(* No step of do_segment, of the coordinator's flush or of a power loss     *)
(* leaves the types; in particular no offset passes the end of a segment.   *)
LEMMA TypeStep == TypeOK /\ [Next]_vars => TypeOK'
<1> SUFFICES ASSUME TypeOK, [Next]_vars PROVE TypeOK'
  OBVIOUS
<1> USE SizeAssumption DEF TypeOK
<1>1. ASSUME NEW w \in Workers, WriteChunk(w) PROVE TypeOK'
  <2>1. buf[w] + 1 \in 0..Size
    BY <1>1 DEF WriteChunk, BudgetLeft
  <2>2. buf' \in [Workers -> 0..Size]
    BY <1>1, <2>1 DEF WriteChunk
  <2>3. Larger(cached[w], buf[w] + 1) \in 0..Size
    BY <2>1, LargerType
  <2>4. cached' \in [Workers -> 0..Size]
    BY <1>1, <2>3 DEF WriteChunk
  <2>5. QED
    BY <1>1, <2>2, <2>4 DEF WriteChunk, gateVars, saveVars, dbVars
<1>2. ASSUME NEW w \in Workers, NEW gate \in {"stale", "covering"}, Snapshot(w, gate)
      PROVE  TypeOK'
  <2>1. clock' \in Nat
    BY <1>2 DEF Snapshot, Tick, Now
  <2>2. cached' \in [Workers -> 0..Size]
    BY <1>2, LargerType DEF Snapshot, Flush
  <2>3. snap' \in [Workers -> 0..Size]
    BY <1>2 DEF Snapshot
  <2>4. snapT' \in [Workers -> Nat]
    BY <1>2 DEF Snapshot, Now
  <2>5. pc' \in [Workers -> Labels]
    BY <1>2 DEF Snapshot, Goto, Labels
  <2>6. QED
    BY <1>2, <2>1, <2>2, <2>3, <2>4, <2>5 DEF Snapshot, dbVars
<1>3. ASSUME NEW w \in Workers, ReuseRecent(w) PROVE TypeOK'
  <2>1. got' \in [Workers -> Nat]
    BY <1>3 DEF ReuseRecent
  <2>2. pc' \in [Workers -> Labels]
    BY <1>3 DEF ReuseRecent, Goto, Labels
  <2>3. QED
    BY <1>3, <2>1, <2>2 DEF ReuseRecent, gateVars, saveVars, dbVars
<1>4. ASSUME NEW w \in Workers, ReuseCovering(w) PROVE TypeOK'
  <2>1. pc' \in [Workers -> Labels]
    BY <1>4 DEF ReuseCovering, Goto, Labels
  <2>2. QED
    BY <1>4, <2>1 DEF ReuseCovering, gateVars, saveVars, dbVars
<1>5. ASSUME NEW w \in Workers, Lead(w) PROVE TypeOK'
  <2>1. clock' \in Nat
    BY <1>5 DEF Lead, Tick, Now
  <2>2. syncing' \in BOOLEAN
    BY <1>5 DEF Lead
  <2>3. start' \in [Workers -> Nat]
    BY <1>5 DEF Lead, Now
  <2>4. covers' \in [Workers -> [Workers -> 0..Size]]
    BY <1>5, ZeroType DEF Lead, BeginSync
  <2>5. pc' \in [Workers -> Labels]
    BY <1>5 DEF Lead, Goto, Labels
  <2>6. QED
    BY <1>5, <2>1, <2>2, <2>3, <2>4, <2>5 DEF Lead, saveVars, dbVars
<1>6. ASSUME NEW w \in Workers, SyncOk(w) PROVE TypeOK'
  <2>1. disk' \in [Workers -> 0..Size]
    BY <1>6, LargerType DEF SyncOk, Synced
  <2>2. syncing' \in BOOLEAN
    BY <1>6 DEF SyncOk
  <2>3. lastStart' \in Nat /\ got' \in [Workers -> Nat]
    BY <1>6 DEF SyncOk, StartInstant
  <2>4. start' \in [Workers -> Nat]
    BY <1>6 DEF SyncOk, EndSync
  <2>5. covers' \in [Workers -> [Workers -> 0..Size]]
    BY <1>6, ZeroType DEF SyncOk, EndSync
  <2>6. pc' \in [Workers -> Labels]
    BY <1>6 DEF SyncOk, Goto, Labels
  <2>7. QED
    BY <1>6, <2>1, <2>2, <2>3, <2>4, <2>5, <2>6 DEF SyncOk, dbVars
<1>7. ASSUME NEW w \in Workers, SyncFails(w) PROVE TypeOK'
  <2>1. syncing' \in BOOLEAN
    BY <1>7 DEF SyncFails, SyncGateOpen
  <2>2. start' \in [Workers -> Nat]
    BY <1>7 DEF SyncFails, EndSync
  <2>3. covers' \in [Workers -> [Workers -> 0..Size]]
    BY <1>7, ZeroType DEF SyncFails, EndSync
  <2>4. /\ snap' \in [Workers -> 0..Size]
          /\ snapT' \in [Workers -> Nat]
          /\ got' \in [Workers -> Nat]
    BY <1>7 DEF SyncFails, Forget
  <2>5. pc' \in [Workers -> Labels]
    BY <1>7 DEF SyncFails, Goto, Labels
  <2>6. QED
    BY <1>7, <2>1, <2>2, <2>3, <2>4, <2>5 DEF SyncFails, dbVars
<1>8. ASSUME NEW w \in Workers, SaveProgress(w) PROVE TypeOK'
  <2>1. /\ durable' \in [Workers -> 0..Size]
          /\ pendOff' \in [Workers -> 0..Size]
          /\ pendT' \in [Workers -> Nat]
          /\ table' \in [Workers -> 0..Size]
    BY <1>8 DEF SaveProgress, CoveredBy
  <2>2. /\ snap' \in [Workers -> 0..Size]
          /\ snapT' \in [Workers -> Nat]
          /\ got' \in [Workers -> Nat]
    BY <1>8 DEF SaveProgress, Forget
  <2>3. pc' \in [Workers -> Labels]
    BY <1>8 DEF SaveProgress, Goto, Labels
  <2>4. QED
    BY <1>8, <2>1, <2>2, <2>3 DEF SaveProgress, gateVars
<1>9. ASSUME NEW w \in Workers, FinishSegment(w) PROVE TypeOK'
  <2>1. db' \in [Workers -> 0..Size]
    BY <1>9 DEF FinishSegment
  <2>2. /\ snap' \in [Workers -> 0..Size]
          /\ snapT' \in [Workers -> Nat]
          /\ got' \in [Workers -> Nat]
    BY <1>9 DEF FinishSegment, Forget
  <2>3. pc' \in [Workers -> Labels]
    BY <1>9 DEF FinishSegment, Goto, Labels
  <2>4. QED
    BY <1>9, <2>1, <2>2, <2>3 DEF FinishSegment, gateVars
<1>10. ASSUME NEW w \in Workers, LeaveLoop(w) PROVE TypeOK'
  <2>1. cached' \in [Workers -> 0..Size]
    BY <1>10, LargerType DEF LeaveLoop, Flush
  <2>2. covers' \in [Workers -> [Workers -> 0..Size]]
    BY <1>10, ZeroType, <2>1 DEF LeaveLoop
  <2>3. pc' \in [Workers -> Labels]
    BY <1>10 DEF LeaveLoop, Goto, Labels
  <2>4. QED
    BY <1>10, <2>1, <2>2, <2>3 DEF LeaveLoop, gateVars, saveVars, dbVars
<1>11. ASSUME NEW w \in Workers, PersistOnExit(w) PROVE TypeOK'
  <2>1. disk' \in [Workers -> 0..Size]
    <3>1. CASE Synced(w)
      BY <3>1, LargerType DEF Synced
    <3>2. CASE UNCHANGED disk
      BY <3>2
    <3>3. QED
      BY <1>11, <3>1, <3>2 DEF PersistOnExit, ExitSync
  <2>2. start' \in [Workers -> Nat]
    BY <1>11 DEF PersistOnExit, EndSync
  <2>3. covers' \in [Workers -> [Workers -> 0..Size]]
    BY <1>11, ZeroType DEF PersistOnExit, EndSync
  <2>4. db' \in [Workers -> 0..Size]
    BY <1>11 DEF PersistOnExit
  <2>5. pc' \in [Workers -> Labels]
    BY <1>11 DEF PersistOnExit, Goto, Labels
  <2>6. QED
    BY <1>11, <2>1, <2>2, <2>3, <2>4, <2>5 DEF PersistOnExit, gateVars, saveVars
<1>12. ASSUME NEW w \in Workers, Retry(w) PROVE TypeOK'
  <2>1. /\ buf' \in [Workers -> 0..Size]
          /\ durable' \in [Workers -> 0..Size]
          /\ pendOff' \in [Workers -> 0..Size]
          /\ pendT' \in [Workers -> Nat]
    BY <1>12 DEF Retry
  <2>2. pc' \in [Workers -> Labels]
    BY <1>12 DEF Retry, Goto, Labels
  <2>3. QED
    BY <1>12, <2>1, <2>2 DEF Retry, gateVars, dbVars
<1>13. CASE TakeRows
  <2>1. batch' \in [Workers -> 0..Size] /\ table' \in [Workers -> 0..Size]
    BY <1>13, ZeroType DEF TakeRows, Zero
  <2>2. QED
    BY <1>13, <2>1 DEF TakeRows, gateVars, saveVars
<1>14. CASE WriteBatch
  <2>1. db' \in [Workers -> 0..Size] /\ batch' \in [Workers -> 0..Size]
    BY <1>14, ZeroType, LargerType DEF WriteBatch, MergeRow
  <2>2. QED
    BY <1>14, <2>1 DEF WriteBatch, gateVars, saveVars
<1>15. CASE Crash
  <2>1. pc' \in [Workers -> Labels]
    BY <1>15 DEF Crash, Labels
  <2>2. covers' \in [Workers -> [Workers -> 0..Size]] /\ crashes' \in Nat
    BY <1>15, ZeroType DEF Crash
  <2>3. QED
    BY <1>15, <2>1, <2>2, ZeroType DEF Crash
<1>16. CASE UNCHANGED vars
  BY <1>16 DEF vars
<1>17. QED
  BY <1>1, <1>2, <1>3, <1>4, <1>5, <1>6, <1>7, <1>8, <1>9, <1>10, <1>11, <1>12,
     <1>13, <1>14, <1>15, <1>16 DEF Next, Worker, PeriodicSave, StreamEnd

-----------------------------------------------------------------------------
(* Durability *)

(* A flush moves bytes into the page cache and removes none. *)
LEMMA FlushFacts ==
  ASSUME TypeOK, NEW w \in Workers, Flush(w)
  PROVE  /\ buf[w] <= cached'[w]
         /\ \A v \in Workers : cached[v] <= cached'[v]
BY DEF TypeOK, Flush, Larger

(* An fdatasync makes durable what it saw when it began and loses nothing. *)
LEMMA SyncedFacts ==
  ASSUME TypeOK, Ordered, NEW w \in Workers, Synced(w)
  PROVE  \A v \in Workers : /\ covers[w][v] <= disk'[v] /\ disk[v] <= disk'[v]
                            /\ disk'[v] <= cached[v]
BY DEF TypeOK, Ordered, Synced, Larger

(* The invariant holds initially. *)
LEMMA InvInit == Init => Inv
<1> SUFFICES ASSUME Init PROVE Inv
  OBVIOUS
<1>1. Ordered /\ Stamped
  BY SizeAssumption DEF Init, Ordered, Stamped, Zero
<1>2. Covered /\ Located
  BY SizeAssumption DEF Init, Covered, Located, Zero, Syncing
<1>3. QED
  BY <1>1, <1>2, TypeInit DEF Inv

(* Unless the fdatasync on a cancelled or failed exit fails, every step     *)
(* keeps the invariant.                                                     *)
LEMMA InvStep ==
  ASSUME "exit" \notin Failing, Inv, [Next]_vars
  PROVE  Inv'
<1>t. TypeOK /\ TypeOK' /\ Ordered /\ Stamped /\ Covered /\ Located
  BY TypeStep DEF Inv
<1>1. ASSUME NEW w \in Workers, WriteChunk(w) PROVE Inv'
  <2>1. \A v \in Workers : cached[v] <= cached'[v]
    <3>1. Larger(cached[w], buf[w] + 1) >= cached[w]
      BY <1>t DEF TypeOK, Larger
    <3>2. QED
      BY <1>1, <1>t, <3>1, SMTT(30) DEF WriteChunk, TypeOK
  <2>2. Ordered'
    BY <1>1, <1>t, <2>1 DEF WriteChunk, saveVars, dbVars, TypeOK, Ordered
  <2>3. Stamped'
    BY <1>1, <1>t, <2>1 DEF WriteChunk, gateVars, saveVars, TypeOK, Stamped
  <2>4. Covered'
    BY <1>1, <1>t, <2>1 DEF WriteChunk, Goto, gateVars, saveVars, TypeOK,
       Covered, Syncing
  <2>5. Located'
    BY <1>1, <1>t, <2>1 DEF WriteChunk, Goto, saveVars, TypeOK, Located, Syncing
  <2>6. QED
    BY <1>t, <2>2, <2>3, <2>4, <2>5 DEF Inv
<1>2. ASSUME NEW w \in Workers, NEW gate \in {"stale", "covering"}, Snapshot(w, gate)
      PROVE  Inv'
  <2>1. /\ buf[w] <= cached'[w]
        /\ \A v \in Workers : cached[v] <= cached'[v]
    BY <1>2, <1>t, FlushFacts DEF Snapshot
  <2>2. Ordered'
    BY <1>2, <1>t, <2>1 DEF Snapshot, dbVars, TypeOK, Ordered
  <2>3. Stamped'
    BY <1>2, <1>t, <2>1 DEF Snapshot, Tick, Now, gateVars, saveVars, TypeOK,
       Stamped
  <2>4. Covered'
    BY <1>2, <1>t, <2>1 DEF Snapshot, Tick, Now, Goto, gateVars, saveVars,
       TypeOK, Covered, Stamped, Syncing
  <2>5. Located'
    BY <1>2, <1>t, <2>1 DEF Snapshot, Tick, Now, Goto, saveVars, TypeOK,
       Located, Syncing
  <2>6. QED
    BY <1>t, <2>2, <2>3, <2>4, <2>5 DEF Inv
<1>3. ASSUME NEW w \in Workers, ReuseRecent(w) PROVE Inv'
  <2>1. Ordered'
    BY <1>3, <1>t DEF ReuseRecent, saveVars, dbVars, TypeOK, Ordered
  <2>2. Stamped'
    BY <1>3, <1>t DEF ReuseRecent, gateVars, saveVars, TypeOK, Stamped
  <2>3. Covered'
    BY <1>3, <1>t DEF ReuseRecent, Goto, gateVars, saveVars, TypeOK, Covered,
       Syncing
  <2>4. Located'
    BY <1>3, <1>t DEF ReuseRecent, Goto, saveVars, TypeOK, Located, Syncing
  <2>5. QED
    BY <1>t, <2>1, <2>2, <2>3, <2>4 DEF Inv
<1>4. ASSUME NEW w \in Workers, ReuseCovering(w) PROVE Inv'
  <2>1. Ordered'
    BY <1>4, <1>t DEF ReuseCovering, saveVars, dbVars, TypeOK, Ordered
  <2>2. Stamped'
    BY <1>4, <1>t DEF ReuseCovering, gateVars, saveVars, TypeOK, Stamped
  <2>3. Covered'
    BY <1>4, <1>t DEF ReuseCovering, Goto, gateVars, saveVars, TypeOK, Covered,
       Syncing
  <2>4. Located'
    BY <1>4, <1>t DEF ReuseCovering, CoversSnapshot, Goto, saveVars, TypeOK,
       Located, Syncing, Covered
  <2>5. QED
    BY <1>t, <2>1, <2>2, <2>3, <2>4 DEF Inv
<1>5. ASSUME NEW w \in Workers, Lead(w) PROVE Inv'
  <2>1. Ordered'
    BY <1>5, <1>t DEF Lead, BeginSync, saveVars, dbVars, TypeOK, Ordered
  <2>2. Stamped'
    BY <1>5, <1>t DEF Lead, Tick, Now, gateVars, saveVars, TypeOK, Stamped
  <2>3. Covered'
    BY <1>5, <1>t DEF Lead, Tick, Now, BeginSync, Goto, gateVars, saveVars,
       TypeOK, Covered, Ordered, Syncing
  <2>4. Located'
    BY <1>5, <1>t DEF Lead, Tick, Now, BeginSync, Goto, saveVars, TypeOK,
       Located, Syncing, Stamped
  <2>5. QED
    BY <1>t, <2>1, <2>2, <2>3, <2>4 DEF Inv
<1>6. ASSUME NEW w \in Workers, SyncOk(w) PROVE Inv'
  <2>1. \A v \in Workers : /\ covers[w][v] <= disk'[v] /\ disk[v] <= disk'[v]
                            /\ disk'[v] <= cached[v]
    BY <1>6, <1>t, SyncedFacts DEF SyncOk
  <2>2. Ordered'
    BY <1>6, <1>t, <2>1 DEF SyncOk, EndSync, Zero, dbVars, TypeOK, Ordered
  <2>3. Stamped'
    BY <1>6, <1>t, <2>1 DEF SyncOk, StartInstant, EndSync, Zero, gateVars,
       saveVars, TypeOK, Stamped
  <2>4. Covered'
    BY <1>6, <1>t, <2>1 DEF SyncOk, StartInstant, EndSync, Zero, Goto,
       gateVars, saveVars, TypeOK, Covered, Syncing
  <2>5. Located'
    BY <1>6, <1>t, <2>1 DEF SyncOk, StartInstant, EndSync, Zero, Goto,
       saveVars, TypeOK, Located, Syncing, Covered
  <2>6. QED
    BY <1>t, <2>2, <2>3, <2>4, <2>5 DEF Inv
<1>7. ASSUME NEW w \in Workers, SyncFails(w) PROVE Inv'
  <2>1. Ordered'
    BY <1>7, <1>t DEF SyncFails, EndSync, Forget, Zero, saveVars, dbVars,
       TypeOK, Ordered
  <2>2. Stamped'
    BY <1>7, <1>t DEF SyncFails, EndSync, Forget, Zero, gateVars, saveVars,
       TypeOK, Stamped
  <2>3. Covered'
    BY <1>7, <1>t DEF SyncFails, EndSync, Forget, Zero, Goto, gateVars,
       saveVars, TypeOK, Covered, Syncing
  <2>4. Located'
    BY <1>7, <1>t DEF SyncFails, EndSync, Forget, Zero, Goto, saveVars, TypeOK,
       Located, Syncing
  <2>5. QED
    BY <1>t, <2>1, <2>2, <2>3, <2>4 DEF Inv
<1>8. ASSUME NEW w \in Workers, SaveProgress(w) PROVE Inv'
  <2>1. Ordered'
    BY <1>8, <1>t DEF SaveProgress, CoveredBy, Forget, saveVars, dbVars,
       TypeOK, Ordered, Covered
  <2>2. Stamped'
    BY <1>8, <1>t DEF SaveProgress, Forget, gateVars, saveVars, TypeOK, Stamped
  <2>3. Covered'
    BY <1>8, <1>t DEF SaveProgress, CoveredBy, Forget, Goto, gateVars,
       saveVars, TypeOK, Covered, Syncing
  <2>4. Located'
    BY <1>8, <1>t DEF SaveProgress, Forget, Goto, saveVars, TypeOK, Located,
       Syncing
  <2>5. QED
    BY <1>t, <2>1, <2>2, <2>3, <2>4 DEF Inv
<1>9. ASSUME NEW w \in Workers, FinishSegment(w) PROVE Inv'
  <2>1. Ordered'
    BY <1>9, <1>t DEF FinishSegment, Forget, saveVars, dbVars, TypeOK, Ordered,
       Located
  <2>2. Stamped'
    BY <1>9, <1>t DEF FinishSegment, Forget, gateVars, saveVars, TypeOK, Stamped
  <2>3. Covered'
    BY <1>9, <1>t DEF FinishSegment, Forget, Goto, gateVars, saveVars, TypeOK,
       Covered, Syncing
  <2>4. Located'
    BY <1>9, <1>t DEF FinishSegment, Forget, Goto, saveVars, TypeOK, Located,
       Syncing
  <2>5. QED
    BY <1>t, <2>1, <2>2, <2>3, <2>4 DEF Inv
<1>10. ASSUME NEW w \in Workers, LeaveLoop(w) PROVE Inv'
  <2>1. /\ buf[w] <= cached'[w]
        /\ \A v \in Workers : cached[v] <= cached'[v]
    BY <1>10, <1>t, FlushFacts DEF LeaveLoop
  <2>2. Ordered'
    BY <1>10, <1>t, <2>1 DEF LeaveLoop, saveVars, dbVars, TypeOK, Ordered
  <2>3. Stamped'
    BY <1>10, <1>t, <2>1 DEF LeaveLoop, gateVars, saveVars, TypeOK, Stamped
  <2>4. Covered'
    BY <1>10, <1>t, <2>1 DEF LeaveLoop, Goto, gateVars, saveVars, TypeOK,
       Covered, Syncing
  <2>5. Located'
    BY <1>10, <1>t, <2>1 DEF LeaveLoop, Goto, saveVars, TypeOK, Located, Syncing
  <2>6. QED
    BY <1>t, <2>2, <2>3, <2>4, <2>5 DEF Inv
<1>11. ASSUME NEW w \in Workers, PersistOnExit(w) PROVE Inv'
  <2>1. \A v \in Workers : /\ covers[w][v] <= disk'[v] /\ disk[v] <= disk'[v]
                            /\ disk'[v] <= cached[v]
    BY <1>11, <1>t, SyncedFacts DEF PersistOnExit, ExitSync
  <2>2. Ordered'
    BY <1>11, <1>t, <2>1 DEF PersistOnExit, EndSync, Zero, saveVars, TypeOK,
       Ordered, Located
  <2>3. Stamped'
    BY <1>11, <1>t, <2>1 DEF PersistOnExit, EndSync, Zero, gateVars, saveVars,
       TypeOK, Stamped
  <2>4. Covered'
    BY <1>11, <1>t, <2>1 DEF PersistOnExit, EndSync, Zero, Goto, gateVars,
       saveVars, TypeOK, Covered, Syncing
  <2>5. Located'
    BY <1>11, <1>t, <2>1 DEF PersistOnExit, EndSync, Zero, Goto, saveVars,
       TypeOK, Located, Syncing
  <2>6. QED
    BY <1>t, <2>2, <2>3, <2>4, <2>5 DEF Inv
<1>12. ASSUME NEW w \in Workers, Retry(w) PROVE Inv'
  <2>1. Ordered'
    BY <1>12, <1>t DEF Retry, saveVars, dbVars, TypeOK, Ordered
  <2>2. Stamped'
    BY <1>12, <1>t DEF Retry, gateVars, saveVars, TypeOK, Stamped
  <2>3. Covered'
    BY <1>12, <1>t DEF Retry, Goto, gateVars, saveVars, TypeOK, Covered, Syncing
  <2>4. Located'
    BY <1>12, <1>t DEF Retry, Goto, saveVars, TypeOK, Located, Syncing
  <2>5. QED
    BY <1>t, <2>1, <2>2, <2>3, <2>4 DEF Inv
<1>13. CASE TakeRows
  <2>1. Ordered'
    BY <1>13, <1>t DEF TakeRows, Zero, saveVars, TypeOK, Ordered
  <2>2. Stamped'
    BY <1>13, <1>t DEF TakeRows, Zero, gateVars, saveVars, TypeOK, Stamped
  <2>3. Covered'
    BY <1>13, <1>t DEF TakeRows, Zero, gateVars, saveVars, TypeOK, Covered,
       Syncing
  <2>4. Located'
    BY <1>13, <1>t DEF TakeRows, Zero, saveVars, TypeOK, Located, Syncing
  <2>5. QED
    BY <1>t, <2>1, <2>2, <2>3, <2>4 DEF Inv
<1>14. CASE WriteBatch
  <2>1. Ordered'
    BY <1>14, <1>t DEF WriteBatch, MergeRow, Larger, Zero, saveVars, TypeOK,
       Ordered
  <2>2. Stamped'
    BY <1>14, <1>t DEF WriteBatch, Zero, gateVars, saveVars, TypeOK, Stamped
  <2>3. Covered'
    BY <1>14, <1>t DEF WriteBatch, Zero, gateVars, saveVars, TypeOK, Covered,
       Syncing
  <2>4. Located'
    BY <1>14, <1>t DEF WriteBatch, Zero, saveVars, TypeOK, Located, Syncing
  <2>5. QED
    BY <1>t, <2>1, <2>2, <2>3, <2>4 DEF Inv
<1>15. CASE Crash
  <2>1. Ordered'
    BY <1>15, <1>t DEF Crash, Zero, saveVars, TypeOK, Ordered
  <2>2. Stamped'
    BY <1>15, <1>t DEF Crash, Zero, gateVars, saveVars, TypeOK, Stamped
  <2>3. Covered'
    BY <1>15, <1>t DEF Crash, Zero, gateVars, saveVars, TypeOK, Covered, Syncing
  <2>4. Located'
    BY <1>15, <1>t DEF Crash, Zero, saveVars, TypeOK, Located, Syncing
  <2>5. QED
    BY <1>t, <2>1, <2>2, <2>3, <2>4 DEF Inv
<1>16. CASE UNCHANGED vars
  BY <1>16, <1>t DEF vars, Inv, Ordered, Stamped, Covered, Located, Syncing
<1>17. QED
  BY <1>1, <1>2, <1>3, <1>4, <1>5, <1>6, <1>7, <1>8, <1>9, <1>10, <1>11, <1>12,
     <1>13, <1>14, <1>15, <1>16 DEF Next, Worker, PeriodicSave, StreamEnd

(* Every variable keeps its type, and no offset passes the end of its       *)
(* segment, for any number of workers.                                      *)
THEOREM TypeCorrect == Spec => []TypeOK
<1>1. Init => TypeOK
  BY TypeInit
<1>2. TypeOK /\ [Next]_vars => TypeOK'
  BY TypeStep
<1>3. QED
  BY <1>1, <1>2, PTL DEF Spec

(* FileSyncGate's correctness contract: as long as the fdatasync of an exit *)
(* does not fail, no offset in the database exceeds the bytes on the disk,  *)
(* whichever fdatasync the workers share and whenever power is lost.        *)
THEOREM Durability ==
  ASSUME "exit" \notin Failing
  PROVE  Spec => []DbDurable
<1>1. Init => Inv
  BY InvInit
<1>2. Inv /\ [Next]_vars => Inv'
  BY InvStep
<1>3. Inv => DbDurable
  BY DEF Inv, Ordered, DbDurable
<1>4. QED
  BY <1>1, <1>2, <1>3, PTL DEF Spec

-----------------------------------------------------------------------------
(* Finished segments *)

(* Every step keeps finished segments whole; that a segment finishes whole *)
(* follows from the invariant above.                                        *)
LEMMA FinishedStep ==
  ASSUME "exit" \notin Failing, Inv, FinishedWhole, [Next]_vars
  PROVE  FinishedWhole'
<1>t. TypeOK /\ TypeOK' /\ Ordered /\ Located
  BY TypeStep DEF Inv
<1> USE SizeAssumption
<1>1. ASSUME NEW w \in Workers, WriteChunk(w) PROVE FinishedWhole'
  BY <1>1, <1>t DEF WriteChunk, FinishedWhole, TypeOK, gateVars, saveVars, dbVars
<1>2. ASSUME NEW w \in Workers, PeriodicSave(w) PROVE FinishedWhole'
  BY <1>2, <1>t DEF PeriodicSave, Snapshot, Goto, FinishedWhole, TypeOK,
     gateVars, saveVars, dbVars
<1>3. ASSUME NEW w \in Workers, StreamEnd(w) PROVE FinishedWhole'
  BY <1>3, <1>t DEF StreamEnd, Snapshot, Goto, FinishedWhole, TypeOK, gateVars,
     saveVars, dbVars
<1>4. ASSUME NEW w \in Workers, ReuseRecent(w) PROVE FinishedWhole'
  BY <1>4, <1>t DEF ReuseRecent, Goto, FinishedWhole, TypeOK, gateVars,
     saveVars, dbVars
<1>5. ASSUME NEW w \in Workers, ReuseCovering(w) PROVE FinishedWhole'
  BY <1>5, <1>t DEF ReuseCovering, Goto, FinishedWhole, TypeOK, gateVars,
     saveVars, dbVars
<1>6. ASSUME NEW w \in Workers, Lead(w) PROVE FinishedWhole'
  BY <1>6, <1>t DEF Lead, Goto, FinishedWhole, TypeOK, gateVars, saveVars, dbVars
<1>7. ASSUME NEW w \in Workers, SyncOk(w) PROVE FinishedWhole'
  <2>1. \A v \in Workers : disk[v] <= disk'[v]
    BY <1>7, <1>t, SyncedFacts DEF SyncOk
  <2>2. ASSUME NEW v \in Workers, pc'[v] = "done"
        PROVE  disk'[v] = Size /\ db'[v] = Size
    <3>1. pc[v] = "done"
      BY <1>7, <1>t, <2>2 DEF SyncOk, Goto, TypeOK
    <3>2. QED
      <4>1. disk[v] = Size /\ db[v] = Size
        BY <3>1 DEF FinishedWhole
      <4>2. disk'[v] \in 0..Size
        BY <1>t DEF TypeOK
      <4>3. db'[v] = db[v]
        BY <1>7 DEF SyncOk, dbVars
      <4>4. QED
        BY <2>1, <4>1, <4>2, <4>3
  <2>3. QED
    BY <1>7, <1>t, <2>2 DEF SyncOk, Syncing, Goto, FinishedWhole, TypeOK, dbVars
<1>8. ASSUME NEW w \in Workers, SyncFails(w) PROVE FinishedWhole'
  BY <1>8, <1>t DEF SyncFails, Forget, Goto, FinishedWhole, TypeOK, dbVars
<1>9. ASSUME NEW w \in Workers, SaveProgress(w) PROVE FinishedWhole'
  BY <1>9, <1>t DEF SaveProgress, Forget, Goto, FinishedWhole, TypeOK,
     gateVars, saveVars, dbVars
<1>10. ASSUME NEW w \in Workers, FinishSegment(w) PROVE FinishedWhole'
  <2>1. buf[w] <= disk[w] /\ buf[w] \in 0..Size /\ disk[w] \in 0..Size
    BY <1>10, <1>t DEF FinishSegment, Located, TypeOK
  <2>2. ASSUME NEW v \in Workers, pc'[v] = "done"
        PROVE  disk'[v] = Size /\ db'[v] = Size
    <3>1. CASE v = w
      <4>1. buf[w] = Size
        BY <1>10, <1>t, <2>2, <3>1 DEF FinishSegment, Goto, TypeOK
      <4>2. QED
        BY <1>10, <1>t, <2>1, <3>1, <4>1 DEF FinishSegment, TypeOK
    <3>2. CASE v # w
      <4>1. pc[v] = "done"
        BY <1>10, <1>t, <2>2, <3>2 DEF FinishSegment, Goto, TypeOK
      <4>2. QED
        BY <1>10, <1>t, <3>2, <4>1 DEF FinishSegment, FinishedWhole, TypeOK
    <3>3. QED
      BY <3>1, <3>2
  <2>3. QED
    BY <1>10, <1>t, <2>2 DEF FinishSegment, Forget, Goto, FinishedWhole, TypeOK
<1>11. ASSUME NEW w \in Workers, LeaveLoop(w) PROVE FinishedWhole'
  BY <1>11, <1>t DEF LeaveLoop, Goto, FinishedWhole, TypeOK, gateVars,
     saveVars, dbVars
<1>12. ASSUME NEW w \in Workers, PersistOnExit(w) PROVE FinishedWhole'
  <2>1. \A v \in Workers : disk[v] <= disk'[v]
    BY <1>12, <1>t, SyncedFacts DEF PersistOnExit, ExitSync
  <2>2. ASSUME NEW v \in Workers, pc'[v] = "done"
        PROVE  disk'[v] = Size /\ db'[v] = Size
    <3>1. pc[v] = "done" /\ v # w
      BY <1>12, <1>t, <2>2 DEF PersistOnExit, Goto, TypeOK
    <3>2. QED
      <4>1. disk[v] = Size /\ db[v] = Size
        BY <3>1 DEF FinishedWhole
      <4>2. disk'[v] \in 0..Size
        BY <1>t DEF TypeOK
      <4>3. db'[v] = db[v]
        BY <1>12, <1>t, <3>1 DEF PersistOnExit, TypeOK
      <4>4. QED
        BY <2>1, <4>1, <4>2, <4>3
  <2>3. QED
    BY <1>12, <1>t, <2>2 DEF PersistOnExit, Goto, FinishedWhole, TypeOK, saveVars
<1>13. ASSUME NEW w \in Workers, Retry(w) PROVE FinishedWhole'
  BY <1>13, <1>t DEF Retry, Goto, FinishedWhole, TypeOK, gateVars, saveVars,
     dbVars
<1>14. CASE TakeRows
  BY <1>14, <1>t DEF TakeRows, Zero, FinishedWhole, TypeOK, gateVars, saveVars
<1>15. CASE WriteBatch
  BY <1>15, <1>t DEF WriteBatch, MergeRow, Larger, Zero, FinishedWhole, TypeOK,
     gateVars, saveVars
<1>16. CASE Crash
  BY <1>16, <1>t DEF Crash, Zero, Ordered, FinishedWhole, TypeOK, gateVars,
     saveVars
<1>17. CASE UNCHANGED vars
  BY <1>17, <1>t DEF vars, FinishedWhole
<1>18. QED
  BY <1>1, <1>2, <1>3, <1>4, <1>5, <1>6, <1>7, <1>8, <1>9, <1>10, <1>11, <1>12,
     <1>13, <1>14, <1>15, <1>16, <1>17 DEF Next, Worker

(* A finished segment is whole on the disk and in the database, before and  *)
(* after any power loss and whatever older offsets are still on their way.  *)
THEOREM Finished ==
  ASSUME "exit" \notin Failing
  PROVE  Spec => []FinishedWhole
<1>1. Init => Inv /\ FinishedWhole
  BY InvInit DEF Init, FinishedWhole
<1>2. Inv /\ FinishedWhole /\ [Next]_vars => Inv' /\ FinishedWhole'
  BY InvStep, FinishedStep
<1>3. QED
  BY <1>1, <1>2, PTL DEF Spec

-----------------------------------------------------------------------------
(* The gate *)

(* A step of a worker that neither begins nor ends an fdatasync of the gate *)
(* keeps GateSerial.                                                        *)
LEMMA SerialFrame ==
  ASSUME GateSerial, UNCHANGED syncing,
         \A v \in Workers : Syncing(v)' <=> Syncing(v)
  PROVE  GateSerial'
BY DEF GateSerial

(* Every step keeps GateSerial. *)
LEMMA SerialStep ==
  ASSUME TypeOK, GateSerial, [Next]_vars
  PROVE  GateSerial'
<1>1. ASSUME NEW w \in Workers, Lead(w) PROVE GateSerial'
  <2>1. Syncing(w)' /\ (\A v \in Workers \ {w} : Syncing(v)' <=> Syncing(v))
    BY <1>1 DEF Lead, Goto, Syncing, TypeOK
  <2>2. syncing' = TRUE /\ (\A v \in Workers : ~Syncing(v))
    BY <1>1 DEF Lead, GateSerial
  <2>3. QED
    BY <2>1, <2>2, Zenon DEF GateSerial
<1>2. ASSUME NEW w \in Workers, SyncOk(w) \/ SyncFails(w) PROVE GateSerial'
  <2>1. ~Syncing(w)' /\ (\A v \in Workers \ {w} : Syncing(v)' <=> Syncing(v))
    BY <1>2 DEF SyncOk, SyncFails, Goto, Syncing, TypeOK
  <2>2. syncing' = FALSE /\ (\A v \in Workers : Syncing(v) => v = w)
    BY <1>2 DEF SyncOk, SyncFails, SyncGateOpen, GateSerial
  <2>3. QED
    BY <2>1, <2>2, Zenon DEF GateSerial
<1>3. ASSUME NEW w \in Workers,
             WriteChunk(w) \/ PeriodicSave(w) \/ StreamEnd(w) \/ ReuseRecent(w)
             \/ ReuseCovering(w) \/ SaveProgress(w) \/ FinishSegment(w)
             \/ LeaveLoop(w) \/ PersistOnExit(w) \/ Retry(w)
      PROVE  GateSerial'
  <2>1. UNCHANGED syncing
    BY <1>3 DEF WriteChunk, PeriodicSave, StreamEnd, Snapshot, ReuseRecent,
       ReuseCovering, SaveProgress, FinishSegment, LeaveLoop, PersistOnExit,
       Retry, gateVars
  <2>2. \A v \in Workers : Syncing(v)' <=> Syncing(v)
    BY <1>3 DEF WriteChunk, PeriodicSave, StreamEnd, Snapshot, ReuseRecent,
       ReuseCovering, SaveProgress, FinishSegment, LeaveLoop, PersistOnExit,
       Retry, Goto, Syncing, TypeOK
  <2>3. QED
    BY <2>1, <2>2, SerialFrame
<1>4. CASE TakeRows \/ WriteBatch \/ UNCHANGED vars
  BY <1>4, SerialFrame DEF TakeRows, WriteBatch, gateVars, vars, Syncing
<1>5. CASE Crash
  BY <1>5 DEF Crash, GateSerial, Syncing
<1>6. QED
  BY <1>1, <1>2, <1>3, <1>4, <1>5 DEF Next, Worker

(* At most one fdatasync of the gate runs at a time, and the gate is shut   *)
(* exactly while it runs, whether it succeeds or fails.                     *)
THEOREM Serial == Spec => []GateSerial
<1>1. Init => TypeOK /\ GateSerial
  BY TypeInit DEF Init, GateSerial, Syncing
<1>2. TypeOK /\ GateSerial /\ [Next]_vars => TypeOK' /\ GateSerial'
  BY TypeStep, SerialStep
<1>3. QED
  BY <1>1, <1>2, PTL DEF Spec

=============================================================================

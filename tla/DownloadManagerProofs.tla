------------------------ MODULE DownloadManagerProofs ------------------------
(***************************************************************************)
(* Proofs about DownloadManager, for any number of tasks, queues, commands *)
(* and restarts.                                                           *)
(***************************************************************************)
EXTENDS DownloadManager, FiniteSetTheorems, WellFoundedInduction, SequenceTheorems, TLAPS

-----------------------------------------------------------------------------
(* Induction over the naturals, for a set of naturals instead of a          *)
(* predicate; and what Without computes.                                    *)

LEMMA SetInduction ==
  ASSUME NEW S \in SUBSET Nat, 0 \in S, \A n \in S : n + 1 \in S
  PROVE  S = Nat
<1> DEFINE R == {p \in Nat \X Nat : p[1] < p[2]}
<1> SUFFICES ASSUME Nat \ S # {} PROVE FALSE
  OBVIOUS
<1>1. IsWellFoundedOn(R, Nat)
  BY NatLessThanWellFounded DEF OpToRel
<1> HIDE DEF R
<1>2. PICK n \in Nat \ S : \A m \in Nat \ S : <<m, n>> \notin R
  BY <1>1, WFMin
<1>3. n - 1 \in Nat /\ n - 1 < n
  OBVIOUS
<1>4. <<n - 1, n>> \in R
  BY <1>3 DEF R
<1>5. n - 1 \in S
  BY <1>2, <1>3, <1>4
<1> QED BY <1>5

(* One step of the loop of Without, and the table of its results up to n. *)
Retain(q, S, i, r) == IF q[i] \in S THEN r ELSE Append(r, q[i])
Retained(q, S, f, n) ==
    f = [i \in 0..n |-> IF i = 0 THEN <<>> ELSE Retain(q, S, i, f[i - 1])]

LEMMA RetainedExists ==
  ASSUME NEW q, NEW S
  PROVE  \A n \in Nat : \E f : Retained(q, S, f, n)
<1> DEFINE N == {n \in Nat : \E f : Retained(q, S, f, n)}
<1>1. 0 \in N
  <2> DEFINE g == [i \in 0..0 |-> <<>>]
  <2>1. Retained(q, S, g, 0)
    BY DEF Retained
  <2> QED BY <2>1
<1>2. ASSUME NEW n \in N PROVE n + 1 \in N
  <2>1. PICK f : Retained(q, S, f, n)
    OBVIOUS
  <2> DEFINE g == [i \in 0..(n + 1) |-> IF i = n + 1 THEN Retain(q, S, n + 1, f[n]) ELSE f[i]]
  <2>2. \A i \in 0..n : f[i] = IF i = 0 THEN <<>> ELSE Retain(q, S, i, f[i - 1])
    BY <2>1 DEF Retained
  <2>3. ASSUME NEW i \in 0..(n + 1)
        PROVE g[i] = IF i = 0 THEN <<>> ELSE Retain(q, S, i, g[i - 1])
    <3>1. CASE i = n + 1
      BY <3>1
    <3>2. CASE i \in 0..n
      BY <3>2, <2>2
    <3> QED BY <3>1, <3>2
  <2>4. g = [i \in 0..(n + 1) |-> IF i = 0 THEN <<>> ELSE Retain(q, S, i, g[i - 1])]
    <3> HIDE DEF g
    <3>1. g = [i \in 0..(n + 1) |-> g[i]]
      BY DEF g
    <3> QED BY <2>3, <3>1
  <2> HIDE DEF g
  <2>5. Retained(q, S, g, n + 1)
    BY <2>4 DEF Retained
  <2> QED BY <2>5
<1> HIDE DEF N
<1>3. N = Nat
  BY <1>1, <1>2, SetInduction DEF N
<1> QED BY <1>3 DEF N

LEMMA SeqFacts ==
  ASSUME NEW T
  PROVE  /\ <<>> \in Seq(T)
         /\ \A q \in Seq(T) : q # <<>> => Head(q) \in T /\ Tail(q) \in Seq(T)
         /\ \A q \in Seq(T), x \in T : Append(q, x) \in Seq(T)
OBVIOUS

LEMMA TupleFacts ==
  ASSUME NEW a, NEW b
  PROVE  /\ <<a>> # <<>> /\ Len(<<a>>) = 1 /\ <<a>>[1] = a /\ Head(<<a>>) = a
         /\ <<a, b>> # <<>> /\ Len(<<a, b>>) = 2 /\ <<a, b>>[1] = a /\ <<a, b>>[2] = b
         /\ Head(<<a, b>>) = a
OBVIOUS

LEMMA EmptyTail ==
  ASSUME NEW T, NEW q \in Seq(T), Len(q) = 1
  PROVE  Tail(q) = <<>>
<1>1. q # <<>>
  BY EmptySeq
<1>2. Tail(q) \in Seq(T) /\ Len(Tail(q)) = 0
  BY <1>1, HeadTailProperties
<1> QED BY <1>2, EmptySeq

LEMMA AppendFacts ==
  ASSUME NEW T, NEW r \in Seq(T), NEW x \in T
  PROVE  /\ Append(r, x) \in Seq(T)
         /\ QueuedTasks(Append(r, x)) = QueuedTasks(r) \cup {x}
BY DEF QueuedTasks

(* retain keeps exactly the entries of the other tasks. *)
LEMMA WithoutFacts ==
  ASSUME NEW T, NEW q \in Seq(T), NEW S
  PROVE  /\ Without(q, S) \in Seq(T)
         /\ QueuedTasks(Without(q, S)) = QueuedTasks(q) \ S
<1> DEFINE f == CHOOSE g : g = [i \in 0..Len(q) |->
                                  IF i = 0 THEN <<>>
                                  ELSE IF q[i] \in S THEN g[i - 1] ELSE Append(g[i - 1], q[i])]
<1>1. Without(q, S) = f[Len(q)]
  BY DEF Without
<1>2. Retained(q, S, f, Len(q))
  <2>1. Len(q) \in Nat
    OBVIOUS
  <2>2. PICK h : Retained(q, S, h, Len(q))
    BY RetainedExists, <2>1
  <2>3. h = [i \in 0..Len(q) |->
               IF i = 0 THEN <<>> ELSE IF q[i] \in S THEN h[i - 1] ELSE Append(h[i - 1], q[i])]
    BY <2>2, Zenon DEF Retained, Retain
  <2>4. f = [i \in 0..Len(q) |->
               IF i = 0 THEN <<>> ELSE IF q[i] \in S THEN f[i - 1] ELSE Append(f[i - 1], q[i])]
    BY <2>3, Zenon
  <2> HIDE DEF f
  <2> QED BY <2>4, Zenon DEF Retained, Retain
<1> HIDE DEF f
<1>3. f[0] = <<>> /\ \A i \in 1..Len(q) : f[i] = Retain(q, S, i, f[i - 1])
  BY <1>2 DEF Retained
<1> DEFINE N == {n \in Nat : n <= Len(q) => /\ f[n] \in Seq(T)
                                            /\ QueuedTasks(f[n]) = {q[i] : i \in 1..n} \ S}
<1>4. 0 \in N
  <2>1. 1..0 = {} /\ <<>> \in Seq(T) /\ Len(<<>>) = 0
    OBVIOUS
  <2>2. QueuedTasks(<<>>) = {}
    BY <2>1 DEF QueuedTasks
  <2> QED BY <1>3, <2>1, <2>2
<1>5. ASSUME NEW n \in N PROVE n + 1 \in N
  <2> SUFFICES ASSUME n + 1 <= Len(q)
               PROVE /\ f[n + 1] \in Seq(T)
                     /\ QueuedTasks(f[n + 1]) = {q[i] : i \in 1..(n + 1)} \ S
    OBVIOUS
  <2>1. /\ f[n] \in Seq(T) /\ QueuedTasks(f[n]) = {q[i] : i \in 1..n} \ S
        /\ f[n + 1] = Retain(q, S, n + 1, f[n]) /\ q[n + 1] \in T
    BY <1>3
  <2>2. {q[i] : i \in 1..(n + 1)} = {q[i] : i \in 1..n} \cup {q[n + 1]}
    OBVIOUS
  <2>3. CASE q[n + 1] \in S
    BY <2>1, <2>2, <2>3 DEF Retain
  <2>4. CASE q[n + 1] \notin S
    BY <2>1, <2>2, <2>4, AppendFacts DEF Retain
  <2> QED BY <2>3, <2>4
<1> HIDE DEF N
<1>6. N = Nat
  BY <1>4, <1>5, SetInduction DEF N
<1> QED BY <1>1, <1>6 DEF N, QueuedTasks

-----------------------------------------------------------------------------
(* The agenda as a set of operations *)

OpsOf(a) == {a[i] : i \in 1..Len(a)}

(* The fields an operation has. *)
LEMMA OpFields ==
  ASSUME NEW o \in Op
  PROVE  /\ o.op = "drainLoop" => /\ o.rest \in Seq(Tasks) /\ o.kept \in Seq(Tasks)
                                  /\ o \in [op : {"drainLoop"}, rest : Seq(Tasks), kept : Seq(Tasks)]
         /\ o.op \in {"finish", "reap"} => o.gen \in Nat /\ o.task \in Tasks
         /\ o.op \in {"unboost", "autoPause", "pauseBatch", "loadBatch", "eraseBatch", "forget"}
              => /\ o.set \in SUBSET Tasks
                 /\ o \in [op : {"unboost", "autoPause", "pauseBatch", "loadBatch", "eraseBatch",
                                 "forget"}, set : SUBSET Tasks]
         /\ o.op = "reapBatch" => o.set \in SUBSET Tasks /\ o.gens \in SUBSET Nat
         /\ o.op = "resumeBatch" => o \in [op : {"resumeBatch"}, queued : SUBSET Tasks,
                                           rows : [Tasks -> Live \cup {"none"}]]
         /\ o.op = "boostStart" => o.task \in Tasks /\ o.queued \in BOOLEAN
BY DEF Op

LEMMA OpForms ==
  /\ Drain \in Op /\ Sync \in Op /\ ClearBoost \in Op
  /\ \A t \in Tasks, n \in {"pause", "resume", "resumeAuto", "guardBoost", "reset", "retry",
                            "erase", "boostActive", "boostQueued", "boostStray", "boostCheck"} :
        Do(n, t) \in Op
  /\ \A t \in Tasks, g \in Nat, n \in {"finish", "reap"} : [op |-> n, task |-> t, gen |-> g] \in Op
  /\ \A r \in Seq(Tasks), k \in Seq(Tasks) : [op |-> "drainLoop", rest |-> r, kept |-> k] \in Op
  /\ \A S \in SUBSET Tasks, n \in {"unboost", "autoPause", "pauseBatch", "loadBatch",
                                   "eraseBatch", "forget"} : [op |-> n, set |-> S] \in Op
  /\ \A S \in SUBSET Tasks, G \in SUBSET Nat : [op |-> "reapBatch", set |-> S, gens |-> G] \in Op
  /\ \A Q \in SUBSET Tasks, r \in [Tasks -> Live \cup {"none"}] :
        [op |-> "resumeBatch", queued |-> Q, rows |-> r] \in Op
  /\ \A t \in Tasks, b \in BOOLEAN : [op |-> "boostStart", task |-> t, queued |-> b] \in Op
BY DEF Op, Drain, Sync, ClearBoost, Do

(* What Continue makes of the agenda. *)
LEMMA ContinueFacts ==
  ASSUME NEW a \in Seq(Op), a # <<>>, NEW ops \in Seq(Op)
  PROVE  /\ ops \o Tail(a) \in Seq(Op) /\ Head(a) \in Op /\ Tail(a) \in Seq(Op)
         /\ OpsOf(a) = {Head(a)} \cup OpsOf(Tail(a))
         /\ OpsOf(ops \o Tail(a)) = OpsOf(ops) \cup OpsOf(Tail(a))
<1>1. /\ ops \o Tail(a) \in Seq(Op) /\ Head(a) \in Op /\ Tail(a) \in Seq(Op)
      /\ Len(a) \in Nat \ {0} /\ Len(ops) \in Nat /\ Len(Tail(a)) = Len(a) - 1
      /\ Head(a) = a[1] /\ \A i \in 1..(Len(a) - 1) : Tail(a)[i] = a[i + 1]
      /\ Len(ops \o Tail(a)) = Len(ops) + Len(a) - 1
      /\ \A i \in 1..(Len(ops) + Len(a) - 1) :
            (ops \o Tail(a))[i] = IF i <= Len(ops) THEN ops[i] ELSE Tail(a)[i - Len(ops)]
  OBVIOUS
<1>2. OpsOf(a) = {Head(a)} \cup OpsOf(Tail(a))
  <2>1. ASSUME NEW i \in 1..Len(a) PROVE a[i] \in {Head(a)} \cup OpsOf(Tail(a))
    <3>1. i = 1 \/ (i - 1 \in 1..(Len(a) - 1) /\ Tail(a)[i - 1] = a[i])
      BY <1>1
    <3> QED BY <1>1, <3>1 DEF OpsOf
  <2>2. ASSUME NEW i \in 1..Len(Tail(a)) PROVE Tail(a)[i] \in OpsOf(a)
    BY <1>1 DEF OpsOf
  <2>3. Head(a) \in OpsOf(a)
    BY <1>1 DEF OpsOf
  <2> QED BY <2>1, <2>2, <2>3 DEF OpsOf
<1>3. OpsOf(ops \o Tail(a)) = OpsOf(ops) \cup OpsOf(Tail(a))
  <2> DEFINE c == ops \o Tail(a)
  <2>1. ASSUME NEW i \in 1..Len(c) PROVE c[i] \in OpsOf(ops) \cup OpsOf(Tail(a))
    <3>1. (i \in 1..Len(ops) /\ c[i] = ops[i])
          \/ (i - Len(ops) \in 1..Len(Tail(a)) /\ c[i] = Tail(a)[i - Len(ops)])
      BY <1>1
    <3> HIDE DEF c
    <3> QED BY <3>1 DEF OpsOf
  <2>2. ASSUME NEW i \in 1..Len(ops) PROVE ops[i] \in OpsOf(c)
    <3>1. i \in 1..Len(c) /\ c[i] = ops[i]
      BY <1>1
    <3> HIDE DEF c
    <3> QED BY <3>1 DEF OpsOf
  <2>3. ASSUME NEW i \in 1..Len(Tail(a)) PROVE Tail(a)[i] \in OpsOf(c)
    <3>1. i + Len(ops) \in 1..Len(c) /\ c[i + Len(ops)] = Tail(a)[i]
      BY <1>1
    <3> HIDE DEF c
    <3> QED BY <3>1 DEF OpsOf
  <2> HIDE DEF c
  <2>4. OpsOf(c) = OpsOf(ops) \cup OpsOf(Tail(a))
    BY <2>1, <2>2, <2>3 DEF OpsOf
  <2> QED BY <2>4 DEF c
<1> QED BY <1>1, <1>2, <1>3

(* The short sequences handlers put in front. *)
LEMMA ShortSeqs ==
  ASSUME NEW a \in Op, NEW b \in Op, NEW c \in Op
  PROVE  /\ <<>> \in Seq(Op) /\ OpsOf(<<>>) = {}
         /\ <<a>> \in Seq(Op) /\ OpsOf(<<a>>) = {a}
         /\ <<a, b>> \in Seq(Op) /\ OpsOf(<<a, b>>) = {a, b}
         /\ <<a, b, c>> \in Seq(Op) /\ OpsOf(<<a, b, c>>) = {a, b, c}
         /\ \A p : /\ Opt(p, a) \in Seq(Op) /\ OpsOf(Opt(p, a)) = IF p THEN {a} ELSE {}
BY DEF OpsOf, Opt

LEMMA CatFacts ==
  ASSUME NEW a \in Seq(Op), NEW b \in Seq(Op)
  PROVE  a \o b \in Seq(Op) /\ OpsOf(a \o b) = OpsOf(a) \cup OpsOf(b)
<1> DEFINE c == a \o b
<1>1. /\ c \in Seq(Op) /\ Len(a) \in Nat /\ Len(b) \in Nat /\ Len(c) = Len(a) + Len(b)
      /\ \A i \in 1..(Len(a) + Len(b)) : c[i] = IF i <= Len(a) THEN a[i] ELSE b[i - Len(a)]
  OBVIOUS
<1> HIDE DEF c
<1>2. ASSUME NEW i \in 1..Len(c) PROVE c[i] \in OpsOf(a) \cup OpsOf(b)
  <2>1. (i \in 1..Len(a) /\ c[i] = a[i]) \/ (i - Len(a) \in 1..Len(b) /\ c[i] = b[i - Len(a)])
    BY <1>1
  <2> QED BY <2>1 DEF OpsOf
<1>3. ASSUME NEW i \in 1..Len(a) PROVE a[i] \in OpsOf(c)
  <2>1. i \in 1..Len(c) /\ c[i] = a[i]
    BY <1>1
  <2> QED BY <2>1 DEF OpsOf
<1>4. ASSUME NEW i \in 1..Len(b) PROVE b[i] \in OpsOf(c)
  <2>1. /\ i + Len(a) \in 1..(Len(a) + Len(b)) /\ ~(i + Len(a) <= Len(a))
        /\ (i + Len(a)) - Len(a) = i
    BY <1>1
  <2>2. c[i + Len(a)] = b[i]
    BY <1>1, <2>1
  <2> QED BY <1>1, <2>1, <2>2 DEF OpsOf
<1>5. OpsOf(c) = OpsOf(a) \cup OpsOf(b)
  BY <1>2, <1>3, <1>4 DEF OpsOf
<1> QED BY <1>1, <1>5 DEF c

(* Taking one task out of the set an operation still has to go through, and *)
(* one step of a batch.                                                     *)
LEMMA OpEdits ==
  ASSUME NEW o \in Op,
         o.op \in {"unboost", "autoPause", "pauseBatch", "loadBatch", "eraseBatch", "forget"}
  PROVE  \A t : /\ [o EXCEPT !.set = @ \ {t}] \in Op
                /\ [o EXCEPT !.set = @ \ {t}].op = o.op
                /\ [o EXCEPT !.set = @ \ {t}].set = o.set \ {t}
<1> TAKE t
<1>1. o \in [op : {"unboost", "autoPause", "pauseBatch", "loadBatch", "eraseBatch", "forget"},
             set : SUBSET Tasks]
  BY OpFields
<1>2. [o EXCEPT !.set = @ \ {t}] = [op |-> o.op, set |-> o.set \ {t}]
  BY <1>1
<1>3. o.set \ {t} \in SUBSET Tasks
  BY <1>1
<1>4. [op |-> o.op, set |-> o.set \ {t}] \in Op
  BY <1>3, OpForms
<1> QED BY <1>2, <1>4

LEMMA BatchEdits ==
  ASSUME NEW o \in Op, o.op = "resumeBatch", NEW t \in Tasks
  PROVE  /\ [o EXCEPT !.rows[t] = "none"] \in Op
         /\ [o EXCEPT !.rows[t] = "none"].op = "resumeBatch"
         /\ [o EXCEPT !.rows[t] = "none"].queued \in SUBSET Tasks
<1> DEFINE r == [o.rows EXCEPT ![t] = "none"]
<1>1. o \in [op : {"resumeBatch"}, queued : SUBSET Tasks, rows : [Tasks -> Live \cup {"none"}]]
  BY OpFields
<1>2. r \in [Tasks -> Live \cup {"none"}] /\ o.queued \in SUBSET Tasks
  BY <1>1
<1>3. [o EXCEPT !.rows[t] = "none"] = [op |-> "resumeBatch", queued |-> o.queued, rows |-> r]
  BY <1>1
<1> HIDE DEF r
<1> QED BY <1>2, <1>3, OpForms

LEMMA QueuedEdits ==
  ASSUME NEW o \in Op, o.op = "resumeBatch", NEW Q \in SUBSET Tasks
  PROVE  [o EXCEPT !.queued = Q] \in Op /\ [o EXCEPT !.queued = Q].op = "resumeBatch"
<1>1. o \in [op : {"resumeBatch"}, queued : SUBSET Tasks, rows : [Tasks -> Live \cup {"none"}]]
  BY OpFields
<1>2. [o EXCEPT !.queued = Q] = [op |-> "resumeBatch", queued |-> Q, rows |-> o.rows]
  BY <1>1
<1>3. o.rows \in [Tasks -> Live \cup {"none"}]
  BY <1>1
<1> QED BY <1>2, <1>3, OpForms

-----------------------------------------------------------------------------
(* Type correctness *)

LEMMA RunningFacts ==
  ASSUME TypeOK, NEW n, Running(n)
  PROVE  agenda \in Seq(Op) /\ agenda # <<>> /\ Head(agenda) \in Op /\ Head(agenda).op = n
BY DEF TypeOK, Running

(* A status is written to a row, never to a task without one. *)
LEMMA UpdateStatusFacts ==
  ASSUME TypeOK, NEW t \in Tasks, NEW s \in Live \cup {"deleted"},
         NEW e \in {"", "cancelled", "retriable", "fatal"}
  PROVE  /\ UpdateStatus(t, s, e) \in [Tasks -> Row]
         /\ \A u \in Tasks : UpdateStatus(t, s, e)[u].status = "none" <=> db[u].status = "none"
<1>1. db \in [Tasks -> Row] /\ s # "none" /\ [status |-> s, err |-> e] \in Row
  BY DEF TypeOK, Row, Live
<1>2. CASE HasRow(t)
  <2>1. db[t].status # "none"
    BY <1>2 DEF HasRow, Live
  <2> QED BY <1>1, <1>2, <2>1 DEF UpdateStatus
<1>3. CASE ~HasRow(t)
  BY <1>1, <1>3 DEF UpdateStatus
<1> QED BY <1>2, <1>3

TypeStarted == /\ active' \in [Tasks -> [gen : Nat, spawned : BOOLEAN]]
               /\ resolving' \in [Tasks -> Nat]
               /\ gen' \in Nat
               /\ spawns' \subseteq Spawn
               /\ outcomes' \subseteq [task : Tasks, gen : Nat]

LEMMA TypeStart ==
  ASSUME TypeOK, NEW t \in Tasks, do_start_task(t) \/ do_resume_task(t)
  PROVE  TypeStarted
<1>1. gen + 1 \in Nat
  BY DEF TypeOK
<1>2. [gen |-> gen + 1, spawned |-> TRUE] \in [gen : Nat, spawned : BOOLEAN]
      /\ [gen |-> gen + 1, spawned |-> FALSE] \in [gen : Nat, spawned : BOOLEAN]
  BY <1>1
<1>3. [gen |-> gen + 1, task |-> t, pc |-> "start", cancelled |-> FALSE] \in Spawn
  BY <1>1 DEF Spawn
<1>4. CASE SpawnDownload(t) /\ UNCHANGED <<resolving, outcomes>>
  BY <1>1, <1>2, <1>3, <1>4 DEF TypeOK, TypeStarted, SpawnDownload
<1>5. CASE BeginResolve(t) /\ UNCHANGED spawns
  BY <1>1, <1>2, <1>5, SMTT(30) DEF TypeOK, TypeStarted, BeginResolve
<1>6. CASE UNCHANGED <<active, gen, spawns, resolving, outcomes>>
  BY <1>6 DEF TypeOK, TypeStarted
<1> QED BY <1>4, <1>5, <1>6 DEF do_start_task, do_resume_task

LEMMA TypeCancelToken ==
  ASSUME TypeOK, NEW G
  PROVE  {IF s.gen \in G THEN [s EXCEPT !.cancelled = TRUE] ELSE s : s \in spawns} \subseteq Spawn
<1>1. ASSUME NEW s \in spawns PROVE s \in Spawn /\ [s EXCEPT !.cancelled = TRUE] \in Spawn
  BY DEF TypeOK, Spawn
<1> QED BY <1>1

LEMMA CancelTokenForm ==
  ASSUME NEW g
  PROVE  CancelToken(g) = {IF s.gen \in {g} THEN [s EXCEPT !.cancelled = TRUE] ELSE s : s \in spawns}
BY DEF CancelToken

LEMMA TypeTables ==
  ASSUME TypeOK, NEW t \in Tasks
  PROVE  /\ [active EXCEPT ![t] = NoEntry] \in [Tasks -> [gen : Nat, spawned : BOOLEAN]]
         /\ [pauses EXCEPT ![t] = NoPause] \in [Tasks -> [gen : Nat, resume : BOOLEAN]]
         /\ [pauses EXCEPT ![t].resume = TRUE] \in [Tasks -> [gen : Nat, resume : BOOLEAN]]
         /\ [pauses EXCEPT ![t] = [gen |-> active[t].gen, resume |-> FALSE]]
              \in [Tasks -> [gen : Nat, resume : BOOLEAN]]
         /\ [resolving EXCEPT ![t] = 0] \in [Tasks -> Nat]
         /\ [retryCount EXCEPT ![t] = 0] \in [Tasks -> Nat]
         /\ Unqueue(queue, t) \in Seq(Tasks)
         /\ Append(queue, t) \in Seq(Tasks)
         /\ active[t].gen \in Nat /\ CancelToken(active[t].gen) \subseteq Spawn
<1>1. /\ active \in [Tasks -> [gen : Nat, spawned : BOOLEAN]]
      /\ pauses \in [Tasks -> [gen : Nat, resume : BOOLEAN]]
      /\ queue \in Seq(Tasks)
  BY DEF TypeOK
<1>2. NoEntry \in [gen : Nat, spawned : BOOLEAN] /\ NoPause \in [gen : Nat, resume : BOOLEAN]
  BY DEF NoEntry, NoPause
<1>3. active[t].gen \in Nat
  BY <1>1
<1>4. [gen |-> active[t].gen, resume |-> FALSE] \in [gen : Nat, resume : BOOLEAN]
  BY <1>3
<1>5. [pauses[t] EXCEPT !.resume = TRUE] \in [gen : Nat, resume : BOOLEAN]
  BY <1>1
<1>6. [pauses EXCEPT ![t].resume = TRUE] \in [Tasks -> [gen : Nat, resume : BOOLEAN]]
  BY <1>1, <1>5
<1>7. CancelToken(active[t].gen) \subseteq Spawn
  BY TypeCancelToken, CancelTokenForm
<1>8. Unqueue(queue, t) \in Seq(Tasks)
  BY <1>1, WithoutFacts DEF Unqueue
<1>9. Append(queue, t) \in Seq(Tasks)
  BY <1>1
<1>10. [resolving EXCEPT ![t] = 0] \in [Tasks -> Nat] /\ [retryCount EXCEPT ![t] = 0] \in [Tasks -> Nat]
  BY DEF TypeOK
<1>11. /\ [active EXCEPT ![t] = NoEntry] \in [Tasks -> [gen : Nat, spawned : BOOLEAN]]
       /\ [pauses EXCEPT ![t] = NoPause] \in [Tasks -> [gen : Nat, resume : BOOLEAN]]
       /\ [pauses EXCEPT ![t] = [gen |-> active[t].gen, resume |-> FALSE]]
              \in [Tasks -> [gen : Nat, resume : BOOLEAN]]
  BY <1>1, <1>2, <1>4
<1> QED BY <1>3, <1>6, <1>7, <1>8, <1>9, <1>10, <1>11

LEMMA TypeContinue ==
  ASSUME TypeOK, agenda # <<>>, NEW ops \in Seq(Op), Continue(ops)
  PROVE  agenda' \in Seq(Op)
<1>1. agenda \in Seq(Op)
  BY DEF TypeOK
<1> QED BY <1>1, ContinueFacts DEF Continue

(* A status written to the rows of a set of tasks. *)
BatchStatus(S, s) == [t \in Tasks |-> IF t \in S THEN UpdateStatus(t, s, "")[t] ELSE db[t]]

LEMMA BatchStatusFacts ==
  ASSUME TypeOK, NEW S, NEW s \in Live \cup {"deleted"}
  PROVE  /\ BatchStatus(S, s) \in [Tasks -> Row]
         /\ \A u \in Tasks : BatchStatus(S, s)[u].status = "none" <=> db[u].status = "none"
<1>1. db \in [Tasks -> Row]
  BY DEF TypeOK
<1>2. ASSUME NEW t \in Tasks
      PROVE /\ UpdateStatus(t, s, "")[t] \in Row
            /\ UpdateStatus(t, s, "")[t].status = "none" <=> db[t].status = "none"
  BY UpdateStatusFacts
<1> QED BY <1>1, <1>2 DEF BatchStatus

LEMMA TypeDrainItem ==
  ASSUME TypeOK, DrainItem PROVE TypeOK'
<1> USE TasksAssumption
<1> DEFINE d == Head(agenda)
           x == Head(d.rest)
           keep == ~IsActive(x) /\ ~has_queue_capacity(QueueOf[x])
           k == IF keep THEN Append(d.kept, x) ELSE d.kept
<1>1. agenda \in Seq(Op) /\ agenda # <<>> /\ d \in Op /\ d.op = "drainLoop"
  BY RunningFacts DEF DrainItem
<1>2. d.rest \in Seq(Tasks) /\ d.kept \in Seq(Tasks)
  BY <1>1, OpFields
<1>3. d.rest # <<>> /\ x \in Tasks /\ Tail(d.rest) \in Seq(Tasks)
  BY <1>2 DEF DrainItem, LoopEnds
<1>4. k \in Seq(Tasks)
  BY <1>2, <1>3
<1>5. Continue(<<[op |-> "drainLoop", rest |-> Tail(d.rest), kept |-> k]>>)
  BY DEF DrainItem
<1>6. UNCHANGED <<active, gen, spawns, resolving, outcomes>> \/ do_resume_task(x)
  BY DEF DrainItem
<1>7. UNCHANGED <<queue, pauses, retrySched, retryCount, boost, autoPaused,
                  occupied, maxc, db, doneCh, timers, cmds, reboots>>
  BY DEF DrainItem
<1> HIDE DEF d, x, keep, k
<1>8. [op |-> "drainLoop", rest |-> Tail(d.rest), kept |-> k] \in Op
  BY <1>3, <1>4, OpForms
<1>9. agenda' \in Seq(Op)
  BY <1>1, <1>5, <1>8, ShortSeqs, TypeContinue
<1>10. TypeStarted
  <2>1. CASE do_resume_task(x)
    BY <1>3, <2>1, TypeStart
  <2>2. CASE UNCHANGED <<active, gen, spawns, resolving, outcomes>>
    BY <2>2 DEF TypeOK, TypeStarted
  <2> QED BY <1>6, <2>1, <2>2
<1> QED BY <1>7, <1>9, <1>10 DEF TypeOK, TypeStarted

LEMMA TypePause ==
  ASSUME TypeOK, NEW t \in Tasks, PauseTaskInner(t) PROVE TypeOK'
<1>1. agenda \in Seq(Op) /\ agenda # <<>>
  BY RunningFacts DEF PauseTaskInner
<1>2. <<Sync>> \in Seq(Op) /\ <<Drain, Do("guardBoost", t), Sync>> \in Seq(Op)
  BY OpForms, ShortSeqs
<1>3. agenda' \in Seq(Op)
  BY <1>1, <1>2, TypeContinue DEF PauseTaskInner
<1>4. /\ active' \in [Tasks -> [gen : Nat, spawned : BOOLEAN]]
      /\ pauses' \in [Tasks -> [gen : Nat, resume : BOOLEAN]]
      /\ queue' \in Seq(Tasks) /\ spawns' \subseteq Spawn
      /\ resolving' \in [Tasks -> Nat]
  <2>1. /\ active' = [active EXCEPT ![t] = NoEntry] \/ UNCHANGED active
        /\ \/ pauses' = [pauses EXCEPT ![t] = [gen |-> active[t].gen, resume |-> FALSE]]
           \/ UNCHANGED pauses
        /\ queue' = Unqueue(queue, t) \/ UNCHANGED queue
        /\ spawns' = CancelToken(active[t].gen) \/ UNCHANGED spawns
        /\ resolving' = [resolving EXCEPT ![t] = 0]
    BY Zenon DEF PauseTaskInner
  <2>2. /\ [active EXCEPT ![t] = NoEntry] \in [Tasks -> [gen : Nat, spawned : BOOLEAN]]
        /\ [pauses EXCEPT ![t] = [gen |-> active[t].gen, resume |-> FALSE]]
              \in [Tasks -> [gen : Nat, resume : BOOLEAN]]
        /\ [resolving EXCEPT ![t] = 0] \in [Tasks -> Nat]
        /\ Unqueue(queue, t) \in Seq(Tasks)
        /\ CancelToken(active[t].gen) \subseteq Spawn
    BY TypeTables
  <2>3. /\ active \in [Tasks -> [gen : Nat, spawned : BOOLEAN]]
        /\ pauses \in [Tasks -> [gen : Nat, resume : BOOLEAN]]
        /\ queue \in Seq(Tasks) /\ spawns \subseteq Spawn
    BY DEF TypeOK
  <2> QED BY <2>1, <2>2, <2>3, Zenon
<1>5. db' \in [Tasks -> Row]
  <2>1. UpdateStatus(t, "paused", "") \in [Tasks -> Row]
    BY UpdateStatusFacts DEF Live
  <2> QED BY <2>1 DEF PauseTaskInner, TypeOK
<1> QED BY <1>3, <1>4, <1>5 DEF PauseTaskInner, TypeOK

LEMMA TypeTryResume ==
  ASSUME TypeOK, NEW t \in Tasks, NEW status, NEW o1 \in Seq(Op), NEW o2 \in Seq(Op),
         NEW o3 \in Seq(Op), NEW row \in [Tasks -> Row], agenda # <<>>,
         TryResume(t, status, o1, o2, o3, row)
  PROVE  /\ TypeStarted
         /\ pauses' \in [Tasks -> [gen : Nat, resume : BOOLEAN]]
         /\ queue' \in Seq(Tasks)
         /\ db' \in [Tasks -> Row]
         /\ agenda' \in Seq(Op)
<1>1. agenda' \in Seq(Op)
  BY TypeContinue DEF TryResume
<1>2. TypeStarted
  <2>1. CASE do_resume_task(t)
    BY <2>1, TypeStart
  <2>2. CASE /\ active' = [active EXCEPT ![t] = NoEntry] \/ UNCHANGED active
             /\ UNCHANGED <<gen, spawns, resolving, outcomes>>
    <3>1. active' \in [Tasks -> [gen : Nat, spawned : BOOLEAN]]
      <4>1. /\ [active EXCEPT ![t] = NoEntry] \in [Tasks -> [gen : Nat, spawned : BOOLEAN]]
            /\ active \in [Tasks -> [gen : Nat, spawned : BOOLEAN]]
        BY TypeTables DEF TypeOK
      <4> QED BY <2>2, <4>1, Zenon
    <3> QED BY <2>2, <3>1 DEF TypeOK, TypeStarted
  <2> QED BY <2>1, <2>2, Zenon DEF TryResume
<1>3. pauses' \in [Tasks -> [gen : Nat, resume : BOOLEAN]]
  <2>1. pauses' = [pauses EXCEPT ![t].resume = TRUE] \/ UNCHANGED pauses
    BY Zenon DEF TryResume
  <2>2. /\ [pauses EXCEPT ![t].resume = TRUE] \in [Tasks -> [gen : Nat, resume : BOOLEAN]]
        /\ pauses \in [Tasks -> [gen : Nat, resume : BOOLEAN]]
    BY TypeTables DEF TypeOK
  <2> QED BY <2>1, <2>2, Zenon
<1>5. queue' \in Seq(Tasks)
  <2>1. queue' = Append(queue, t) \/ UNCHANGED queue
    BY Zenon DEF TryResume
  <2>2. Append(queue, t) \in Seq(Tasks) /\ queue \in Seq(Tasks)
    BY TypeTables DEF TypeOK
  <2> QED BY <2>1, <2>2, Zenon
<1>4. db' \in [Tasks -> Row]
  BY DEF TryResume, TypeOK
<1> QED BY <1>1, <1>2, <1>3, <1>4, <1>5

LEMMA TypeResume ==
  ASSUME TypeOK, NEW t \in Tasks, ResumeTaskInner(t) PROVE TypeOK'
<1> DEFINE row == IF db[t].status = "completed" THEN db ELSE UpdateStatus(t, "pending", "")
<1>1. agenda # <<>>
  BY DEF ResumeTaskInner, Running
<1>2. row \in [Tasks -> Row]
  BY UpdateStatusFacts DEF TypeOK, Live
<1>3. <<>> \in Seq(Op) /\ <<Drain, Sync>> \in Seq(Op) /\ <<Sync>> \in Seq(Op)
  BY OpForms, ShortSeqs
<1>4. TryResume(t, db[t].status, <<>>, <<Drain, Sync>>, <<Sync>>, row)
  BY DEF ResumeTaskInner
<1> HIDE DEF row
<1>5. /\ TypeStarted
      /\ pauses' \in [Tasks -> [gen : Nat, resume : BOOLEAN]]
      /\ queue' \in Seq(Tasks)
      /\ db' \in [Tasks -> Row]
      /\ agenda' \in Seq(Op)
  BY <1>1, <1>2, <1>3, <1>4, TypeTryResume
<1>6. /\ retryCount' \in [Tasks -> Nat] /\ retrySched' \subseteq Tasks
      /\ UNCHANGED <<boost, autoPaused, occupied, maxc, doneCh, timers, cmds, reboots>>
  BY DEF ResumeTaskInner, TypeOK
<1> QED BY <1>5, <1>6 DEF TypeOK, TypeStarted

LEMMA TypeResumeWithRow ==
  ASSUME TypeOK, NEW t \in Tasks, ResumeWithRow(t) PROVE TypeOK'
<1> DEFINE b == Head(agenda)
           rest == [b EXCEPT !.rows[t] = "none"]
           Q == IF b.rows[t] = "completed" THEN rest.queued ELSE rest.queued \cup {t}
           waits == [rest EXCEPT !.queued = IF b.rows[t] = "completed" THEN @ ELSE @ \cup {t}]
<1>1. agenda \in Seq(Op) /\ agenda # <<>> /\ b \in Op /\ b.op = "resumeBatch"
  BY RunningFacts DEF ResumeWithRow
<1>2. /\ rest \in Op /\ rest.op = "resumeBatch" /\ rest.queued \in SUBSET Tasks
      /\ \A S \in SUBSET Tasks : [rest EXCEPT !.queued = S] \in Op
  <2>1. rest \in Op /\ rest.op = "resumeBatch" /\ rest.queued \in SUBSET Tasks
    BY <1>1, BatchEdits
  <2> HIDE DEF rest
  <2> QED BY <2>1, QueuedEdits
<1>3. TryResume(t, b.rows[t], <<rest>>, <<Drain, rest>>, <<waits>>, db)
  BY DEF ResumeWithRow
<1>4. /\ retryCount' \in [Tasks -> Nat]
      /\ UNCHANGED <<retrySched, boost, autoPaused, occupied, maxc, doneCh, timers, cmds, reboots>>
  BY DEF ResumeWithRow, TypeOK
<1>5. waits \in Op
  <2>1. Q \in SUBSET Tasks
    BY <1>2
  <2>2. waits = [rest EXCEPT !.queued = Q]
    BY Zenon
  <2> HIDE DEF rest, waits, Q
  <2> QED BY <1>2, <2>1, <2>2
<1> HIDE DEF b, rest, waits
<1>6. <<rest>> \in Seq(Op) /\ <<Drain, rest>> \in Seq(Op) /\ <<waits>> \in Seq(Op)
  BY <1>2, <1>5, OpForms, ShortSeqs
<1>7. db \in [Tasks -> Row]
  BY DEF TypeOK
<1>8. /\ TypeStarted
      /\ pauses' \in [Tasks -> [gen : Nat, resume : BOOLEAN]]
      /\ queue' \in Seq(Tasks)
      /\ db' \in [Tasks -> Row]
      /\ agenda' \in Seq(Op)
  BY <1>1, <1>3, <1>6, <1>7, TypeTryResume
<1> QED BY <1>4, <1>8 DEF TypeOK, TypeStarted

(* What is queued are tasks. *)
LEMMA QueuedAreTasks ==
  ASSUME TypeOK PROVE QueuedTasks(queue) \in SUBSET Tasks
<1>1. queue \in Seq(Tasks)
  BY DEF TypeOK
<1>2. \A i \in 1..Len(queue) : queue[i] \in Tasks
  BY <1>1
<1>3. QueuedTasks(queue) = {queue[i] : i \in 1..Len(queue)}
  BY DEF QueuedTasks
<1> QED BY <1>2, <1>3

(* The other steps of a handler. *)
LEMMA TypeHandlerStep ==
  ASSUME TypeOK, HandlerStep PROVE TypeOK'
<1> USE TasksAssumption
<1>1. CASE DrainQueue
  <2>1. agenda # <<>> /\ queue \in Seq(Tasks) /\ <<>> \in Seq(Tasks)
    BY <1>1 DEF DrainQueue, Running, TypeOK
  <2>2. <<[op |-> "drainLoop", rest |-> queue, kept |-> <<>>]>> \in Seq(Op)
    BY <2>1, OpForms, ShortSeqs
  <2>3. agenda' \in Seq(Op)
    BY <1>1, <2>1, <2>2, TypeContinue DEF DrainQueue
  <2> QED BY <1>1, <2>1, <2>3 DEF DrainQueue, TypeOK
<1>2. CASE DrainEnd
  <2>1. agenda # <<>> /\ Head(agenda) \in Op /\ Head(agenda).op = "drainLoop"
    BY <1>2, RunningFacts DEF DrainEnd
  <2>2. Head(agenda).rest \in Seq(Tasks) /\ Head(agenda).kept \in Seq(Tasks)
    BY <2>1, OpFields
  <2>3. queue' \in Seq(Tasks)
    BY <1>2, <2>2 DEF DrainEnd
  <2>4. agenda' \in Seq(Op)
    BY <1>2, <2>1, ShortSeqs, OpForms, TypeContinue DEF DrainEnd
  <2> QED BY <1>2, <2>3, <2>4 DEF DrainEnd, TypeOK
<1>3. CASE sync_queue_occupancy
  <2>1. agenda' \in Seq(Op)
    BY <1>3, ShortSeqs, OpForms, TypeContinue DEF sync_queue_occupancy, Running
  <2>2. occupied' \subseteq Queues
    <3>1. QueuedTasks(queue) \subseteq Tasks
      BY QueuedAreTasks
    <3>2. Occupying \subseteq Tasks
      BY <3>1 DEF Occupying, ActiveTasks, TypeOK
    <3> QED BY <1>3, <3>2, QueueAssumption DEF sync_queue_occupancy, OccupiedQueues
  <2> QED BY <1>3, <2>1, <2>2 DEF sync_queue_occupancy, TypeOK
<1>4. CASE ClearPriority
  <2>1. autoPaused \in SUBSET Tasks
    BY DEF TypeOK
  <2>2. <<[op |-> "unboost", set |-> autoPaused]>> \in Seq(Op)
    BY <2>1, OpForms, ShortSeqs
  <2>3. agenda' \in Seq(Op)
    BY <1>4, <2>2, TypeContinue DEF ClearPriority, Running
  <2> QED BY <1>4, <2>3 DEF ClearPriority, TypeOK
<1>5. CASE EndSet
  <2>1. agenda' \in Seq(Op)
    BY <1>5, ShortSeqs, OpForms, TypeContinue DEF EndSet, Running
  <2> QED BY <1>5, <2>1 DEF EndSet, TypeOK, actorVars
<1>6. CASE LoadBatch
  <2> DEFINE r == [t \in Tasks |-> IF t \in Head(agenda).set /\ HasRow(t) THEN db[t].status ELSE "none"]
  <2>1. r \in [Tasks -> Live \cup {"none"}]
    BY DEF HasRow
  <2>2. Continue(<<[op |-> "resumeBatch", queued |-> {}, rows |-> r]>>) /\ agenda # <<>>
    BY <1>6 DEF LoadBatch, Running
  <2> HIDE DEF r
  <2>3. [op |-> "resumeBatch", queued |-> {}, rows |-> r] \in Op
    BY <2>1, OpForms
  <2>4. agenda' \in Seq(Op)
    BY <2>2, <2>3, ShortSeqs, TypeContinue
  <2> QED BY <1>6, <2>4 DEF LoadBatch, TypeOK, actorVars
<1>7. CASE BatchResumed
  <2>1. agenda' \in Seq(Op)
    BY <1>7, ShortSeqs, OpForms, TypeContinue DEF BatchResumed, Running
  <2>2. db' \in [Tasks -> Row]
    <3>1. db' = BatchStatus(Head(agenda).queued, "pending")
      BY <1>7 DEF BatchResumed, BatchStatus
    <3> QED BY <3>1, BatchStatusFacts DEF Live
  <2> QED BY <1>7, <2>1, <2>2 DEF BatchResumed, TypeOK, actorVars
<1>8. CASE ReapBatch
  <2>1. agenda # <<>> /\ Head(agenda) \in Op /\ Head(agenda).op = "reapBatch"
    BY <1>8, RunningFacts DEF ReapBatch
  <2>2. <<[op |-> "eraseBatch", set |-> Head(agenda).set]>> \in Seq(Op)
    BY <2>1, OpFields, OpForms, ShortSeqs
  <2>3. agenda' \in Seq(Op)
    BY <1>8, <2>1, <2>2, TypeContinue DEF ReapBatch
  <2> QED BY <1>8, <2>3 DEF ReapBatch, TypeOK, actorVars
<1>9. CASE EraseBatch
  <2>1. agenda # <<>> /\ Head(agenda) \in Op /\ Head(agenda).op = "eraseBatch"
    BY <1>9, RunningFacts DEF EraseBatch
  <2>2. <<[op |-> "forget", set |-> Head(agenda).set], Drain, Sync>> \in Seq(Op)
    BY <2>1, OpFields, OpForms, ShortSeqs
  <2>3. agenda' \in Seq(Op)
    BY <1>9, <2>1, <2>2, TypeContinue DEF EraseBatch
  <2>4. db' \in [Tasks -> Row]
    <3>1. db' = BatchStatus(Head(agenda).set, "deleted")
      BY <1>9 DEF EraseBatch, BatchStatus
    <3> QED BY <3>1, BatchStatusFacts
  <2> QED BY <1>9, <2>3, <2>4 DEF EraseBatch, TypeOK, actorVars
<1>10. ASSUME NEW t \in Tasks, GuardBoost(t) \/ BoostCheck(t) PROVE TypeOK'
  <2>1. agenda' \in Seq(Op)
    BY <1>10, ShortSeqs, OpForms, TypeContinue DEF GuardBoost, BoostCheck, Running
  <2> QED BY <1>10, <2>1 DEF GuardBoost, BoostCheck, TypeOK, actorVars
<1>11. ASSUME NEW t \in Tasks, FinishPendingPause(t) PROVE TypeOK'
  <2>1. \A p : <<Drain>> \o Opt(p, Do("resumeAuto", t)) \in Seq(Op)
    BY ShortSeqs, OpForms, CatFacts
  <2>2. agenda' \in Seq(Op)
    BY <1>11, <2>1, TypeContinue DEF FinishPendingPause, Running
  <2>3. pauses' = [pauses EXCEPT ![t] = NoPause] \/ UNCHANGED pauses
    BY <1>11, Zenon DEF FinishPendingPause
  <2>4. [pauses EXCEPT ![t] = NoPause] \in [Tasks -> [gen : Nat, resume : BOOLEAN]]
    BY TypeTables
  <2>5. pauses' \in [Tasks -> [gen : Nat, resume : BOOLEAN]]
    BY <2>3, <2>4 DEF TypeOK
  <2> QED BY <1>11, <2>2, <2>5 DEF FinishPendingPause, TypeOK
<1>12. ASSUME NEW t \in Tasks, AutoRetry(t) PROVE TypeOK'
  <2>1. agenda' \in Seq(Op)
    BY <1>12, ShortSeqs, OpForms, TypeContinue DEF AutoRetry, Running
  <2>2. retryCount' \in [Tasks -> Nat] /\ timers' \in [Tasks -> Nat] /\ retrySched' \subseteq Tasks
    BY <1>12, SMTT(30) DEF AutoRetry, TypeOK
  <2> QED BY <1>12, <2>1, <2>2 DEF AutoRetry, TypeOK
<1>13. ASSUME NEW t \in Tasks, ResumeBoosted(t) PROVE TypeOK'
  <2> DEFINE rest == [Head(agenda) EXCEPT !.set = @ \ {t}]
  <2>1. agenda # <<>> /\ Head(agenda) \in Op /\ Head(agenda).op = "unboost"
    BY <1>13, RunningFacts DEF ResumeBoosted
  <2>2. rest \in Op
    BY <2>1, OpEdits
  <2>3. Continue(Opt(db[t].status # "completed", Do("resume", t)) \o <<rest>>)
    BY <1>13 DEF ResumeBoosted
  <2> HIDE DEF rest
  <2>4. Opt(db[t].status # "completed", Do("resume", t)) \o <<rest>> \in Seq(Op)
    BY <2>2, ShortSeqs, OpForms, CatFacts
  <2>5. agenda' \in Seq(Op)
    BY <2>1, <2>3, <2>4, TypeContinue
  <2> QED BY <1>13, <2>5 DEF ResumeBoosted, TypeOK, actorVars
<1>14. ASSUME NEW t \in Tasks, BoostCollect(t) PROVE TypeOK'
  <2>1. PICK S \in SUBSET Tasks : Continue(<<[op |-> "autoPause", set |-> S]>>)
    <3>1. CASE Running("boostActive")
      BY <1>14, <3>1 DEF BoostCollect, ActiveTasks, Running
    <3>2. CASE Running("boostQueued")
      <4>1. QueuedTasks(queue) \in SUBSET Tasks
        BY QueuedAreTasks
      <4> QED BY <1>14, <3>2, <4>1 DEF BoostCollect, Running
    <3>3. CASE Running("boostStray")
      BY <1>14, <3>3 DEF BoostCollect, ActiveTasks, Running
    <3> QED BY <1>14, <3>1, <3>2, <3>3 DEF BoostCollect
  <2>2. <<[op |-> "autoPause", set |-> S]>> \in Seq(Op)
    BY OpForms, ShortSeqs
  <2>3. agenda' \in Seq(Op)
    BY <1>14, <2>1, <2>2, TypeContinue DEF BoostCollect, Running
  <2> QED BY <1>14, <2>3 DEF BoostCollect, TypeOK, actorVars
<1>15. ASSUME NEW t \in Tasks, AutoPause(t) \/ PauseBatchItem(t) PROVE TypeOK'
  <2> DEFINE rest == [Head(agenda) EXCEPT !.set = @ \ {t}]
  <2>1. agenda # <<>> /\ Head(agenda) \in Op /\ Head(agenda).op \in {"autoPause", "pauseBatch"}
    BY <1>15, RunningFacts DEF AutoPause, PauseBatchItem
  <2>2. rest \in Op
    BY <2>1, OpEdits
  <2>3. Continue(<<Do("pause", t), rest>>)
    BY <1>15 DEF AutoPause, PauseBatchItem
  <2> HIDE DEF rest
  <2>4. <<Do("pause", t), rest>> \in Seq(Op)
    BY <2>2, ShortSeqs, OpForms
  <2>5. agenda' \in Seq(Op)
    BY <2>1, <2>3, <2>4, TypeContinue
  <2>6. autoPaused' \subseteq Tasks
    BY <1>15 DEF AutoPause, PauseBatchItem, TypeOK, actorVars
  <2> QED BY <1>15, <2>5, <2>6 DEF AutoPause, PauseBatchItem, TypeOK, actorVars
<1>16. ASSUME NEW t \in Tasks, BoostStart(t) PROVE TypeOK'
  <2>1. \A p : Opt(p, Do("resume", t)) \o <<Do("boostCheck", t)>> \in Seq(Op)
    BY ShortSeqs, OpForms, CatFacts
  <2>2. agenda' \in Seq(Op)
    BY <1>16, <2>1, TypeContinue DEF BoostStart, Running
  <2>3. TypeStarted
    <3>1. CASE do_resume_task(t)
      BY <3>1, TypeStart
    <3>2. CASE UNCHANGED <<active, gen, spawns, resolving, outcomes>>
      BY <3>2 DEF TypeOK, TypeStarted
    <3> QED BY <1>16, <3>1, <3>2 DEF BoostStart
  <2>4. autoPaused' \subseteq Tasks /\ boost' \in Tasks \cup {NoTask}
    BY <1>16 DEF BoostStart, TypeOK
  <2> QED BY <1>16, <2>2, <2>3, <2>4 DEF BoostStart, TypeOK, TypeStarted
<1>17. ASSUME NEW t \in Tasks, ReapHandle(t) PROVE TypeOK'
  <2>1. agenda' \in Seq(Op)
    BY <1>17, ShortSeqs, OpForms, TypeContinue DEF ReapHandle, Running
  <2> QED BY <1>17, <2>1 DEF ReapHandle, TypeOK, actorVars
<1>18. ASSUME NEW t \in Tasks, EraseTask(t) PROVE TypeOK'
  <2>1. Opt(boost = t, ClearBoost) \o <<Drain, Sync>> \in Seq(Op)
    BY ShortSeqs, OpForms, CatFacts
  <2>2. agenda' \in Seq(Op)
    BY <1>18, <2>1, TypeContinue DEF EraseTask, Running
  <2>3. db' \in [Tasks -> Row]
    BY <1>18, UpdateStatusFacts DEF EraseTask
  <2> QED BY <1>18, <2>2, <2>3 DEF EraseTask, TypeOK
<1>19. ASSUME NEW t \in Tasks, ResetTask(t) PROVE TypeOK'
  <2>1. agenda' \in Seq(Op)
    BY <1>19, ShortSeqs, OpForms, TypeContinue DEF ResetTask, Running
  <2>2. db' \in [Tasks -> Row]
    BY <1>19, UpdateStatusFacts DEF ResetTask, Live
  <2> QED BY <1>19, <2>1, <2>2 DEF ResetTask, TypeOK
<1>20. ASSUME NEW t \in Tasks, ForgetDeleted(t) PROVE TypeOK'
  <2> DEFINE rest == [Head(agenda) EXCEPT !.set = @ \ {t}]
  <2>1. agenda # <<>> /\ Head(agenda) \in Op /\ Head(agenda).op = "forget"
    BY <1>20, RunningFacts DEF ForgetDeleted
  <2>2. rest \in Op
    BY <2>1, OpEdits
  <2>3. Continue(Opt(boost = t, ClearBoost) \o <<rest>>)
    BY <1>20 DEF ForgetDeleted
  <2> HIDE DEF rest
  <2>4. Opt(boost = t, ClearBoost) \o <<rest>> \in Seq(Op)
    BY <2>2, ShortSeqs, OpForms, CatFacts
  <2>5. agenda' \in Seq(Op)
    BY <2>1, <2>3, <2>4, TypeContinue
  <2> QED BY <1>20, <2>5 DEF ForgetDeleted, TypeOK
<1> QED BY <1>1, <1>2, <1>3, <1>4, <1>5, <1>6, <1>7, <1>8, <1>9, <1>10, <1>11, <1>12, <1>13,
           <1>14, <1>15, <1>16, <1>17, <1>18, <1>19, <1>20, TypeDrainItem, TypePause, TypeResume,
           TypeResumeWithRow DEF HandlerStep

LEMMA TypeCancelledRow ==
  ASSUME TypeOK, NEW t \in Tasks, CancelledRow(t),
         outcomes' \subseteq outcomes, cmds' \in Nat, UNCHANGED <<doneCh, timers, reboots>>
  PROVE  TypeOK'
<1>1. /\ active' = [active EXCEPT ![t] = NoEntry] /\ resolving' = [resolving EXCEPT ![t] = 0]
      /\ retryCount' = [retryCount EXCEPT ![t] = 0] /\ queue' = Unqueue(queue, t)
      /\ spawns' = CancelToken(active[t].gen) \/ UNCHANGED spawns
      /\ db' = UpdateStatus(t, "error", "cancelled") /\ agenda' = <<Drain>>
      /\ UNCHANGED <<pauses, retrySched, boost, autoPaused, occupied, maxc, gen>>
  BY Zenon DEF CancelledRow
<1>2. /\ active' \in [Tasks -> [gen : Nat, spawned : BOOLEAN]] /\ resolving' \in [Tasks -> Nat]
      /\ retryCount' \in [Tasks -> Nat] /\ queue' \in Seq(Tasks)
  BY <1>1, TypeTables
<1>3. spawns' \subseteq Spawn
  <2>1. CancelToken(active[t].gen) \subseteq Spawn /\ spawns \subseteq Spawn
    BY TypeTables DEF TypeOK
  <2> QED BY <1>1, <2>1, Zenon
<1>4. db' \in [Tasks -> Row]
  BY <1>1, UpdateStatusFacts DEF Live
<1>5. agenda' \in Seq(Op)
  BY <1>1, OpForms, ShortSeqs
<1> QED BY <1>1, <1>2, <1>3, <1>4, <1>5 DEF TypeOK

LEMMA CommandFacts ==
  ASSUME TypeOK, NEW n, Command(n)
  PROVE  Idle /\ cmds' \in Nat /\ UNCHANGED <<doneCh, timers, reboots>>
BY DEF Command, TypeOK

LEMMA TypeUserCommand ==
  ASSUME TypeOK, UserCommand PROVE TypeOK'
<1> USE TasksAssumption, BoundAssumption
<1>1. ASSUME NEW t \in Tasks, NEW later \in BOOLEAN, CreateTask(t, later) PROVE TypeOK'
  <2>1. TypeStarted
    <3>1. CASE do_start_task(t)
      BY <3>1, TypeStart
    <3>2. CASE UNCHANGED <<active, gen, spawns, resolving, outcomes>>
      BY <3>2 DEF TypeOK, TypeStarted
    <3> QED BY <1>1, <3>1, <3>2 DEF CreateTask
  <2>2. agenda' \in Seq(Op)
    <3>1. <<>> \in Seq(Op) /\ <<Drain, Sync>> \in Seq(Op) /\ <<Sync>> \in Seq(Op)
      BY ShortSeqs, OpForms
    <3> QED BY <1>1, <3>1 DEF CreateTask
  <2>3. queue' \in Seq(Tasks)
    <3>1. Append(queue, t) \in Seq(Tasks) /\ queue \in Seq(Tasks)
      BY TypeTables DEF TypeOK
    <3> QED BY <1>1, <3>1 DEF CreateTask
  <2>4. db' \in [Tasks -> Row]
    <3>1. \A b : [status |-> IF b THEN "paused" ELSE "pending", err |-> ""] \in Row
      BY DEF Row, Live
    <3> QED BY <1>1, <3>1 DEF CreateTask, TypeOK
  <2>5. /\ UNCHANGED <<pauses, retrySched, retryCount, boost, autoPaused, occupied, maxc>>
        /\ cmds' \in Nat /\ UNCHANGED <<doneCh, timers, reboots>>
    BY <1>1, CommandFacts DEF CreateTask
  <2> QED BY <2>1, <2>2, <2>3, <2>4, <2>5 DEF TypeOK, TypeStarted
<1>2. ASSUME NEW t \in Tasks, PauseTask(t) \/ ResumeTask(t) PROVE TypeOK'
  <2>1. agenda' \in Seq(Op)
    <3>1. <<Do("pause", t)>> \in Seq(Op) /\ <<Do("resume", t)>> \in Seq(Op)
      BY ShortSeqs, OpForms
    <3> QED BY <1>2, <3>1 DEF PauseTask, ResumeTask
  <2>2. UNCHANGED <<actorVars, db, spawns, outcomes, doneCh, timers, reboots>> /\ cmds' \in Nat
    BY <1>2 DEF PauseTask, ResumeTask, Command, TypeOK
  <2> QED BY <2>1, <2>2 DEF TypeOK, actorVars
<1>3. ASSUME NEW t \in Tasks, CancelTask(t) PROVE TypeOK'
  <2>1. CancelledRow(t) /\ cmds' \in Nat /\ UNCHANGED <<outcomes, doneCh, timers, reboots>>
    BY <1>3 DEF CancelTask, Command, TypeOK
  <2> QED BY <2>1, TypeCancelledRow
<1>4. ASSUME NEW t \in Tasks, DeleteTask(t) PROVE TypeOK'
  <2>1. /\ active' = [active EXCEPT ![t] = NoEntry] /\ resolving' = [resolving EXCEPT ![t] = 0]
        /\ retryCount' = [retryCount EXCEPT ![t] = 0] /\ queue' = Unqueue(queue, t)
        /\ spawns' = CancelToken(active[t].gen) \/ UNCHANGED spawns
    BY <1>4, Zenon DEF DeleteTask
  <2>2. /\ active' \in [Tasks -> [gen : Nat, spawned : BOOLEAN]] /\ resolving' \in [Tasks -> Nat]
        /\ retryCount' \in [Tasks -> Nat] /\ queue' \in Seq(Tasks) /\ active[t].gen \in Nat
    BY <2>1, TypeTables
  <2>3. spawns' \subseteq Spawn
    <3>1. CancelToken(active[t].gen) \subseteq Spawn /\ spawns \subseteq Spawn
      BY TypeTables DEF TypeOK
    <3> QED BY <2>1, <3>1, Zenon
  <2>4. agenda' \in Seq(Op)
    <3>1. /\ <<[op |-> "reap", task |-> t, gen |-> active[t].gen]>> \in Seq(Op)
          /\ <<Do("erase", t)>> \in Seq(Op)
      BY <2>2, ShortSeqs, OpForms
    <3> QED BY <1>4, <3>1 DEF DeleteTask
  <2>5. /\ retrySched' \subseteq retrySched
        /\ UNCHANGED <<pauses, boost, autoPaused, occupied, maxc, gen, db, outcomes>>
        /\ cmds' \in Nat /\ UNCHANGED <<doneCh, timers, reboots>>
    BY <1>4 DEF DeleteTask, Command, TypeOK
  <2> QED BY <2>2, <2>3, <2>4, <2>5 DEF TypeOK
<1>5. ASSUME NEW t \in Tasks, RestartTask(t) PROVE TypeOK'
  <2>1. \A p : Opt(p, Do("pause", t)) \o <<Do("reset", t)>> \in Seq(Op)
    BY ShortSeqs, OpForms, CatFacts
  <2>2. agenda' \in Seq(Op)
    BY <1>5, <2>1 DEF RestartTask
  <2>3. UNCHANGED <<actorVars, db, spawns, outcomes, doneCh, timers, reboots>> /\ cmds' \in Nat
    BY <1>5 DEF RestartTask, Command, TypeOK
  <2> QED BY <2>2, <2>3 DEF TypeOK, actorVars
<1>6. ASSUME NEW t \in Tasks, SetPriorityTask(t) PROVE TypeOK'
  <2>1. \A b \in BOOLEAN : <<Do("boostActive", t), Do("boostQueued", t), Do("boostStray", t),
                             [op |-> "boostStart", task |-> t, queued |-> b]>> \in Seq(Op)
    <3>1. \A b \in BOOLEAN : [op |-> "boostStart", task |-> t, queued |-> b] \in Op
      BY OpForms
    <3>2. Do("boostActive", t) \in Op /\ Do("boostQueued", t) \in Op /\ Do("boostStray", t) \in Op
      BY OpForms
    <3> QED BY <3>1, <3>2
  <2>2. agenda' \in Seq(Op)
    <3>1. CASE agenda' = <<ClearBoost>>
      BY <3>1, ShortSeqs, OpForms
    <3>2. CASE agenda' = <<Do("boostActive", t), Do("boostQueued", t), Do("boostStray", t),
                           [op |-> "boostStart", task |-> t, queued |-> t \in QueuedTasks(queue)]>>
      <4>1. (t \in QueuedTasks(queue)) \in BOOLEAN
        OBVIOUS
      <4> QED BY <2>1, <3>2, <4>1, Zenon
    <3> QED BY <1>6, <3>1, <3>2 DEF SetPriorityTask
  <2>3. queue' \in Seq(Tasks)
    <3>1. Unqueue(queue, t) \in Seq(Tasks) /\ queue \in Seq(Tasks)
      BY TypeTables DEF TypeOK
    <3> QED BY <1>6, <3>1 DEF SetPriorityTask
  <2>4. boost' \in Tasks \cup {NoTask} /\ autoPaused' \subseteq Tasks
    BY <1>6 DEF SetPriorityTask, TypeOK
  <2>5. /\ UNCHANGED <<active, pauses, resolving, retrySched, retryCount, occupied, maxc, gen,
                       db, spawns, outcomes>>
        /\ cmds' \in Nat /\ UNCHANGED <<doneCh, timers, reboots>>
    BY <1>6 DEF SetPriorityTask, Command, TypeOK
  <2> QED BY <2>2, <2>3, <2>4, <2>5 DEF TypeOK
<1>7. ASSUME NEW n \in Limits, SetMaxConcurrent(n) PROVE TypeOK'
  <2>1. agenda' \in Seq(Op) /\ maxc' \in Nat
    BY <1>7, ShortSeqs, OpForms DEF SetMaxConcurrent
  <2> QED BY <1>7, <2>1, SMTT(30) DEF SetMaxConcurrent, Command, TypeOK
<1>8. ASSUME NEW q \in Queues, StartQueue(q) PROVE TypeOK'
  <2> DEFINE S == {t \in Tasks : QueueOf[t] = q /\ db[t].status \in {"pending", "paused"}}
  <2>1. S \in SUBSET Tasks /\ batch_resume(S) /\ Command("queue")
    BY <1>8 DEF StartQueue
  <2> HIDE DEF S
  <2>2. agenda' \in Seq(Op)
    BY <2>1, ShortSeqs, OpForms DEF batch_resume
  <2> QED BY <2>1, <2>2 DEF batch_resume, Command, TypeOK, actorVars
<1>9. ASSUME NEW q \in Queues, StopQueue(q) PROVE TypeOK'
  <2> DEFINE S == {t \in ActiveTasks \cup QueuedTasks(queue) : QueueOf[t] = q}
  <2>1. batch_pause(S) /\ Command("queue")
    BY <1>9 DEF StopQueue
  <2> HIDE DEF S
  <2>2. queue' \in Seq(Tasks)
    <3>1. queue \in Seq(Tasks)
      BY DEF TypeOK
    <3> QED BY <2>1, <3>1, WithoutFacts DEF batch_pause
  <2>3. resolving' \in [Tasks -> Nat]
    BY <2>1 DEF batch_pause, TypeOK
  <2>4. db' \in [Tasks -> Row]
    <3>1. db' = BatchStatus(S \cap QueuedTasks(queue), "paused")
      BY <2>1 DEF batch_pause, BatchStatus
    <3> QED BY <3>1, BatchStatusFacts DEF Live
  <2>5. agenda' \in Seq(Op)
    <3>1. S \cap ActiveTasks \in SUBSET Tasks
      BY DEF ActiveTasks
    <3> QED BY <2>1, <3>1, ShortSeqs, OpForms DEF batch_pause
  <2>6. /\ UNCHANGED <<active, pauses, retrySched, retryCount, boost, autoPaused, occupied,
                       maxc, gen, spawns, outcomes>>
        /\ cmds' \in Nat /\ UNCHANGED <<doneCh, timers, reboots>>
    BY <2>1, CommandFacts DEF batch_pause
  <2> QED BY <2>2, <2>3, <2>4, <2>5, <2>6 DEF TypeOK
<1>10. ASSUME NEW S \in Batch, DeleteTasksBatch(S) PROVE TypeOK'
  <2> DEFINE waited == {active[t].gen : t \in {u \in S : active[u].spawned}}
             gens == {active[t].gen : t \in S \cap ActiveTasks}
  <2>1. S \in SUBSET Tasks
    BY DEF Batch
  <2>2. queue' \in Seq(Tasks)
    <3>1. queue \in Seq(Tasks)
      BY DEF TypeOK
    <3> QED BY <1>10, <3>1, WithoutFacts DEF DeleteTasksBatch
  <2>3. active' \in [Tasks -> [gen : Nat, spawned : BOOLEAN]] /\ retryCount' \in [Tasks -> Nat]
    <3>1. NoEntry \in [gen : Nat, spawned : BOOLEAN]
      BY DEF NoEntry
    <3> QED BY <1>10, <3>1 DEF DeleteTasksBatch, TypeOK
  <2>4. waited \in SUBSET Nat
    BY <2>1 DEF TypeOK
  <2>5. /\ spawns' = {IF s.gen \in gens THEN [s EXCEPT !.cancelled = TRUE] ELSE s : s \in spawns}
        /\ agenda' = <<[op |-> "reapBatch", set |-> S, gens |-> waited]>>
    BY <1>10 DEF DeleteTasksBatch
  <2> HIDE DEF waited, gens
  <2>6. spawns' \subseteq Spawn
    BY <2>5, TypeCancelToken
  <2>7. agenda' \in Seq(Op)
    BY <2>1, <2>4, <2>5, ShortSeqs, OpForms
  <2>8. /\ UNCHANGED <<pauses, resolving, retrySched, boost, autoPaused, occupied, maxc, gen, db,
                       outcomes>>
        /\ cmds' \in Nat /\ UNCHANGED <<doneCh, timers, reboots>>
    BY <1>10, SMTT(30) DEF DeleteTasksBatch, Command, TypeOK
  <2> QED BY <2>2, <2>3, <2>6, <2>7, <2>8 DEF TypeOK
<1> QED BY <1>1, <1>2, <1>3, <1>4, <1>5, <1>6, <1>7, <1>8, <1>9, <1>10 DEF UserCommand

LEMMA TypeMessage ==
  ASSUME TypeOK, Message PROVE TypeOK'
<1>1. CASE OnTaskDone
  <2> DEFINE t == Head(doneCh).task
             g == Head(doneCh).gen
  <2>1. t \in Tasks /\ g \in Nat /\ doneCh' \in Seq([task : Tasks, gen : Nat])
    <3>1. doneCh \in Seq([task : Tasks, gen : Nat]) /\ doneCh # <<>> /\ doneCh' = Tail(doneCh)
      BY <1>1 DEF OnTaskDone, TypeOK
    <3>2. Head(doneCh) \in [task : Tasks, gen : Nat] /\ doneCh' \in Seq([task : Tasks, gen : Nat])
      BY <3>1, SeqFacts
    <3> QED BY <3>2
  <2>2. active' = [active EXCEPT ![t] = NoEntry] \/ UNCHANGED active
    BY <1>1, Zenon DEF OnTaskDone
  <2>3. PICK p, r : agenda' = Opt(p, ClearBoost) \o <<[op |-> "finish", task |-> t, gen |-> g]>>
                              \o Opt(r, Do("retry", t)) \o <<Sync>>
    BY <1>1, Zenon DEF OnTaskDone
  <2> HIDE DEF t, g
  <2>4. active' \in [Tasks -> [gen : Nat, spawned : BOOLEAN]]
    <3>1. /\ [active EXCEPT ![t] = NoEntry] \in [Tasks -> [gen : Nat, spawned : BOOLEAN]]
          /\ active \in [Tasks -> [gen : Nat, spawned : BOOLEAN]]
      BY <2>1, TypeTables DEF TypeOK
    <3> QED BY <2>2, <3>1, Zenon
  <2>5. agenda' \in Seq(Op)
    <3>1. Opt(p, ClearBoost) \o <<[op |-> "finish", task |-> t, gen |-> g]>> \in Seq(Op)
      BY <2>1, ShortSeqs, OpForms, CatFacts
    <3>2. Opt(r, Do("retry", t)) \in Seq(Op) /\ <<Sync>> \in Seq(Op)
      BY <2>1, ShortSeqs, OpForms
    <3> QED BY <2>3, <3>1, <3>2, CatFacts
  <2> QED BY <1>1, <2>1, <2>4, <2>5 DEF OnTaskDone, TypeOK
<1>2. ASSUME NEW t \in Tasks, OnRetry(t) PROVE TypeOK'
  <2>1. agenda' \in Seq(Op)
    BY <1>2, ShortSeqs, OpForms DEF OnRetry
  <2>2. timers' \in [Tasks -> Nat]
    BY <1>2 DEF OnRetry, TypeOK
  <2> QED BY <1>2, <2>1, <2>2 DEF OnRetry, TypeOK, actorVars
<1>3. ASSUME NEW o \in outcomes, OnResolveReady(o) PROVE TypeOK'
  <2>1. o.task \in Tasks /\ o.gen \in Nat /\ outcomes' \subseteq [task : Tasks, gen : Nat]
    BY <1>3 DEF OnResolveReady, TypeOK
  <2>2. UNCHANGED <<doneCh, timers, cmds, reboots>>
    BY <1>3 DEF OnResolveReady
  <2>3. CASE OnResolveStale(o)
    <3>1. active' = [active EXCEPT ![o.task] = NoEntry] \/ UNCHANGED active
      BY <2>3, Zenon DEF OnResolveStale
    <3>2. /\ [active EXCEPT ![o.task] = NoEntry] \in [Tasks -> [gen : Nat, spawned : BOOLEAN]]
          /\ active \in [Tasks -> [gen : Nat, spawned : BOOLEAN]]
      BY <2>1, TypeTables DEF TypeOK
    <3>3. active' \in [Tasks -> [gen : Nat, spawned : BOOLEAN]]
      BY <3>1, <3>2, Zenon
    <3>4. agenda' \in Seq(Op)
      BY <2>3, ShortSeqs, OpForms DEF OnResolveStale
    <3> QED BY <2>1, <2>2, <2>3, <3>3, <3>4 DEF OnResolveStale, TypeOK
  <2>4. CASE OnResolveGone(o)
    <3>1. /\ active' \in [Tasks -> [gen : Nat, spawned : BOOLEAN]]
          /\ resolving' \in [Tasks -> Nat]
      BY <2>1, <2>4, TypeTables DEF OnResolveGone
    <3>2. agenda' \in Seq(Op)
      BY <2>4, ShortSeqs, OpForms DEF OnResolveGone
    <3> QED BY <2>1, <2>2, <2>4, <3>1, <3>2 DEF OnResolveGone, TypeOK
  <2>5. CASE OnResolveOk(o)
    <3>1. /\ gen' \in Nat
          /\ active' \in [Tasks -> [gen : Nat, spawned : BOOLEAN]]
          /\ spawns' \subseteq Spawn
      <4>1. gen + 1 \in Nat
        BY DEF TypeOK
      <4>2. [gen |-> gen + 1, spawned |-> TRUE] \in [gen : Nat, spawned : BOOLEAN]
        BY <4>1
      <4>3. [gen |-> gen + 1, task |-> o.task, pc |-> "start", cancelled |-> FALSE] \in Spawn
        BY <2>1, <4>1 DEF Spawn
      <4> QED BY <2>5, <4>1, <4>2, <4>3 DEF OnResolveOk, SpawnDownload, TypeOK
    <3>2. resolving' \in [Tasks -> Nat]
      BY <2>1, <2>5, TypeTables DEF OnResolveOk
    <3>3. agenda' \in Seq(Op)
      BY <2>5, ShortSeqs, OpForms DEF OnResolveOk
    <3> QED BY <2>1, <2>2, <2>5, <3>1, <3>2, <3>3 DEF OnResolveOk, TypeOK
  <2>6. CASE OnResolveError(o)
    <3>1. /\ active' \in [Tasks -> [gen : Nat, spawned : BOOLEAN]]
          /\ resolving' \in [Tasks -> Nat]
      BY <2>1, <2>6, TypeTables DEF OnResolveError
    <3>2. agenda' \in Seq(Op)
      BY <2>6, ShortSeqs, OpForms DEF OnResolveError
    <3>3. db' \in [Tasks -> Row]
      BY <2>1, <2>6, UpdateStatusFacts DEF OnResolveError, Live
    <3> QED BY <2>1, <2>2, <2>6, <3>1, <3>2, <3>3 DEF OnResolveError, TypeOK
  <2>7. CASE OnResolveCancelled(o)
    <3>1. outcomes' \subseteq outcomes /\ cmds' \in Nat
      BY <1>3, <2>2 DEF OnResolveReady, TypeOK
    <3> QED BY <2>1, <2>2, <2>7, <3>1, TypeCancelledRow DEF OnResolveCancelled
  <2> QED BY <1>3, <2>3, <2>4, <2>5, <2>6, <2>7 DEF OnResolveReady
<1> QED BY <1>1, <1>2, <1>3 DEF Message

LEMMA TypeDownload ==
  ASSUME TypeOK, NEW s \in spawns, Download(s) PROVE TypeOK'
<1>1. s \in Spawn /\ s.task \in Tasks /\ s.gen \in Nat
  BY DEF TypeOK, Spawn
<1>2. \A pc \in {"start", "probe", "admitted", "run", "end"} : [s EXCEPT !.pc = pc] \in Spawn
  BY <1>1 DEF Spawn
<1>3. spawns' \subseteq Spawn
  <2>1. \/ spawns' = spawns \ {s}
        \/ \E pc \in {"start", "probe", "admitted", "run", "end"} : Advance(s, pc)
    BY DEF Download, WritePreparing, Admit, WriteDownloading, Complete, Fail, Stop, SendTaskDone
  <2> QED BY <1>2, <2>1 DEF Advance, TypeOK
<1>4. db' \in [Tasks -> Row]
  <2>1. \A st \in Live, e \in {"", "retriable", "fatal"} : UpdateStatus(s.task, st, e) \in [Tasks -> Row]
    BY <1>1, UpdateStatusFacts
  <2> QED BY <2>1 DEF Download, WritePreparing, Admit, WriteDownloading, Complete, Fail, Stop,
                      SendTaskDone, TypeOK, Live
<1>5. doneCh' \in Seq([task : Tasks, gen : Nat])
  <2>1. [task |-> s.task, gen |-> s.gen] \in [task : Tasks, gen : Nat]
    BY <1>1
  <2>2. doneCh' = Append(doneCh, [task |-> s.task, gen |-> s.gen]) \/ UNCHANGED doneCh
    BY DEF Download, WritePreparing, Admit, WriteDownloading, Complete, Fail, Stop, SendTaskDone
  <2>3. doneCh \in Seq([task : Tasks, gen : Nat])
    BY DEF TypeOK
  <2>4. Append(doneCh, [task |-> s.task, gen |-> s.gen]) \in Seq([task : Tasks, gen : Nat])
    BY <2>1, <2>3
  <2> QED BY <2>2, <2>3, <2>4
<1> QED BY <1>3, <1>4, <1>5 DEF Download, TypeOK, actorVars

LEMMA TypeReboot ==
  ASSUME TypeOK, Reboot PROVE TypeOK'
<1>1. NoEntry \in [gen : Nat, spawned : BOOLEAN] /\ NoPause \in [gen : Nat, resume : BOOLEAN]
  BY DEF NoEntry, NoPause
<1>2. db' \in [Tasks -> Row]
  <2>1. ASSUME NEW t \in Tasks PROVE [db[t] EXCEPT !.status = "paused"] \in Row /\ db[t] \in Row
    BY DEF TypeOK, Row, Live
  <2> QED BY <2>1 DEF Reboot
<1> QED BY <1>1, <1>2, SMTT(30) DEF Reboot, TypeOK

LEMMA TypeInit ==
  ASSUME Init PROVE TypeOK
<1> USE TasksAssumption, BoundAssumption
<1>1. NoEntry \in [gen : Nat, spawned : BOOLEAN] /\ NoPause \in [gen : Nat, resume : BOOLEAN]
  BY DEF NoEntry, NoPause
<1>2. db \in [Tasks -> Row]
  <2>1. ASSUME NEW t \in Tasks
        PROVE [status |-> IF t \in Stored THEN "paused" ELSE "none", err |-> ""] \in Row
    BY DEF Row, Live
  <2> QED BY <2>1 DEF Init
<1>3. /\ active \in [Tasks -> [gen : Nat, spawned : BOOLEAN]]
      /\ pauses \in [Tasks -> [gen : Nat, resume : BOOLEAN]]
      /\ resolving \in [Tasks -> Nat] /\ retryCount \in [Tasks -> Nat] /\ timers \in [Tasks -> Nat]
  BY <1>1 DEF Init
<1>4. /\ queue \in Seq(Tasks) /\ agenda \in Seq(Op) /\ doneCh \in Seq([task : Tasks, gen : Nat])
  BY SeqFacts DEF Init
<1>5. maxc \in Nat /\ gen \in Nat /\ cmds \in Nat /\ reboots \in Nat
  BY DEF Init
<1>6. /\ spawns = {} /\ outcomes = {} /\ retrySched = {} /\ autoPaused = {} /\ occupied = {}
      /\ boost = NoTask
  BY DEF Init
<1> QED BY <1>2, <1>3, <1>4, <1>5, <1>6 DEF TypeOK

LEMMA TypeNext ==
  ASSUME TypeOK, [Next]_vars PROVE TypeOK'
<1>1. CASE UNCHANGED vars
  <2>1. UNCHANGED <<actorVars, agenda, db, spawns, doneCh, outcomes, timers, cmds, reboots>>
    BY <1>1 DEF vars, actorVars
  <2> QED BY <2>1 DEF TypeOK, actorVars
<1> QED BY <1>1, TypeHandlerStep, TypeUserCommand, TypeMessage, TypeDownload, TypeReboot DEF Next

(* Every variable always has its type: in particular a handler only ever    *)
(* puts well-formed operations on its agenda, and no counter goes below 0.  *)
THEOREM TypeCorrect == Spec => []TypeOK
<1>1. Init => TypeOK
  BY TypeInit
<1>2. TypeOK /\ [Next]_vars => TypeOK'
  BY TypeNext
<1> QED BY <1>1, <1>2, PTL DEF Spec
-----------------------------------------------------------------------------
(* The inductive invariants *)

Boosting == {"boostActive", "boostQueued", "boostStray"}

(* What the agenda of a handler looks like: only its head is in the middle  *)
(* of a drain, and a Boost target waits for its start at the very end.  As  *)
(* long as it waits, it is not among the tasks being paused; and tasks are  *)
(* paused for a Boost only before the start of its target.                  *)
Starting(a) == \E b \in OpsOf(a) : b.op = "boostStart"
Placed(a) ==
    \A i \in 1..Len(a) : /\ a[i].op = "drainLoop" => i = 1
                         /\ a[i].op = "boostStart" => i = Len(a)
Harmless(o, t) ==
    /\ o.op = "pause" => o.task # t
    /\ o.op \in {"autoPause", "pauseBatch"} => t \notin o.set
    /\ o.op \in Boosting => o.task = t
Spared(a) == \A b \in OpsOf(a) : b.op = "boostStart" => \A o \in OpsOf(a) : Harmless(o, b.task)
Purposeful(a) == \A o \in OpsOf(a) : o.op \in Boosting \cup {"autoPause"} => Starting(a)
AgendaInv(a) == Placed(a) /\ Spared(a) /\ Purposeful(a)

(* Whoever paused tasks for a Boost is about to name its target. *)
AutoOwned == boost = NoTask /\ autoPaused # {} => Starting(agenda)

(* While a pause is outstanding nothing can start the task: it waits for no *)
(* resolve, it has a row, and no Boost has taken it out of the queue.       *)
PauseInv ==
    /\ \A t \in Tasks :
         /\ resolving[t] # 0 => pauses[t].gen = 0
         /\ db[t].status = "none" => ~IsActive(t) /\ pauses[t].gen = 0
    /\ \A b \in OpsOf(agenda) : b.op = "boostStart" /\ b.queued => pauses[b.task].gen = 0
    /\ \A o \in outcomes : o.gen # 0
    /\ PauseExclusive

(* Generations are never reused: the ones in the tables, in flight or in    *)
(* the agenda have been given out, those of two tables differ, and what the *)
(* agenda is about to drop is in no table any more.                         *)
Gone(g) == g \in 1..gen /\ \A u \in Tasks : active[u].gen # g /\ pauses[u].gen # g
Dropped(o) ==
    /\ o.op = "finish" => o.gen \in 1..gen /\ active[o.task].gen # o.gen
    /\ o.op = "reap" => Gone(o.gen)
    /\ o.op = "reapBatch" => \A g \in o.gens : Gone(g)
GenInv ==
    /\ \A t \in Tasks : /\ active[t].gen \in 0..gen /\ pauses[t].gen \in 0..gen
                        /\ active[t].spawned => active[t].gen # 0
    /\ \A t, u \in Tasks : /\ active[t].gen # 0 /\ t # u => active[t].gen # active[u].gen
                           /\ pauses[t].gen # 0 => active[u].gen # pauses[t].gen
    /\ \A s \in spawns : s.gen \in 1..gen
    /\ \A d \in OpsOf(doneCh) : d.gen \in 1..gen
    /\ \A o \in OpsOf(agenda) : Dropped(o)

IInv == /\ TypeOK
        /\ AgendaInv(agenda) /\ AutoOwned
        /\ PauseInv
        /\ GenInv /\ ActiveBacked /\ PauseBacked

-----------------------------------------------------------------------------
(* The agenda *)

(* What a handler may put in front of the agenda a. *)
FrontOK(a, ops) ==
    /\ \A i \in 1..Len(ops) : /\ ops[i].op = "drainLoop" => i = 1
                              /\ ops[i].op # "boostStart"
    /\ \A o \in OpsOf(ops) :
         /\ \A b \in OpsOf(a) : b.op = "boostStart" => Harmless(o, b.task)
         /\ o.op \in Boosting \cup {"autoPause"} => Starting(a)

LEMMA AgendaPush ==
  ASSUME NEW a \in Seq(Op), a # <<>>, AgendaInv(a), Head(a).op # "boostStart",
         NEW ops \in Seq(Op), FrontOK(a, ops)
  PROVE  /\ AgendaInv(ops \o Tail(a))
         /\ Starting(ops \o Tail(a)) <=> Starting(a)
<1> DEFINE c == ops \o Tail(a)
<1>1. /\ c \in Seq(Op) /\ Head(a) \in Op /\ Tail(a) \in Seq(Op)
      /\ OpsOf(a) = {Head(a)} \cup OpsOf(Tail(a)) /\ OpsOf(c) = OpsOf(ops) \cup OpsOf(Tail(a))
  BY ContinueFacts
<1>2. /\ Len(a) \in Nat \ {0} /\ Len(ops) \in Nat /\ Len(Tail(a)) = Len(a) - 1
      /\ Len(c) = Len(ops) + Len(a) - 1
      /\ \A i \in 1..(Len(ops) + Len(a) - 1) :
           \/ (i \in 1..Len(ops) /\ c[i] = ops[i])
           \/ (/\ (i - Len(ops)) + 1 \in 2..Len(a)
               /\ c[i] = a[(i - Len(ops)) + 1])
  OBVIOUS
<1> HIDE DEF c
<1>3. Placed(c)
  <2> SUFFICES ASSUME NEW i \in 1..Len(c)
               PROVE /\ c[i].op = "drainLoop" => i = 1
                     /\ c[i].op = "boostStart" => i = Len(c)
    BY DEF Placed
  <2>1. CASE i \in 1..Len(ops) /\ c[i] = ops[i]
    BY <2>1 DEF FrontOK
  <2>2. CASE (i - Len(ops)) + 1 \in 2..Len(a) /\ c[i] = a[(i - Len(ops)) + 1]
    <3> DEFINE j == (i - Len(ops)) + 1
    <3>1. j \in 1..Len(a) /\ j # 1 /\ (j = Len(a) => i = Len(c)) /\ c[i] = a[j]
      BY <1>2, <2>2
    <3> HIDE DEF j
    <3> QED BY <3>1 DEF AgendaInv, Placed
  <2> QED BY <1>2, <2>1, <2>2
<1>4. ASSUME NEW o \in OpsOf(ops) PROVE o.op # "boostStart"
  BY DEF FrontOK, OpsOf
<1>5. Starting(c) <=> Starting(a)
  BY <1>1, <1>4 DEF Starting
<1>6. Spared(c)
  BY <1>1, <1>4 DEF AgendaInv, Spared, FrontOK
<1>7. Purposeful(c)
  BY <1>1, <1>5 DEF AgendaInv, Purposeful, FrontOK
<1> QED BY <1>3, <1>5, <1>6, <1>7 DEF AgendaInv, c

(* Most operations pause nothing, belong to no Boost and name no generation. *)
Loud == Boosting \cup {"drainLoop", "boostStart", "pause", "autoPause", "pauseBatch", "finish",
                       "reap", "reapBatch"}
Quiet(o) == o.op \notin Loud

LEMMA QuietForms ==
  /\ Quiet(Drain) /\ Quiet(Sync) /\ Quiet(ClearBoost)
  /\ \A t, n : n \notin Loud => Quiet(Do(n, t))
  /\ \A S, n : n \notin Loud => Quiet([op |-> n, set |-> S])
  /\ \A Q, r : Quiet([op |-> "resumeBatch", queued |-> Q, rows |-> r])
BY DEF Quiet, Drain, Sync, ClearBoost, Do, Boosting, Loud

(* The handler goes on with quiet operations only. *)
QuietStep ==
    /\ agenda # <<>> /\ Head(agenda).op # "boostStart"
    /\ \E ops \in Seq(Op) : Continue(ops) /\ \A o \in OpsOf(ops) : Quiet(o)

(* The agenda keeps its shape, and the announced start of a Boost target. *)
AgendaKept == AgendaInv(agenda') /\ (Starting(agenda') <=> Starting(agenda))

LEMMA QuietFacts ==
  ASSUME TypeOK, AgendaInv(agenda), QuietStep
  PROVE  /\ AgendaKept
         /\ \A o \in OpsOf(agenda') : Quiet(o) \/ o \in OpsOf(agenda)
         /\ \A o \in OpsOf(agenda') : o.op # "drainLoop"
         /\ \A o \in OpsOf(agenda) : o = Head(agenda) \/ o \in OpsOf(agenda')
         /\ ~Running("drainLoop")'
<1>1. PICK ops \in Seq(Op) : Continue(ops) /\ \A o \in OpsOf(ops) : Quiet(o)
  BY DEF QuietStep
<1>2. agenda \in Seq(Op) /\ agenda # <<>> /\ Head(agenda).op # "boostStart"
  BY DEF TypeOK, QuietStep
<1>3. FrontOK(agenda, ops)
  <2>1. ASSUME NEW i \in 1..Len(ops) PROVE Quiet(ops[i])
    BY <1>1 DEF OpsOf
  <2> QED BY <1>1, <2>1 DEF FrontOK, Quiet, Harmless, Loud
<1>4. AgendaKept
  BY <1>1, <1>2, <1>3, AgendaPush DEF Continue, AgendaKept
<1>5. /\ OpsOf(agenda) = {Head(agenda)} \cup OpsOf(Tail(agenda))
      /\ OpsOf(agenda') = OpsOf(ops) \cup OpsOf(Tail(agenda))
      /\ agenda' \in Seq(Op)
  BY <1>1, <1>2, ContinueFacts DEF Continue
<1>6. ASSUME NEW o \in OpsOf(Tail(agenda)) PROVE o.op # "drainLoop"
  <2>1. PICK i \in 1..Len(Tail(agenda)) : o = Tail(agenda)[i]
    BY DEF OpsOf
  <2>2. i + 1 \in 1..Len(agenda) /\ i + 1 # 1 /\ o = agenda[i + 1]
    BY <1>2, <2>1
  <2> QED BY <2>2 DEF AgendaInv, Placed
<1>7. \A o \in OpsOf(agenda') : o.op # "drainLoop"
  BY <1>1, <1>5, <1>6 DEF Quiet, Loud
<1>8. ~Running("drainLoop")'
  <2>1. agenda' # <<>> => Head(agenda') \in OpsOf(agenda')
    BY <1>5 DEF OpsOf
  <2> QED BY <1>7, <2>1 DEF Running
<1> QED BY <1>1, <1>4, <1>5, <1>7, <1>8

LEMMA QuietContinue ==
  ASSUME agenda # <<>>, Head(agenda).op # "boostStart",
         NEW ops \in Seq(Op), Continue(ops), \A o \in OpsOf(ops) : Quiet(o)
  PROVE  QuietStep
BY DEF QuietStep

(* The short quiet sequences. *)
LEMMA QuietSeqs ==
  ASSUME NEW a \in Op, NEW b \in Op, NEW c \in Op, Quiet(a), Quiet(b), Quiet(c)
  PROVE  /\ \A o \in OpsOf(<<>>) : Quiet(o)
         /\ \A o \in OpsOf(<<a>>) : Quiet(o)
         /\ \A o \in OpsOf(<<a, b>>) : Quiet(o)
         /\ \A o \in OpsOf(<<a, b, c>>) : Quiet(o)
         /\ \A p : /\ \A o \in OpsOf(Opt(p, a)) : Quiet(o)
                   /\ Opt(p, a) \o <<b>> \in Seq(Op)
                   /\ \A o \in OpsOf(Opt(p, a) \o <<b>>) : Quiet(o)
                   /\ Opt(p, a) \o <<b, c>> \in Seq(Op)
                   /\ \A o \in OpsOf(Opt(p, a) \o <<b, c>>) : Quiet(o)
                   /\ <<b>> \o Opt(p, a) \in Seq(Op)
                   /\ \A o \in OpsOf(<<b>> \o Opt(p, a)) : Quiet(o)
<1>1. /\ \A o \in OpsOf(<<>>) : Quiet(o)
      /\ \A o \in OpsOf(<<a>>) : Quiet(o)
      /\ \A o \in OpsOf(<<b>>) : Quiet(o)
      /\ \A o \in OpsOf(<<a, b>>) : Quiet(o)
      /\ \A o \in OpsOf(<<b, c>>) : Quiet(o)
      /\ \A o \in OpsOf(<<a, b, c>>) : Quiet(o)
      /\ <<b>> \in Seq(Op) /\ <<b, c>> \in Seq(Op)
  <2>1. /\ OpsOf(<<>>) = {} /\ OpsOf(<<a>>) = {a} /\ OpsOf(<<a, b>>) = {a, b}
        /\ OpsOf(<<a, b, c>>) = {a, b, c}
    BY ShortSeqs
  <2>2. <<b>> \in Seq(Op) /\ <<b, c>> \in Seq(Op) /\ OpsOf(<<b>>) = {b} /\ OpsOf(<<b, c>>) = {b, c}
    BY ShortSeqs
  <2> QED BY <2>1, <2>2
<1>2. ASSUME NEW p PROVE Opt(p, a) \in Seq(Op) /\ \A o \in OpsOf(Opt(p, a)) : Quiet(o)
  <2>1. Opt(p, a) \in Seq(Op) /\ OpsOf(Opt(p, a)) = IF p THEN {a} ELSE {}
    BY ShortSeqs
  <2> QED BY <2>1
<1>3. ASSUME NEW x \in Seq(Op), NEW y \in Seq(Op), \A o \in OpsOf(x) : Quiet(o),
             \A o \in OpsOf(y) : Quiet(o)
      PROVE  x \o y \in Seq(Op) /\ \A o \in OpsOf(x \o y) : Quiet(o)
  BY <1>3, CatFacts
<1>4. ASSUME NEW p
      PROVE /\ Opt(p, a) \o <<b>> \in Seq(Op)
            /\ \A o \in OpsOf(Opt(p, a) \o <<b>>) : Quiet(o)
            /\ Opt(p, a) \o <<b, c>> \in Seq(Op)
            /\ \A o \in OpsOf(Opt(p, a) \o <<b, c>>) : Quiet(o)
            /\ <<b>> \o Opt(p, a) \in Seq(Op)
            /\ \A o \in OpsOf(<<b>> \o Opt(p, a)) : Quiet(o)
  BY <1>1, <1>2, <1>3
<1> QED BY <1>1, <1>2, <1>4

(* An idle actor starts a handler. *)
LEMMA AgendaBegin ==
  ASSUME NEW a \in Seq(Op), \A o \in OpsOf(a) : o.op \notin Boosting \cup {"drainLoop", "boostStart", "autoPause"}
  PROVE  AgendaInv(a)
<1>1. ASSUME NEW i \in 1..Len(a) PROVE a[i] \in OpsOf(a)
  BY DEF OpsOf
<1> QED BY <1>1 DEF AgendaInv, Placed, Spared, Purposeful

(* The actions that go on quietly. *)
LEMMA QuietActions ==
  ASSUME TypeOK,
         \/ DrainEnd \/ sync_queue_occupancy \/ ClearPriority \/ EndSet
         \/ LoadBatch \/ BatchResumed \/ ReapBatch \/ EraseBatch
         \/ \E t \in Tasks :
              \/ PauseTaskInner(t) \/ GuardBoost(t) \/ ResumeTaskInner(t) \/ FinishPendingPause(t)
              \/ AutoRetry(t) \/ ResumeBoosted(t) \/ BoostCheck(t) \/ ReapHandle(t) \/ EraseTask(t)
              \/ ResetTask(t) \/ ResumeWithRow(t) \/ ForgetDeleted(t)
  PROVE  QuietStep
<1>0. /\ Drain \in Op /\ Quiet(Drain) /\ Sync \in Op /\ Quiet(Sync)
      /\ ClearBoost \in Op /\ Quiet(ClearBoost)
      /\ \A t \in Tasks, n \in {"resume", "resumeAuto", "guardBoost", "erase"} :
            Do(n, t) \in Op /\ Quiet(Do(n, t))
  BY QuietForms, OpForms DEF Loud, Boosting
<1>1. <<>> \in Seq(Op) /\ (\A o \in OpsOf(<<>>) : Quiet(o))
      /\ <<Sync>> \in Seq(Op) /\ (\A o \in OpsOf(<<Sync>>) : Quiet(o))
      /\ <<Drain, Sync>> \in Seq(Op) /\ (\A o \in OpsOf(<<Drain, Sync>>) : Quiet(o))
  BY <1>0, QuietSeqs, ShortSeqs
<1>2. CASE DrainEnd
  BY <1>1, <1>2, QuietContinue DEF DrainEnd, Running
<1>3. CASE sync_queue_occupancy
  BY <1>1, <1>3, QuietContinue DEF sync_queue_occupancy, Running
<1>4. CASE EndSet
  BY <1>1, <1>4, QuietContinue DEF EndSet, Running
<1>5. CASE BatchResumed
  BY <1>1, <1>5, QuietContinue DEF BatchResumed, Running
<1>6. CASE ClearPriority
  <2>1. autoPaused \in SUBSET Tasks
    BY DEF TypeOK
  <2>2. [op |-> "unboost", set |-> autoPaused] \in Op /\ Quiet([op |-> "unboost", set |-> autoPaused])
    BY <2>1, OpForms, QuietForms DEF Loud, Boosting
  <2> DEFINE o == [op |-> "unboost", set |-> autoPaused]
  <2>3. Running("clearBoost") /\ Continue(<<o>>)
    BY <1>6 DEF ClearPriority
  <2> HIDE DEF o
  <2>4. <<o>> \in Seq(Op) /\ \A x \in OpsOf(<<o>>) : Quiet(x)
    <3>1. o \in Op /\ Quiet(o)
      BY <2>2 DEF o
    <3> QED BY <3>1, QuietSeqs, ShortSeqs
  <2> QED BY <2>3, <2>4, QuietContinue DEF Running
<1>7. CASE LoadBatch
  <2> DEFINE r == [t \in Tasks |-> IF t \in Head(agenda).set /\ HasRow(t) THEN db[t].status ELSE "none"]
  <2>1. r \in [Tasks -> Live \cup {"none"}]
    BY DEF HasRow
  <2>2. Continue(<<[op |-> "resumeBatch", queued |-> {}, rows |-> r]>>) /\ Running("loadBatch")
    BY <1>7 DEF LoadBatch
  <2> HIDE DEF r
  <2>3. /\ [op |-> "resumeBatch", queued |-> {}, rows |-> r] \in Op
        /\ Quiet([op |-> "resumeBatch", queued |-> {}, rows |-> r])
    BY <2>1, OpForms, QuietForms
  <2> DEFINE o == [op |-> "resumeBatch", queued |-> {}, rows |-> r]
  <2> HIDE DEF o
  <2>4. <<o>> \in Seq(Op) /\ \A x \in OpsOf(<<o>>) : Quiet(x)
    <3>1. o \in Op /\ Quiet(o)
      BY <2>3 DEF o
    <3> QED BY <3>1, QuietSeqs, ShortSeqs
  <2>5. Continue(<<o>>)
    BY <2>2 DEF o
  <2> QED BY <2>2, <2>4, <2>5, QuietContinue DEF Running
<1>8. CASE ReapBatch
  <2>1. agenda # <<>> /\ Head(agenda) \in Op /\ Head(agenda).op = "reapBatch"
    BY <1>8, RunningFacts DEF ReapBatch
  <2> DEFINE o == [op |-> "eraseBatch", set |-> Head(agenda).set]
  <2>2. o \in Op /\ Quiet(o) /\ Continue(<<o>>)
    BY <1>8, <2>1, OpFields, OpForms, QuietForms DEF ReapBatch, Loud, Boosting
  <2> HIDE DEF o
  <2> QED BY <1>0, <2>1, <2>2, QuietSeqs, ShortSeqs, QuietContinue
<1>9. CASE EraseBatch
  <2>1. agenda # <<>> /\ Head(agenda) \in Op /\ Head(agenda).op = "eraseBatch"
    BY <1>9, RunningFacts DEF EraseBatch
  <2> DEFINE o == [op |-> "forget", set |-> Head(agenda).set]
  <2>2. o \in Op /\ Quiet(o) /\ Continue(<<o, Drain, Sync>>)
    BY <1>9, <2>1, OpFields, OpForms, QuietForms DEF EraseBatch, Loud, Boosting
  <2> HIDE DEF o
  <2> QED BY <1>0, <2>1, <2>2, QuietSeqs, ShortSeqs, QuietContinue
<1>10. ASSUME NEW t \in Tasks, PauseTaskInner(t) PROVE QuietStep
  <2>1. <<Drain, Do("guardBoost", t), Sync>> \in Seq(Op)
        /\ \A o \in OpsOf(<<Drain, Do("guardBoost", t), Sync>>) : Quiet(o)
    BY <1>0, QuietSeqs, ShortSeqs
  <2>2. agenda # <<>> /\ Head(agenda).op = "pause"
        /\ (Continue(<<Sync>>) \/ Continue(<<Drain, Do("guardBoost", t), Sync>>))
    BY <1>10, Zenon DEF PauseTaskInner, Running
  <2> QED BY <1>1, <2>1, <2>2, QuietContinue
<1>11. ASSUME NEW t \in Tasks, GuardBoost(t) \/ BoostCheck(t) PROVE QuietStep
  <2>1. PICK p : Continue(Opt(p, ClearBoost))
    BY <1>11, Zenon DEF GuardBoost, BoostCheck
  <2>2. Opt(p, ClearBoost) \in Seq(Op) /\ \A o \in OpsOf(Opt(p, ClearBoost)) : Quiet(o)
    BY <1>0, QuietSeqs, ShortSeqs
  <2> QED BY <1>11, <2>1, <2>2, QuietContinue DEF GuardBoost, BoostCheck, Running
<1>12. ASSUME NEW t \in Tasks, ResumeTaskInner(t) PROVE QuietStep
  <2>1. agenda # <<>> /\ Head(agenda).op \in {"resume", "resumeAuto"}
    BY <1>12 DEF ResumeTaskInner, Running
  <2>2. Continue(<<>>) \/ Continue(<<Drain, Sync>>) \/ Continue(<<Sync>>)
    BY <1>12, Zenon DEF ResumeTaskInner, TryResume
  <2> QED BY <1>1, <2>1, <2>2, QuietContinue
<1>13. ASSUME NEW t \in Tasks, FinishPendingPause(t) PROVE QuietStep
  <2>1. PICK p : Continue(<<Drain>> \o Opt(p, Do("resumeAuto", t)))
    BY <1>13, Zenon DEF FinishPendingPause
  <2>2. Do("resumeAuto", t) \in Op /\ Quiet(Do("resumeAuto", t))
    BY <1>0
  <2>3. /\ <<Drain>> \o Opt(p, Do("resumeAuto", t)) \in Seq(Op)
        /\ \A o \in OpsOf(<<Drain>> \o Opt(p, Do("resumeAuto", t))) : Quiet(o)
    BY <1>0, <2>2, QuietSeqs
  <2> QED BY <1>13, <2>1, <2>3, QuietContinue DEF FinishPendingPause, Running
<1>14. ASSUME NEW t \in Tasks, AutoRetry(t) PROVE QuietStep
  BY <1>1, <1>14, QuietContinue DEF AutoRetry, Running
<1>15. ASSUME NEW t \in Tasks, ResumeBoosted(t) PROVE QuietStep
  <2> DEFINE rest == [Head(agenda) EXCEPT !.set = @ \ {t}]
  <2>1. agenda # <<>> /\ Head(agenda) \in Op /\ Head(agenda).op = "unboost"
    BY <1>15, RunningFacts DEF ResumeBoosted
  <2>2. rest \in Op /\ Quiet(rest)
    BY <2>1, OpEdits DEF Quiet, Loud, Boosting
  <2>3. PICK p : Continue(Opt(p, Do("resume", t)) \o <<rest>>)
    BY <1>15, Zenon DEF ResumeBoosted
  <2> HIDE DEF rest
  <2>4. Do("resume", t) \in Op /\ Quiet(Do("resume", t))
    BY <1>0
  <2>5. /\ Opt(p, Do("resume", t)) \o <<rest>> \in Seq(Op)
        /\ \A o \in OpsOf(Opt(p, Do("resume", t)) \o <<rest>>) : Quiet(o)
    BY <2>2, <2>4, QuietSeqs
  <2> QED BY <2>1, <2>3, <2>5, QuietContinue
<1>16. ASSUME NEW t \in Tasks, ReapHandle(t) PROVE QuietStep
  <2>1. <<Do("erase", t)>> \in Seq(Op) /\ \A o \in OpsOf(<<Do("erase", t)>>) : Quiet(o)
    BY <1>0, QuietSeqs, ShortSeqs
  <2> QED BY <1>16, <2>1, QuietContinue DEF ReapHandle, Running
<1>17. ASSUME NEW t \in Tasks, EraseTask(t) PROVE QuietStep
  <2>1. PICK p : Continue(Opt(p, ClearBoost) \o <<Drain, Sync>>)
    BY <1>17, Zenon DEF EraseTask
  <2>2. /\ Opt(p, ClearBoost) \o <<Drain, Sync>> \in Seq(Op)
        /\ \A o \in OpsOf(Opt(p, ClearBoost) \o <<Drain, Sync>>) : Quiet(o)
    BY <1>0, QuietSeqs
  <2> QED BY <1>17, <2>1, <2>2, QuietContinue DEF EraseTask, Running
<1>18. ASSUME NEW t \in Tasks, ResetTask(t) PROVE QuietStep
  <2>1. <<Do("resume", t)>> \in Seq(Op) /\ \A o \in OpsOf(<<Do("resume", t)>>) : Quiet(o)
    BY <1>0, QuietSeqs, ShortSeqs
  <2> QED BY <1>18, <2>1, QuietContinue DEF ResetTask, Running
<1>19. ASSUME NEW t \in Tasks, ForgetDeleted(t) PROVE QuietStep
  <2> DEFINE rest == [Head(agenda) EXCEPT !.set = @ \ {t}]
  <2>1. agenda # <<>> /\ Head(agenda) \in Op /\ Head(agenda).op = "forget"
    BY <1>19, RunningFacts DEF ForgetDeleted
  <2>2. rest \in Op /\ Quiet(rest)
    BY <2>1, OpEdits DEF Quiet, Loud, Boosting
  <2>3. PICK p : Continue(Opt(p, ClearBoost) \o <<rest>>)
    BY <1>19, Zenon DEF ForgetDeleted
  <2> HIDE DEF rest
  <2>4. /\ Opt(p, ClearBoost) \o <<rest>> \in Seq(Op)
        /\ \A o \in OpsOf(Opt(p, ClearBoost) \o <<rest>>) : Quiet(o)
    BY <1>0, <2>2, QuietSeqs
  <2> QED BY <2>1, <2>3, <2>4, QuietContinue
<1>20. ASSUME NEW t \in Tasks, ResumeWithRow(t) PROVE QuietStep
  <2> DEFINE b == Head(agenda)
             rest == [b EXCEPT !.rows[t] = "none"]
             Q == IF b.rows[t] = "completed" THEN rest.queued ELSE rest.queued \cup {t}
             waits == [rest EXCEPT !.queued = IF b.rows[t] = "completed" THEN @ ELSE @ \cup {t}]
  <2>1. agenda # <<>> /\ b \in Op /\ b.op = "resumeBatch"
    BY <1>20, RunningFacts DEF ResumeWithRow
  <2>2. /\ rest \in Op /\ rest.op = "resumeBatch" /\ rest.queued \in SUBSET Tasks
        /\ \A S \in SUBSET Tasks : /\ [rest EXCEPT !.queued = S] \in Op
                                   /\ [rest EXCEPT !.queued = S].op = "resumeBatch"
    <3>1. rest \in Op /\ rest.op = "resumeBatch" /\ rest.queued \in SUBSET Tasks
      BY <2>1, BatchEdits
    <3> HIDE DEF rest
    <3> QED BY <3>1, QueuedEdits
  <2>3. TryResume(t, b.rows[t], <<rest>>, <<Drain, rest>>, <<waits>>, db)
    BY <1>20 DEF ResumeWithRow
  <2>4. waits \in Op /\ waits.op = "resumeBatch"
    <3>1. Q \in SUBSET Tasks
      BY <2>2
    <3>2. waits = [rest EXCEPT !.queued = Q]
      BY Zenon
    <3> HIDE DEF rest, waits, Q
    <3> QED BY <2>2, <3>1, <3>2
  <2> HIDE DEF rest, waits, b
  <2>5. Quiet(rest) /\ Quiet(waits)
    BY <2>2, <2>4 DEF Quiet, Loud, Boosting
  <2>6. Continue(<<rest>>) \/ Continue(<<Drain, rest>>) \/ Continue(<<waits>>)
    BY <2>3, Zenon DEF TryResume
  <2>7. /\ <<rest>> \in Seq(Op) /\ <<Drain, rest>> \in Seq(Op) /\ <<waits>> \in Seq(Op)
        /\ \A o \in OpsOf(<<rest>>) : Quiet(o)
        /\ \A o \in OpsOf(<<Drain, rest>>) : Quiet(o)
        /\ \A o \in OpsOf(<<waits>>) : Quiet(o)
    BY <1>0, <2>2, <2>4, <2>5, QuietSeqs, ShortSeqs
  <2>8. Head(agenda).op # "boostStart"
    BY <2>1 DEF b
  <2> QED BY <2>1, <2>6, <2>7, <2>8, QuietContinue
<1> QED BY <1>2, <1>3, <1>4, <1>5, <1>6, <1>7, <1>8, <1>9, <1>10, <1>11, <1>12, <1>13, <1>14,
           <1>15, <1>16, <1>17, <1>18, <1>19, <1>20

(* Handlers put no generation and no start of a Boost target on the agenda, *)
(* and drop nothing but the operation they execute.                         *)
AgendaFlow ==
    /\ agenda # <<>>
    /\ \A o \in OpsOf(agenda') :
         o.op \notin {"finish", "reap", "reapBatch", "boostStart"} \/ o \in OpsOf(agenda)
    /\ \A o \in OpsOf(agenda) : o = Head(agenda) \/ o \in OpsOf(agenda')

LEMMA LoudContinue ==
  ASSUME TypeOK, AgendaInv(agenda), agenda # <<>>, Head(agenda).op # "boostStart",
         NEW ops \in Seq(Op), ops # <<>>, Continue(ops), FrontOK(agenda, ops),
         \A o \in OpsOf(ops) : o.op \notin {"finish", "reap", "reapBatch"}
  PROVE  AgendaKept /\ AgendaFlow /\ agenda' # <<>> /\ Head(agenda') = Head(ops)
<1>1. agenda \in Seq(Op)
  BY DEF TypeOK
<1>2. /\ OpsOf(agenda) = {Head(agenda)} \cup OpsOf(Tail(agenda))
      /\ OpsOf(agenda') = OpsOf(ops) \cup OpsOf(Tail(agenda)) /\ Tail(agenda) \in Seq(Op)
  BY <1>1, ContinueFacts DEF Continue
<1>3. AgendaKept
  BY <1>1, AgendaPush DEF Continue, AgendaKept
<1>4. \A o \in OpsOf(ops) : o.op # "boostStart"
  BY DEF FrontOK, OpsOf
<1>5. agenda' # <<>> /\ Head(agenda') = Head(ops)
  BY <1>2 DEF Continue
<1> QED BY <1>2, <1>3, <1>4, <1>5 DEF AgendaFlow

LEMMA HeadInOps ==
  ASSUME TypeOK, agenda # <<>>
  PROVE  Head(agenda) \in OpsOf(agenda) /\ Head(agenda) \in Op
BY DEF TypeOK, OpsOf

LEMMA LoudDrain ==
  ASSUME TypeOK, AgendaInv(agenda), DrainQueue \/ DrainItem
  PROVE  /\ AgendaKept /\ AgendaFlow /\ agenda' # <<>> /\ Head(agenda') \in Op
         /\ Head(agenda').op = "drainLoop"
         /\ DrainQueue => /\ Head(agenda').rest = queue /\ Head(agenda').kept = <<>>
         /\ DrainItem => /\ Head(agenda').rest = Tail(Head(agenda).rest)
                         /\ Head(agenda').kept \in {Head(agenda).kept,
                                                    Append(Head(agenda).kept, Head(Head(agenda).rest))}
<1>1. PICK r \in Seq(Tasks), k \in Seq(Tasks) :
         /\ Continue(<<[op |-> "drainLoop", rest |-> r, kept |-> k]>>)
         /\ DrainQueue => r = queue /\ k = <<>>
         /\ DrainItem => /\ r = Tail(Head(agenda).rest)
                         /\ k \in {Head(agenda).kept, Append(Head(agenda).kept, Head(Head(agenda).rest))}
  <2>1. CASE DrainQueue
    <3>1. queue \in Seq(Tasks) /\ <<>> \in Seq(Tasks)
      BY DEF TypeOK
    <3>2. ~DrainItem
      BY <2>1 DEF DrainQueue, DrainItem, Running
    <3> QED BY <2>1, <3>1, <3>2 DEF DrainQueue
  <2>2. CASE DrainItem
    <3> DEFINE d == Head(agenda)
               x == Head(d.rest)
               keep == ~IsActive(x) /\ ~has_queue_capacity(QueueOf[x])
               k == IF keep THEN Append(d.kept, x) ELSE d.kept
    <3>1. d \in Op /\ d.op = "drainLoop"
      BY <2>2, RunningFacts DEF DrainItem
    <3>2. d.rest \in Seq(Tasks) /\ d.kept \in Seq(Tasks)
      BY <3>1, OpFields
    <3>3. d.rest # <<>> /\ x \in Tasks /\ Tail(d.rest) \in Seq(Tasks)
      BY <2>2, <3>2 DEF DrainItem, LoopEnds
    <3>4. k \in Seq(Tasks) /\ k \in {d.kept, Append(d.kept, x)}
      BY <3>2, <3>3
    <3>5. Continue(<<[op |-> "drainLoop", rest |-> Tail(d.rest), kept |-> k]>>)
      BY <2>2 DEF DrainItem
    <3>6. ~DrainQueue
      BY <2>2 DEF DrainQueue, DrainItem, Running
    <3> HIDE DEF k
    <3> QED BY <3>3, <3>4, <3>5, <3>6
  <2> QED BY <2>1, <2>2
<1>2. agenda # <<>> /\ Head(agenda).op # "boostStart"
  BY DEF DrainQueue, DrainItem, Running
<1> DEFINE o == [op |-> "drainLoop", rest |-> r, kept |-> k]
<1>3. o \in Op /\ o.op = "drainLoop" /\ o.rest = r /\ o.kept = k /\ Continue(<<o>>)
  BY <1>1, OpForms
<1> HIDE DEF o
<1>4. <<o>> \in Seq(Op) /\ OpsOf(<<o>>) = {o} /\ Len(<<o>>) = 1 /\ <<o>>[1] = o /\ <<o>> # <<>>
      /\ Head(<<o>>) = o
  BY <1>3, ShortSeqs, TupleFacts
<1>5. FrontOK(agenda, <<o>>)
  BY <1>3, <1>4 DEF FrontOK, Harmless, Boosting
<1>6. AgendaKept /\ AgendaFlow /\ agenda' # <<>> /\ Head(agenda') = o
  BY <1>2, <1>3, <1>4, <1>5, LoudContinue
<1> QED BY <1>1, <1>3, <1>6

LEMMA LoudBoostCollect ==
  ASSUME TypeOK, AgendaInv(agenda), NEW t \in Tasks, BoostCollect(t)
  PROVE  AgendaKept /\ AgendaFlow /\ ~Running("drainLoop")'
<1>1. /\ agenda # <<>> /\ Head(agenda).op \in Boosting /\ Head(agenda).task = t
  BY DEF BoostCollect, Running, Boosting
<1>2. PICK S \in SUBSET Tasks : t \notin S /\ Continue(<<[op |-> "autoPause", set |-> S]>>)
  <2>1. CASE Running("boostActive")
    BY <2>1 DEF BoostCollect, ActiveTasks, Running
  <2>2. CASE Running("boostQueued")
    <3>1. QueuedTasks(queue) \in SUBSET Tasks
      BY QueuedAreTasks
    <3> QED BY <2>2, <3>1 DEF BoostCollect, Running
  <2>3. CASE Running("boostStray")
    BY <2>3 DEF BoostCollect, ActiveTasks, Running
  <2> QED BY <2>1, <2>2, <2>3 DEF BoostCollect
<1> DEFINE o == [op |-> "autoPause", set |-> S]
<1>3. o \in Op /\ o.op = "autoPause" /\ o.set = S /\ Continue(<<o>>)
  BY <1>2, OpForms
<1> HIDE DEF o
<1>4. <<o>> \in Seq(Op) /\ OpsOf(<<o>>) = {o} /\ Len(<<o>>) = 1 /\ <<o>>[1] = o /\ <<o>> # <<>>
      /\ Head(<<o>>) = o
  BY <1>3, ShortSeqs, TupleFacts
<1>5. Head(agenda) \in OpsOf(agenda)
  BY <1>1, HeadInOps
<1>6. Starting(agenda) /\ \A b \in OpsOf(agenda) : b.op = "boostStart" => b.task = t
  BY <1>1, <1>5 DEF AgendaInv, Purposeful, Spared, Harmless
<1>7. FrontOK(agenda, <<o>>)
  BY <1>2, <1>3, <1>4, <1>6 DEF FrontOK, Harmless, Boosting
<1>8. AgendaKept /\ AgendaFlow /\ agenda' # <<>> /\ Head(agenda') = o
  BY <1>1, <1>3, <1>4, <1>7, LoudContinue DEF Boosting
<1> QED BY <1>3, <1>8 DEF Running

LEMMA LoudPauses ==
  ASSUME TypeOK, AgendaInv(agenda), NEW t \in Tasks, AutoPause(t) \/ PauseBatchItem(t)
  PROVE  /\ AgendaKept /\ AgendaFlow /\ ~Running("drainLoop")'
         /\ AutoPause(t) => Starting(agenda)
<1> DEFINE rest == [Head(agenda) EXCEPT !.set = @ \ {t}]
           p == Do("pause", t)
<1>1. /\ agenda # <<>> /\ Head(agenda) \in Op /\ Head(agenda).op \in {"autoPause", "pauseBatch"}
      /\ t \in Head(agenda).set /\ (AutoPause(t) => Head(agenda).op = "autoPause")
  BY RunningFacts DEF AutoPause, PauseBatchItem, Running
<1>2. rest \in Op /\ rest.op = Head(agenda).op /\ rest.set = Head(agenda).set \ {t}
  BY <1>1, OpEdits
<1>3. p \in Op /\ p.op = "pause" /\ p.task = t
  BY OpForms DEF Do
<1>4. Continue(<<p, rest>>)
  BY DEF AutoPause, PauseBatchItem
<1> HIDE DEF rest, p
<1>5. <<p, rest>> \in Seq(Op) /\ OpsOf(<<p, rest>>) = {p, rest} /\ <<p, rest>> # <<>>
      /\ Head(<<p, rest>>) = p /\ Len(<<p, rest>>) = 2 /\ <<p, rest>>[1] = p /\ <<p, rest>>[2] = rest
  BY <1>2, <1>3, ShortSeqs, TupleFacts
<1>6. Head(agenda) \in OpsOf(agenda)
  BY <1>1, HeadInOps
<1>7. /\ Head(agenda).op = "autoPause" => Starting(agenda)
      /\ \A b \in OpsOf(agenda) : b.op = "boostStart" => b.task \notin Head(agenda).set
  BY <1>1, <1>6 DEF AgendaInv, Purposeful, Spared, Harmless
<1>8. FrontOK(agenda, <<p, rest>>)
  BY <1>1, <1>2, <1>3, <1>5, <1>7 DEF FrontOK, Harmless, Boosting
<1>9. \A o \in OpsOf(<<p, rest>>) : o.op \notin {"finish", "reap", "reapBatch"}
  BY <1>1, <1>2, <1>3, <1>5
<1>10. AgendaKept /\ AgendaFlow /\ agenda' # <<>> /\ Head(agenda') = p
  BY <1>1, <1>4, <1>5, <1>8, <1>9, LoudContinue
<1> QED BY <1>1, <1>3, <1>7, <1>10 DEF Running

LEMMA LoudBoostStart ==
  ASSUME TypeOK, AgendaInv(agenda), NEW t \in Tasks, BoostStart(t)
  PROVE  AgendaInv(agenda') /\ AgendaFlow /\ ~Running("drainLoop")'
<1> DEFINE ops == Opt(~IsActive(t) /\ ~(~IsActive(t) /\ Head(agenda).queued), Do("resume", t))
                  \o <<Do("boostCheck", t)>>
<1>1. agenda \in Seq(Op) /\ agenda # <<>> /\ Head(agenda).op = "boostStart"
  BY RunningFacts DEF BoostStart
<1>2. agenda[1] = Head(agenda) /\ 1 \in 1..Len(agenda)
  BY <1>1
<1>3. Len(agenda) = 1
  BY <1>1, <1>2 DEF AgendaInv, Placed
<1>4. Tail(agenda) = <<>> /\ Tail(agenda) \in Seq(Op)
  BY <1>1, <1>3, EmptyTail, SeqFacts
<1>5. Continue(ops)
  BY DEF BoostStart
<1>6. ops \in Seq(Op) /\ \A o \in OpsOf(ops) : Quiet(o)
  <2>1. Do("resume", t) \in Op /\ Quiet(Do("resume", t)) /\ Do("boostCheck", t) \in Op /\ Quiet(Do("boostCheck", t))
    BY OpForms, QuietForms DEF Loud, Boosting
  <2> QED BY <2>1, QuietSeqs
<1> HIDE DEF ops
<1>7. agenda' = ops \o <<>> /\ agenda' = ops
  BY <1>4, <1>5, <1>6 DEF Continue
<1>8. AgendaInv(agenda')
  BY <1>6, <1>7, AgendaBegin DEF Quiet, Loud
<1>9. AgendaFlow
  <2>1. OpsOf(agenda) = {Head(agenda)} \cup OpsOf(<<>>) /\ OpsOf(<<>>) = {}
    <3>1. OpsOf(agenda) = {Head(agenda)} \cup OpsOf(Tail(agenda))
      BY <1>1, <1>6, ContinueFacts
    <3>2. OpsOf(<<>>) = {}
      BY ShortSeqs, OpForms
    <3> QED BY <1>4, <3>1, <3>2
  <2> QED BY <1>1, <1>6, <1>7, <2>1 DEF AgendaFlow, Quiet, Loud
<1>10. ~Running("drainLoop")'
  <2>1. ops # <<>> => Head(ops) \in OpsOf(ops)
    BY <1>6 DEF OpsOf
  <2> QED BY <1>6, <1>7, <2>1 DEF Running, Quiet, Loud
<1> QED BY <1>8, <1>9, <1>10

(* What every step of a handler does to the agenda. *)
LEMMA HandlerAgenda ==
  ASSUME TypeOK, AgendaInv(agenda), HandlerStep
  PROVE  /\ AgendaInv(agenda') /\ AgendaFlow
         /\ Head(agenda).op # "boostStart" => (Starting(agenda') <=> Starting(agenda))
         /\ DrainQueue \/ DrainItem \/ ~Running("drainLoop")'
<1>1. CASE DrainQueue \/ DrainItem
  BY <1>1, LoudDrain DEF AgendaKept
<1>2. ASSUME NEW t \in Tasks, BoostCollect(t) PROVE AgendaKept /\ AgendaFlow /\ ~Running("drainLoop")'
  BY <1>2, LoudBoostCollect
<1>3. ASSUME NEW t \in Tasks, AutoPause(t) \/ PauseBatchItem(t)
      PROVE AgendaKept /\ AgendaFlow /\ ~Running("drainLoop")'
  BY <1>3, LoudPauses
<1>4. ASSUME NEW t \in Tasks, BoostStart(t)
      PROVE AgendaInv(agenda') /\ AgendaFlow /\ ~Running("drainLoop")' /\ Head(agenda).op = "boostStart"
  BY <1>4, LoudBoostStart DEF BoostStart, Running
<1>5. CASE QuietStep
  BY <1>5, QuietFacts DEF AgendaFlow, Quiet, Loud, AgendaKept, QuietStep
<1>6. \/ DrainQueue \/ DrainItem \/ QuietStep
      \/ \E t \in Tasks : BoostCollect(t) \/ AutoPause(t) \/ PauseBatchItem(t) \/ BoostStart(t)
  BY QuietActions, Zenon DEF HandlerStep
<1> QED BY <1>1, <1>2, <1>3, <1>4, <1>5, <1>6 DEF AgendaKept

(* What a command or a message puts on the empty agenda. *)
LEMMA BoostAgenda ==
  ASSUME NEW t \in Tasks, NEW q \in BOOLEAN
  PROVE  LET a == <<Do("boostActive", t), Do("boostQueued", t), Do("boostStray", t),
                    [op |-> "boostStart", task |-> t, queued |-> q]>>
         IN /\ AgendaInv(a) /\ Starting(a)
            /\ \A o \in OpsOf(a) : /\ o.op \in Boosting \cup {"boostStart"}
                                   /\ o.op = "boostStart" => o.task = t /\ o.queued = q
            /\ a # <<>> /\ Head(a).op # "drainLoop"
<1> DEFINE a1 == Do("boostActive", t)
           a2 == Do("boostQueued", t)
           a3 == Do("boostStray", t)
           a4 == [op |-> "boostStart", task |-> t, queued |-> q]
           a == <<a1, a2, a3, a4>>
<1>1. /\ a1.op = "boostActive" /\ a1.task = t /\ a2.op = "boostQueued" /\ a2.task = t
      /\ a3.op = "boostStray" /\ a3.task = t /\ a4.op = "boostStart" /\ a4.task = t /\ a4.queued = q
  BY DEF Do
<1> HIDE DEF a1, a2, a3, a4
<1>2. Len(a) = 4 /\ a[1] = a1 /\ a[2] = a2 /\ a[3] = a3 /\ a[4] = a4 /\ a # <<>> /\ Head(a) = a1
  OBVIOUS
<1> HIDE DEF a
<1>3. \A i \in 1..Len(a) : i = 1 \/ i = 2 \/ i = 3 \/ i = 4
  BY <1>2
<1>4. OpsOf(a) = {a1, a2, a3, a4}
  <2>1. OpsOf(a) \subseteq {a1, a2, a3, a4}
    BY <1>2, <1>3 DEF OpsOf
  <2>2. 1 \in 1..Len(a) /\ 2 \in 1..Len(a) /\ 3 \in 1..Len(a) /\ 4 \in 1..Len(a)
    BY <1>2
  <2>3. {a1, a2, a3, a4} \subseteq OpsOf(a)
    BY <1>2, <2>2 DEF OpsOf
  <2> QED BY <2>1, <2>3
<1>5. Placed(a)
  BY <1>1, <1>2, <1>3 DEF Placed
<1>6. Starting(a) /\ Spared(a) /\ Purposeful(a)
  BY <1>1, <1>4 DEF Starting, Spared, Purposeful, Harmless, Boosting
<1>7. \A o \in OpsOf(a) : /\ o.op \in Boosting \cup {"boostStart"}
                          /\ o.op = "boostStart" => o.task = t /\ o.queued = q
  BY <1>1, <1>4 DEF Boosting
<1>8. AgendaInv(a)
  BY <1>5, <1>6 DEF AgendaInv
<1>9. Head(a).op # "drainLoop"
  BY <1>1, <1>2
<1> QED BY <1>2, <1>6, <1>7, <1>8, <1>9 DEF a, a1, a2, a3, a4

(* Everything else a command or a message begins with. *)
Opening == Boosting \cup {"drainLoop", "boostStart", "autoPause"}
BeginStep == Idle /\ agenda' \in Seq(Op) /\ \A o \in OpsOf(agenda') : o.op \notin Opening

LEMMA BeginFacts ==
  ASSUME BeginStep
  PROVE  AgendaInv(agenda') /\ ~Running("drainLoop")' /\ ~Starting(agenda)
<1>1. agenda' # <<>> => Head(agenda') \in OpsOf(agenda')
  BY DEF BeginStep, OpsOf
<1>2. AgendaInv(agenda')
  BY AgendaBegin DEF BeginStep, Opening
<1>3. ~Starting(agenda)
  BY DEF BeginStep, Idle, Starting, OpsOf
<1> QED BY <1>1, <1>2, <1>3 DEF BeginStep, Opening, Running

LEMMA OpenForms ==
  /\ Drain.op = "drain" /\ Sync.op = "sync" /\ ClearBoost.op = "clearBoost"
  /\ \A t, n : Do(n, t).op = n /\ Do(n, t).task = t
BY DEF Drain, Sync, ClearBoost, Do

(* No generation is handed over to a handler. *)
HandsNone == \A o \in OpsOf(agenda') : o.op \notin {"finish", "reap", "reapBatch"}

LEMMA CommandAgenda ==
  ASSUME TypeOK, TypeOK',
         \/ \E S \in Batch : DeleteTasksBatch(S)
         \/ \E q \in Queues : StartQueue(q) \/ StopQueue(q)
         \/ \E t \in Tasks, later \in BOOLEAN : CreateTask(t, later)
         \/ \E t \in Tasks : PauseTask(t) \/ ResumeTask(t) \/ CancelTask(t) \/ DeleteTask(t) \/ RestartTask(t)
         \/ \E n \in Limits : SetMaxConcurrent(n)
  PROVE  /\ BeginStep /\ UNCHANGED <<boost, autoPaused>>
         /\ HandsNone \/ (\E S \in Batch : DeleteTasksBatch(S)) \/ \E t \in Tasks : DeleteTask(t)
<1>0. agenda' \in Seq(Op)
  BY DEF TypeOK
<1>1. ASSUME NEW S \in Batch, DeleteTasksBatch(S) PROVE BeginStep /\ UNCHANGED <<boost, autoPaused>>
  <2>1. PICK G : agenda' = <<[op |-> "reapBatch", set |-> S, gens |-> G]>>
    BY <1>1, Zenon DEF DeleteTasksBatch
  <2>2. \A o \in OpsOf(agenda') : o.op = "reapBatch"
    BY <2>1 DEF OpsOf
  <2> QED BY <1>0, <1>1, <2>2 DEF DeleteTasksBatch, Command, BeginStep, Opening, Boosting
<1>2. ASSUME NEW q \in Queues, StartQueue(q) PROVE BeginStep /\ HandsNone /\ UNCHANGED <<boost, autoPaused>>
  <2>1. PICK S : agenda' = <<[op |-> "loadBatch", set |-> S]>>
    BY <1>2, Zenon DEF StartQueue, batch_resume
  <2>2. \A o \in OpsOf(agenda') : o.op = "loadBatch"
    BY <2>1 DEF OpsOf
  <2> QED BY <1>0, <1>2, <2>2 DEF StartQueue, batch_resume, Command, BeginStep, HandsNone, Opening, Boosting, actorVars
<1>3. ASSUME NEW q \in Queues, StopQueue(q) PROVE BeginStep /\ HandsNone /\ UNCHANGED <<boost, autoPaused>>
  <2>1. PICK S : agenda' = <<[op |-> "pauseBatch", set |-> S]>>
    BY <1>3, Zenon DEF StopQueue, batch_pause
  <2>2. \A o \in OpsOf(agenda') : o.op = "pauseBatch"
    BY <2>1 DEF OpsOf
  <2>3. UNCHANGED <<boost, autoPaused>>
    BY <1>3 DEF StopQueue, batch_pause
  <2>4. Idle
    BY <1>3 DEF StopQueue, Command
  <2> QED BY <1>0, <2>2, <2>3, <2>4 DEF BeginStep, HandsNone, Opening, Boosting
<1>4. ASSUME NEW t \in Tasks, NEW later \in BOOLEAN, CreateTask(t, later)
      PROVE BeginStep /\ HandsNone /\ UNCHANGED <<boost, autoPaused>>
  <2>1. Idle /\ UNCHANGED <<boost, autoPaused>>
    BY <1>4 DEF CreateTask, Command
  <2>2. agenda' = <<>> \/ agenda' = <<Drain, Sync>> \/ agenda' = <<Sync>>
    BY <1>4, Zenon DEF CreateTask
  <2>3. \A o \in OpsOf(agenda') : o = Drain \/ o = Sync
    <3>1. /\ OpsOf(<<>>) = {} /\ OpsOf(<<Drain, Sync>>) = {Drain, Sync} /\ OpsOf(<<Sync>>) = {Sync}
      BY ShortSeqs, OpForms
    <3> QED BY <2>2, <3>1
  <2> QED BY <1>0, <2>1, <2>3, OpenForms DEF BeginStep, HandsNone, Opening, Boosting
<1>5. ASSUME NEW t \in Tasks, PauseTask(t) \/ ResumeTask(t) PROVE BeginStep /\ HandsNone /\ UNCHANGED <<boost, autoPaused>>
  <2>1. Idle /\ UNCHANGED <<boost, autoPaused>>
    BY <1>5 DEF PauseTask, ResumeTask, Command, actorVars
  <2>2. agenda' = <<Do("pause", t)>> \/ agenda' = <<Do("resume", t)>>
    BY <1>5 DEF PauseTask, ResumeTask
  <2>3. \A o \in OpsOf(agenda') : o.op = "pause" \/ o.op = "resume"
    BY <2>2, OpenForms DEF OpsOf
  <2> QED BY <1>0, <2>1, <2>3 DEF BeginStep, HandsNone, Opening, Boosting
<1>6. ASSUME NEW t \in Tasks, CancelTask(t) PROVE BeginStep /\ HandsNone /\ UNCHANGED <<boost, autoPaused>>
  <2>1. Idle /\ UNCHANGED <<boost, autoPaused>> /\ agenda' = <<Drain>>
    BY <1>6 DEF CancelTask, CancelledRow, Command
  <2>2. \A o \in OpsOf(agenda') : o = Drain
    BY <2>1 DEF OpsOf
  <2> QED BY <1>0, <2>1, <2>2, OpenForms DEF BeginStep, HandsNone, Opening, Boosting
<1>7. ASSUME NEW t \in Tasks, DeleteTask(t) PROVE BeginStep /\ UNCHANGED <<boost, autoPaused>>
  <2>1. Idle /\ UNCHANGED <<boost, autoPaused>>
    BY <1>7 DEF DeleteTask, Command
  <2>2. agenda' = <<[op |-> "reap", task |-> t, gen |-> active[t].gen]>> \/ agenda' = <<Do("erase", t)>>
    BY <1>7, Zenon DEF DeleteTask
  <2>3. \A o \in OpsOf(agenda') : o.op = "reap" \/ o.op = "erase"
    BY <2>2, OpenForms DEF OpsOf
  <2> QED BY <1>0, <2>1, <2>3 DEF BeginStep, Opening, Boosting
<1>8. ASSUME NEW t \in Tasks, RestartTask(t) PROVE BeginStep /\ HandsNone /\ UNCHANGED <<boost, autoPaused>>
  <2>1. Idle /\ UNCHANGED <<boost, autoPaused>>
    BY <1>8 DEF RestartTask, Command, actorVars
  <2>2. PICK p : agenda' = Opt(p, Do("pause", t)) \o <<Do("reset", t)>>
    BY <1>8, Zenon DEF RestartTask
  <2>3. Do("pause", t) \in Op /\ Do("reset", t) \in Op
    BY OpForms
  <2>4. \A o \in OpsOf(agenda') : o = Do("pause", t) \/ o = Do("reset", t)
    <3>1. /\ Opt(p, Do("pause", t)) \in Seq(Op) /\ <<Do("reset", t)>> \in Seq(Op)
          /\ OpsOf(Opt(p, Do("pause", t))) \subseteq {Do("pause", t)}
          /\ OpsOf(<<Do("reset", t)>>) = {Do("reset", t)}
      BY <2>3, ShortSeqs
    <3> QED BY <2>2, <3>1, CatFacts
  <2> QED BY <1>0, <2>1, <2>4, OpenForms DEF BeginStep, HandsNone, Opening, Boosting
<1>9. ASSUME NEW n \in Limits, SetMaxConcurrent(n) PROVE BeginStep /\ HandsNone /\ UNCHANGED <<boost, autoPaused>>
  <2>1. Idle /\ UNCHANGED <<boost, autoPaused>> /\ agenda' = <<Drain>>
    BY <1>9 DEF SetMaxConcurrent, Command
  <2>2. \A o \in OpsOf(agenda') : o = Drain
    BY <2>1 DEF OpsOf
  <2> QED BY <1>0, <2>1, <2>2, OpenForms DEF BeginStep, HandsNone, Opening, Boosting
<1> QED BY <1>1, <1>2, <1>3, <1>4, <1>5, <1>6, <1>7, <1>8, <1>9, Zenon

(* on_task_done hands over the generation it has received. *)
LEMMA TaskDoneAgenda ==
  ASSUME TypeOK, TypeOK', OnTaskDone
  PROVE  /\ BeginStep /\ UNCHANGED <<boost, autoPaused>>
         /\ LET f == [op |-> "finish", task |-> Head(doneCh).task, gen |-> Head(doneCh).gen]
            IN /\ f \in OpsOf(agenda')
               /\ \A o \in OpsOf(agenda') : o = f \/ o.op \notin {"finish", "reap", "reapBatch"}
<1>0. agenda' \in Seq(Op)
  BY DEF TypeOK
<1> DEFINE f == [op |-> "finish", task |-> Head(doneCh).task, gen |-> Head(doneCh).gen]
           r == Do("retry", Head(doneCh).task)
<1>1. Idle /\ UNCHANGED <<boost, autoPaused>>
  BY DEF OnTaskDone
<1>2. PICK p, q : agenda' = Opt(p, ClearBoost) \o <<f>> \o Opt(q, r) \o <<Sync>>
  BY Zenon DEF OnTaskDone
<1>3. f \in Op /\ f.op = "finish" /\ r \in Op /\ r.op = "retry" /\ ClearBoost \in Op /\ Sync \in Op
  <2>1. doneCh \in Seq([task : Tasks, gen : Nat]) /\ doneCh # <<>>
    BY DEF OnTaskDone, TypeOK
  <2>2. Head(doneCh) \in [task : Tasks, gen : Nat]
    BY <2>1, SeqFacts
  <2>3. Head(doneCh).task \in Tasks /\ Head(doneCh).gen \in Nat
    BY <2>2
  <2> QED BY <2>3, OpForms, OpenForms
<1> HIDE DEF f, r
<1>4. f \in OpsOf(agenda') /\ \A o \in OpsOf(agenda') : o \in {ClearBoost, f, r, Sync}
  <2>1. /\ Opt(p, ClearBoost) \in Seq(Op) /\ OpsOf(Opt(p, ClearBoost)) \subseteq {ClearBoost}
        /\ Opt(q, r) \in Seq(Op) /\ OpsOf(Opt(q, r)) \subseteq {r}
        /\ <<f>> \in Seq(Op) /\ OpsOf(<<f>>) = {f} /\ <<Sync>> \in Seq(Op) /\ OpsOf(<<Sync>>) = {Sync}
    BY <1>3, ShortSeqs
  <2> DEFINE c1 == Opt(p, ClearBoost) \o <<f>>
             c2 == c1 \o Opt(q, r)
             c3 == c2 \o <<Sync>>
  <2>2. c1 \in Seq(Op) /\ OpsOf(c1) = OpsOf(Opt(p, ClearBoost)) \cup OpsOf(<<f>>)
    BY <2>1, CatFacts
  <2> HIDE DEF c1
  <2>3. c2 \in Seq(Op) /\ OpsOf(c2) = OpsOf(c1) \cup OpsOf(Opt(q, r))
    BY <2>1, <2>2, CatFacts
  <2> HIDE DEF c2
  <2>4. c3 \in Seq(Op) /\ OpsOf(c3) = OpsOf(c2) \cup OpsOf(<<Sync>>)
    BY <2>1, <2>3, CatFacts
  <2>5. agenda' = c3
    BY <1>2 DEF c1, c2
  <2> HIDE DEF c3
  <2> QED BY <2>1, <2>2, <2>3, <2>4, <2>5
<1>5. BeginStep /\ UNCHANGED <<boost, autoPaused>>
  BY <1>0, <1>1, <1>3, <1>4, OpenForms DEF BeginStep, Opening, Boosting
<1>6. \A o \in OpsOf(agenda') : o = f \/ o.op \notin {"finish", "reap", "reapBatch"}
  BY <1>3, <1>4, OpenForms
<1> QED BY <1>4, <1>5, <1>6 DEF f

LEMMA MessageAgenda ==
  ASSUME TypeOK, TypeOK', Message
  PROVE  BeginStep /\ (HandsNone \/ OnTaskDone) /\ UNCHANGED <<boost, autoPaused>>
<1>0. agenda' \in Seq(Op)
  BY DEF TypeOK
<1>1. CASE OnTaskDone
  BY <1>1, TaskDoneAgenda
<1>2. ASSUME NEW t \in Tasks, OnRetry(t) PROVE BeginStep /\ HandsNone /\ UNCHANGED <<boost, autoPaused>>
  <2>1. Idle /\ UNCHANGED <<boost, autoPaused>>
    BY <1>2 DEF OnRetry, actorVars
  <2>2. agenda' = <<Do("resumeAuto", t)>> \/ agenda' = <<>>
    BY <1>2 DEF OnRetry, Opt
  <2>3. \A o \in OpsOf(agenda') : o = Do("resumeAuto", t)
    BY <2>2 DEF OpsOf
  <2> QED BY <1>0, <2>1, <2>3, OpenForms DEF BeginStep, HandsNone, Opening, Boosting
<1>3. ASSUME NEW o \in outcomes, OnResolveReady(o) PROVE BeginStep /\ HandsNone /\ UNCHANGED <<boost, autoPaused>>
  <2>1. Idle
    BY <1>3 DEF OnResolveReady
  <2>2. UNCHANGED <<boost, autoPaused>>
    BY <1>3 DEF OnResolveReady, OnResolveStale, OnResolveGone, OnResolveOk, OnResolveError,
                OnResolveCancelled, CancelledRow
  <2>3. agenda' = <<Drain>> \/ agenda' = <<>>
    BY <1>3 DEF OnResolveReady, OnResolveStale, OnResolveGone, OnResolveOk, OnResolveError,
                OnResolveCancelled, CancelledRow, Opt
  <2>4. \A x \in OpsOf(agenda') : x = Drain
    BY <2>3 DEF OpsOf
  <2> QED BY <1>0, <2>1, <2>2, <2>4, OpenForms DEF BeginStep, HandsNone, Opening, Boosting
<1> QED BY <1>1, <1>2, <1>3 DEF Message

LEMMA OwnedHandler ==
  ASSUME TypeOK, AgendaInv(agenda), AutoOwned, HandlerStep
  PROVE  AutoOwned'
<1>0. Head(agenda).op # "boostStart" => (Starting(agenda)' <=> Starting(agenda))
  BY HandlerAgenda
<1>1. ASSUME NEW t \in Tasks, BoostStart(t) PROVE AutoOwned'
  BY <1>1, TasksAssumption DEF BoostStart, AutoOwned
<1>2. CASE ClearPriority
  BY <1>2 DEF ClearPriority, AutoOwned
<1>3. ASSUME NEW t \in Tasks, AutoPause(t) PROVE AutoOwned'
  <2>1. Starting(agenda) /\ Head(agenda).op # "boostStart"
    BY <1>3, LoudPauses DEF AutoPause, Running
  <2> QED BY <1>0, <2>1 DEF AutoOwned
<1>4. ASSUME UNCHANGED boost, autoPaused' \subseteq autoPaused, Head(agenda).op # "boostStart"
      PROVE AutoOwned'
  BY <1>0, <1>4 DEF AutoOwned
<1>5. ASSUME \/ LoadBatch \/ BatchResumed \/ ReapBatch \/ EraseBatch
             \/ DrainQueue \/ DrainEnd \/ DrainItem \/ sync_queue_occupancy \/ EndSet
      PROVE  UNCHANGED boost /\ autoPaused' \subseteq autoPaused /\ Head(agenda).op # "boostStart"
  BY <1>5 DEF LoadBatch, BatchResumed, ReapBatch, EraseBatch, DrainQueue, DrainEnd, DrainItem,
              sync_queue_occupancy, EndSet, Running, actorVars
<1>6. ASSUME NEW t \in Tasks,
             \/ PauseTaskInner(t) \/ GuardBoost(t) \/ ResumeTaskInner(t)
             \/ FinishPendingPause(t) \/ AutoRetry(t) \/ ResumeBoosted(t) \/ BoostCollect(t)
             \/ BoostCheck(t) \/ ReapHandle(t) \/ EraseTask(t) \/ ResetTask(t)
             \/ PauseBatchItem(t) \/ ResumeWithRow(t) \/ ForgetDeleted(t)
      PROVE  UNCHANGED boost /\ autoPaused' \subseteq autoPaused /\ Head(agenda).op # "boostStart"
  <2>1. CASE PauseTaskInner(t) \/ GuardBoost(t) \/ ResumeTaskInner(t) \/ FinishPendingPause(t)
             \/ AutoRetry(t) \/ ResumeBoosted(t) \/ BoostCollect(t)
    BY <2>1 DEF PauseTaskInner, GuardBoost, ResumeTaskInner, FinishPendingPause, AutoRetry,
                ResumeBoosted, BoostCollect, Running, actorVars
  <2>2. CASE BoostCheck(t) \/ ReapHandle(t) \/ EraseTask(t) \/ ResetTask(t)
             \/ PauseBatchItem(t) \/ ResumeWithRow(t) \/ ForgetDeleted(t)
    BY <2>2 DEF BoostCheck, ReapHandle, EraseTask, ResetTask, PauseBatchItem, ResumeWithRow,
                ForgetDeleted, Running, actorVars
  <2> QED BY <1>6, <2>1, <2>2
<1> QED BY <1>1, <1>2, <1>3, <1>4, <1>5, <1>6, Zenon DEF HandlerStep

LEMMA AgendaNext ==
  ASSUME TypeOK, AgendaInv(agenda), AutoOwned, [Next]_vars
  PROVE  AgendaInv(agenda') /\ AutoOwned'
<1>0. TypeOK'
  BY TypeNext
<1>1. CASE HandlerStep
  BY <1>1, HandlerAgenda, OwnedHandler
<1>2. ASSUME BeginStep, UNCHANGED <<boost, autoPaused>>
      PROVE AgendaInv(agenda') /\ AutoOwned'
  BY <1>2, BeginFacts DEF AutoOwned
<1>3. CASE Message
  BY <1>0, <1>2, <1>3, MessageAgenda
<1>4. CASE UserCommand
  <2>1. ASSUME NEW t \in Tasks, SetPriorityTask(t) PROVE AgendaInv(agenda') /\ AutoOwned'
    <3>1. CASE agenda' = <<ClearBoost>> /\ UNCHANGED <<boost, autoPaused>>
      <4>1. \A o \in OpsOf(agenda') : o = ClearBoost
        BY <3>1 DEF OpsOf
      <4>2. BeginStep
        BY <1>0, <2>1, <4>1, OpenForms
           DEF SetPriorityTask, Command, BeginStep, Opening, Boosting, TypeOK
      <4> QED BY <1>2, <3>1, <4>2
    <3>2. CASE agenda' = <<Do("boostActive", t), Do("boostQueued", t), Do("boostStray", t),
                           [op |-> "boostStart", task |-> t, queued |-> t \in QueuedTasks(queue)]>>
      <4>1. (t \in QueuedTasks(queue)) \in BOOLEAN
        OBVIOUS
      <4>2. AgendaInv(agenda') /\ Starting(agenda')
        BY <3>2, <4>1, BoostAgenda
      <4> QED BY <4>2 DEF AutoOwned
    <3> QED BY <2>1, <3>1, <3>2 DEF SetPriorityTask
  <2> QED BY <1>0, <1>2, <1>4, <2>1, CommandAgenda, Zenon DEF UserCommand
<1>5. CASE \E s \in spawns : Download(s)
  <2>1. UNCHANGED <<agenda, boost, autoPaused>>
    BY <1>5 DEF Download, actorVars
  <2> QED BY <2>1 DEF AutoOwned
<1>6. CASE Reboot
  <2>1. agenda' = <<>> /\ autoPaused' = {}
    BY <1>6 DEF Reboot
  <2>2. \A o \in OpsOf(agenda') : FALSE
    BY <2>1 DEF OpsOf
  <2>3. agenda' \in Seq(Op)
    BY <2>1, SeqFacts
  <2> QED BY <2>1, <2>2, <2>3, AgendaBegin DEF AutoOwned
<1>7. CASE UNCHANGED vars
  <2>1. UNCHANGED <<agenda, boost, autoPaused>>
    BY <1>7 DEF vars
  <2> QED BY <2>1 DEF AutoOwned
<1> QED BY <1>1, <1>3, <1>4, <1>5, <1>6, <1>7 DEF Next

LEMMA AgendaInit ==
  ASSUME Init PROVE AgendaInv(agenda) /\ AutoOwned
<1>1. agenda = <<>> /\ autoPaused = {}
  BY DEF Init
<1>2. \A o \in OpsOf(agenda) : FALSE
  BY <1>1 DEF OpsOf
<1>3. agenda \in Seq(Op)
  BY <1>1, SeqFacts
<1> QED BY <1>1, <1>2, <1>3, AgendaBegin DEF AutoOwned

-----------------------------------------------------------------------------
(* Pauses *)

SameRows == \A t \in Tasks : db'[t].status = "none" <=> db[t].status = "none"

(* Most steps of a handler leave the tables about running tasks alone. *)
Calm == /\ UNCHANGED <<active, pauses, resolving, queue, outcomes, gen, doneCh>>
        /\ SameRows

CalmStep ==
    \/ sync_queue_occupancy \/ ClearPriority \/ EndSet
    \/ LoadBatch \/ BatchResumed \/ ReapBatch \/ EraseBatch
    \/ \E t \in Tasks :
         \/ GuardBoost(t) \/ AutoRetry(t) \/ ResumeBoosted(t) \/ BoostCollect(t) \/ AutoPause(t)
         \/ BoostCheck(t) \/ ReapHandle(t) \/ EraseTask(t) \/ ResetTask(t) \/ PauseBatchItem(t)
         \/ ForgetDeleted(t)

LEMMA CalmFacts ==
  ASSUME TypeOK, CalmStep
  PROVE  /\ Calm
         /\ UNCHANGED spawns \/ ReapBatch \/ \E t \in Tasks : ReapHandle(t)
         /\ Head(agenda).op # "finish" /\ ~DrainQueue /\ ~DrainItem
<1>1. CASE sync_queue_occupancy \/ ClearPriority
  BY <1>1 DEF sync_queue_occupancy, ClearPriority, Calm, SameRows, Running, DrainQueue, DrainItem
<1>2. CASE EndSet \/ LoadBatch
  BY <1>2 DEF EndSet, LoadBatch, Calm, SameRows, Running, DrainQueue, DrainItem, actorVars
<1>3. CASE ReapBatch
  BY <1>3 DEF ReapBatch, Calm, SameRows, Running, DrainQueue, DrainItem, actorVars
<1>4. CASE BatchResumed
  <2>1. db' = BatchStatus(Head(agenda).queued, "pending")
    BY <1>4 DEF BatchResumed, BatchStatus
  <2>2. SameRows
    BY <2>1, BatchStatusFacts DEF SameRows, Live
  <2> QED BY <1>4, <2>2 DEF BatchResumed, Calm, Running, DrainQueue, DrainItem, actorVars
<1>5. CASE EraseBatch
  <2>1. db' = BatchStatus(Head(agenda).set, "deleted")
    BY <1>5 DEF EraseBatch, BatchStatus
  <2>2. SameRows
    BY <2>1, BatchStatusFacts DEF SameRows
  <2> QED BY <1>5, <2>2 DEF EraseBatch, Calm, Running, DrainQueue, DrainItem, actorVars
<1>6. ASSUME NEW t \in Tasks,
             GuardBoost(t) \/ AutoRetry(t) \/ ResumeBoosted(t) \/ BoostCollect(t) \/ AutoPause(t)
      PROVE  /\ Calm /\ UNCHANGED spawns
             /\ Head(agenda).op # "finish" /\ ~DrainQueue /\ ~DrainItem
  BY <1>6 DEF GuardBoost, AutoRetry, ResumeBoosted, BoostCollect, AutoPause, Calm, SameRows, Running,
              DrainQueue, DrainItem, actorVars
<1>7. ASSUME NEW t \in Tasks, BoostCheck(t) \/ PauseBatchItem(t) \/ ForgetDeleted(t)
      PROVE  /\ Calm /\ UNCHANGED spawns
             /\ Head(agenda).op # "finish" /\ ~DrainQueue /\ ~DrainItem
  BY <1>7 DEF BoostCheck, PauseBatchItem, ForgetDeleted, Calm, SameRows, Running, DrainQueue,
              DrainItem, actorVars
<1>8. ASSUME NEW t \in Tasks, ReapHandle(t)
      PROVE  Calm /\ Head(agenda).op # "finish" /\ ~DrainQueue /\ ~DrainItem
  BY <1>8 DEF ReapHandle, Calm, SameRows, Running, DrainQueue, DrainItem, actorVars
<1>9. ASSUME NEW t \in Tasks, EraseTask(t) \/ ResetTask(t)
      PROVE  /\ Calm /\ UNCHANGED spawns
             /\ Head(agenda).op # "finish" /\ ~DrainQueue /\ ~DrainItem
  <2>1. db' = UpdateStatus(t, "deleted", "") \/ db' = UpdateStatus(t, "pending", "")
    BY <1>9 DEF EraseTask, ResetTask
  <2>2. SameRows
    <3>1. \A s \in {"deleted", "pending"}, u \in Tasks :
            UpdateStatus(t, s, "")[u].status = "none" <=> db[u].status = "none"
      BY UpdateStatusFacts DEF Live
    <3> QED BY <2>1, <3>1 DEF SameRows
  <2> QED BY <1>9, <2>2 DEF EraseTask, ResetTask, Calm, Running, DrainQueue, DrainItem
<1> QED BY <1>1, <1>2, <1>3, <1>4, <1>5, <1>6, <1>7, <1>8, <1>9 DEF CalmStep

(* What a step may do to the tables while no pause begins. *)
PauseFrame ==
    /\ \A t \in Tasks :
         /\ pauses'[t].gen # 0 => pauses[t].gen # 0
         /\ active'[t].gen # 0 => \/ active[t].gen # 0
                                  \/ (pauses[t].gen = 0 /\ db'[t].status # "none")
         /\ resolving'[t] # 0 => resolving[t] # 0 \/ pauses[t].gen = 0
         /\ t \in QueuedTasks(queue') => t \in QueuedTasks(queue) \/ pauses[t].gen = 0
         /\ db'[t].status = "none" => db[t].status = "none"
         /\ (Running("drainLoop")' /\ t \in QueuedTasks(Head(agenda').rest)
                                              \cup QueuedTasks(Head(agenda').kept))
              => pauses[t].gen = 0
    /\ \A o \in outcomes' : o.gen # 0
    /\ \A b \in OpsOf(agenda') : b.op = "boostStart" /\ b.queued
         => b.task \in Tasks /\ (b \in OpsOf(agenda) \/ pauses[b.task].gen = 0)

LEMMA PauseFramed ==
  ASSUME PauseInv, PauseFrame PROVE PauseInv'
<1>1. \A t \in Tasks : /\ resolving'[t] # 0 => pauses'[t].gen = 0
                       /\ db'[t].status = "none" => active'[t].gen = 0 /\ pauses'[t].gen = 0
  BY DEF PauseInv, PauseFrame, IsActive, PauseExclusive
<1>2. \A b \in OpsOf(agenda') : b.op = "boostStart" /\ b.queued => pauses'[b.task].gen = 0
  BY DEF PauseInv, PauseFrame
<1>3. \A o \in outcomes' : o.gen # 0
  BY DEF PauseFrame
<1>4. ASSUME NEW t \in Tasks, pauses'[t].gen # 0
      PROVE  /\ active'[t].gen = 0 /\ t \notin QueuedTasks(queue')
             /\ Running("drainLoop")' =>
                  t \notin QueuedTasks(Head(agenda').rest) \cup QueuedTasks(Head(agenda').kept)
  BY <1>4 DEF PauseInv, PauseFrame, IsActive, PauseExclusive
<1> QED BY <1>1, <1>2, <1>3, <1>4 DEF PauseInv, PauseExclusive, IsActive

(* A handler passes on the announced starts. *)
LEMMA BoostPassed ==
  ASSUME TypeOK', AgendaFlow
  PROVE  \A b \in OpsOf(agenda') : b.op = "boostStart" => b.task \in Tasks /\ b \in OpsOf(agenda)
<1>1. ASSUME NEW b \in OpsOf(agenda') PROVE b \in Op
  BY DEF TypeOK, OpsOf
<1> QED BY <1>1, OpFields DEF AgendaFlow

LEMMA CalmFrame ==
  ASSUME TypeOK, TypeOK', PauseInv, Calm, AgendaFlow, ~Running("drainLoop")'
  PROVE  PauseFrame
BY BoostPassed DEF Calm, SameRows, PauseFrame, PauseInv

(* A start, of a task that no pause is outstanding for. *)
StartFrame ==
    /\ \A u \in Tasks : /\ active'[u].gen # 0 => \/ active[u].gen # 0
                                                 \/ (pauses[u].gen = 0 /\ db'[u].status # "none")
                        /\ resolving'[u] # 0 => resolving[u] # 0 \/ pauses[u].gen = 0
    /\ \A o \in outcomes' : o.gen # 0

LEMMA StartFramed ==
  ASSUME TypeOK, PauseInv, NEW t \in Tasks, pauses[t].gen = 0,
         \/ do_resume_task(t) /\ SameRows
         \/ do_start_task(t) /\ db'[t].status # "none"
  PROVE  StartFrame
<1>1. db'[t].status # "none" \/ UNCHANGED <<active, gen, spawns, resolving, outcomes>>
  BY DEF do_resume_task, HasRow, Live, SameRows
<1>2. CASE BeginResolve(t) /\ db'[t].status # "none"
  <2>1. gen + 1 # 0
    BY DEF TypeOK
  <2>2. active \in [Tasks -> [gen : Nat, spawned : BOOLEAN]] /\ resolving \in [Tasks -> Nat]
    BY DEF TypeOK
  <2>3. \A u \in Tasks : u # t => active'[u] = active[u] /\ resolving'[u] = resolving[u]
    BY <1>2, <2>2 DEF BeginResolve
  <2>4. \A o \in outcomes' : o.gen # 0
    BY <1>2, <2>1 DEF BeginResolve, PauseInv
  <2> QED BY <1>2, <2>3, <2>4 DEF StartFrame
<1>3. CASE SpawnDownload(t) /\ UNCHANGED <<resolving, outcomes>> /\ db'[t].status # "none"
  <2>1. active \in [Tasks -> [gen : Nat, spawned : BOOLEAN]]
    BY DEF TypeOK
  <2>2. \A u \in Tasks : u # t => active'[u] = active[u]
    BY <1>3, <2>1 DEF SpawnDownload
  <2> QED BY <1>3, <2>2 DEF StartFrame, PauseInv
<1>4. CASE UNCHANGED <<active, gen, spawns, resolving, outcomes>>
  BY <1>4 DEF StartFrame, PauseInv
<1> QED BY <1>1, <1>2, <1>3, <1>4 DEF do_resume_task, do_start_task

LEMMA QueueFacts ==
  ASSUME NEW q \in Seq(Tasks)
  PROVE  /\ QueuedTasks(<<>>) = {}
         /\ q # <<>> => Head(q) \in QueuedTasks(q) /\ QueuedTasks(Tail(q)) \subseteq QueuedTasks(q)
         /\ \A r \in Seq(Tasks) : QueuedTasks(q \o r) \subseteq QueuedTasks(q) \cup QueuedTasks(r)
<1>1. QueuedTasks(<<>>) = {}
  BY DEF QueuedTasks
<1>2. ASSUME q # <<>>
      PROVE  Head(q) \in QueuedTasks(q) /\ QueuedTasks(Tail(q)) \subseteq QueuedTasks(q)
  <2>1. Head(q) = q[1] /\ 1 \in 1..Len(q)
    BY <1>2
  <2>2. ASSUME NEW i \in 1..Len(Tail(q)) PROVE i + 1 \in 1..Len(q) /\ Tail(q)[i] = q[i + 1]
    BY <1>2, HeadTailProperties
  <2> QED BY <2>1, <2>2 DEF QueuedTasks
<1>3. ASSUME NEW r \in Seq(Tasks)
      PROVE  QueuedTasks(q \o r) \subseteq QueuedTasks(q) \cup QueuedTasks(r)
  <2> DEFINE c == q \o r
  <2>1. ASSUME NEW i \in 1..Len(c) PROVE c[i] \in QueuedTasks(q) \cup QueuedTasks(r)
    <3>1. (i \in 1..Len(q) /\ c[i] = q[i]) \/ (i - Len(q) \in 1..Len(r) /\ c[i] = r[i - Len(q)])
      OBVIOUS
    <3> HIDE DEF c
    <3> QED BY <3>1 DEF QueuedTasks
  <2> HIDE DEF c
  <2>2. QueuedTasks(c) \subseteq QueuedTasks(q) \cup QueuedTasks(r)
    BY <2>1 DEF QueuedTasks
  <2> QED BY <2>2 DEF c
<1> QED BY <1>1, <1>2, <1>3

LEMMA PauseDrain ==
  ASSUME TypeOK, TypeOK', AgendaInv(agenda), PauseInv, DrainQueue \/ DrainEnd \/ DrainItem
  PROVE  PauseFrame
<1>1. \A b \in OpsOf(agenda') : b.op = "boostStart" => b.task \in Tasks /\ b \in OpsOf(agenda)
  BY BoostPassed, HandlerAgenda DEF HandlerStep
<1>2. queue \in Seq(Tasks)
  BY DEF TypeOK
<1>3. \A t \in Tasks : t \in QueuedTasks(queue) => pauses[t].gen = 0
  BY DEF PauseInv, PauseExclusive
<1>4. CASE DrainQueue
  <2>1. Head(agenda').rest = queue /\ Head(agenda').kept = <<>>
    BY <1>4, LoudDrain
  <2>2. UNCHANGED <<active, pauses, resolving, outcomes, db>> /\ queue' = <<>>
    BY <1>4 DEF DrainQueue
  <2> QED BY <1>1, <1>2, <1>3, <2>1, <2>2, QueueFacts DEF PauseFrame, PauseInv
<1> SUFFICES ASSUME DrainEnd \/ DrainItem PROVE PauseFrame
  BY <1>4
<1> DEFINE d == Head(agenda)
<1>5. d.rest \in Seq(Tasks) /\ d.kept \in Seq(Tasks) /\ Running("drainLoop")
  <2>1. d \in Op /\ d.op = "drainLoop" /\ Running("drainLoop")
    BY RunningFacts DEF DrainEnd, DrainItem
  <2> QED BY <2>1, OpFields
<1>6. \A t \in Tasks : t \in QueuedTasks(d.rest) \cup QueuedTasks(d.kept) => pauses[t].gen = 0
  BY <1>5 DEF PauseInv, PauseExclusive
<1>7. CASE DrainEnd
  <2>1. queue' = d.kept \o d.rest /\ UNCHANGED <<active, pauses, resolving, outcomes, db>>
    BY <1>7 DEF DrainEnd
  <2>2. QueuedTasks(queue') \subseteq QueuedTasks(d.rest) \cup QueuedTasks(d.kept)
    BY <1>5, <2>1, QueueFacts
  <2>3. ~Running("drainLoop")'
    BY <1>7, QuietActions, QuietFacts
  <2> HIDE DEF d
  <2> QED BY <1>1, <1>6, <2>1, <2>2, <2>3 DEF PauseFrame, PauseInv
<1>8. CASE DrainItem
  <2> DEFINE x == Head(d.rest)
  <2>1. d.rest # <<>> /\ x \in Tasks
    BY <1>5, <1>8 DEF DrainItem, LoopEnds
  <2>2. x \in QueuedTasks(d.rest) /\ QueuedTasks(Tail(d.rest)) \subseteq QueuedTasks(d.rest)
    BY <1>5, <2>1, QueueFacts
  <2>3. UNCHANGED <<queue, pauses, db>>
        /\ (UNCHANGED <<active, gen, spawns, resolving, outcomes>> \/ do_resume_task(x))
    BY <1>8 DEF DrainItem
  <2>4. Head(agenda').rest = Tail(d.rest) /\ Head(agenda').kept \in {d.kept, Append(d.kept, x)}
    BY <1>8, LoudDrain
  <2> HIDE DEF x, d
  <2>5. pauses[x].gen = 0
    BY <1>6, <2>1, <2>2
  <2>6. StartFrame
    <3>1. CASE do_resume_task(x)
      BY <2>1, <2>3, <2>5, <3>1, StartFramed DEF SameRows
    <3>2. CASE UNCHANGED <<active, gen, spawns, resolving, outcomes>>
      BY <3>2 DEF StartFrame, PauseInv
    <3> QED BY <2>3, <3>1, <3>2
  <2>7. QueuedTasks(Append(d.kept, x)) = QueuedTasks(d.kept) \cup {x}
    BY <1>5, <2>1, AppendFacts
  <2>8. \A t \in Tasks : t \in QueuedTasks(Head(agenda').rest) \cup QueuedTasks(Head(agenda').kept)
                           => pauses[t].gen = 0
    BY <1>6, <2>2, <2>4, <2>5, <2>7
  <2> QED BY <1>1, <2>3, <2>6, <2>8 DEF PauseFrame, StartFrame
<1> QED BY <1>7, <1>8

LEMMA PauseTryResume ==
  ASSUME TypeOK, TypeOK', AgendaInv(agenda), PauseInv, NEW t \in Tasks,
         ResumeTaskInner(t) \/ ResumeWithRow(t)
  PROVE  PauseFrame
<1>1. \A b \in OpsOf(agenda') : b.op = "boostStart" => b.task \in Tasks /\ b \in OpsOf(agenda)
  BY BoostPassed, HandlerAgenda DEF HandlerStep
<1>2. ~Running("drainLoop")'
  BY QuietActions, QuietFacts
<1>3. PICK s, o1, o2, o3, row : /\ TryResume(t, s, o1, o2, o3, row)
                                /\ row = db \/ row = UpdateStatus(t, "pending", "")
  <2>1. CASE ResumeTaskInner(t)
    <3>1. TryResume(t, db[t].status, <<>>, <<Drain, Sync>>, <<Sync>>,
                    IF db[t].status = "completed" THEN db ELSE UpdateStatus(t, "pending", ""))
      BY <2>1 DEF ResumeTaskInner
    <3>2. \A c : (IF c THEN db ELSE UpdateStatus(t, "pending", "")) \in {db, UpdateStatus(t, "pending", "")}
      OBVIOUS
    <3> QED BY <3>1, <3>2, Zenon
  <2>2. CASE ResumeWithRow(t)
    BY <2>2, Zenon DEF ResumeWithRow
  <2> QED BY <2>1, <2>2
<1>4. SameRows
  <2>1. \A u \in Tasks : UpdateStatus(t, "pending", "")[u].status = "none" <=> db[u].status = "none"
    BY UpdateStatusFacts DEF Live
  <2>2. db' = db \/ db' = row
    BY <1>3, Zenon DEF TryResume
  <2> QED BY <1>3, <2>1, <2>2 DEF SameRows
<1>5. CASE /\ pauses' = [pauses EXCEPT ![t].resume = TRUE]
           /\ UNCHANGED <<active, queue, resolving, outcomes>>
  <2>1. \A u \in Tasks : pauses'[u].gen = pauses[u].gen
    BY <1>5 DEF TypeOK
  <2> QED BY <1>1, <1>2, <1>4, <1>5, <2>1 DEF PauseFrame, SameRows, PauseInv
<1>6. CASE /\ UNCHANGED active \/ active' = [active EXCEPT ![t] = NoEntry]
           /\ UNCHANGED <<queue, pauses, resolving, outcomes>>
  <2>1. \A u \in Tasks : active'[u].gen # 0 => active[u].gen # 0
    <3>1. active \in [Tasks -> [gen : Nat, spawned : BOOLEAN]]
      BY DEF TypeOK
    <3>2. CASE active' = [active EXCEPT ![t] = NoEntry]
      BY <3>1, <3>2 DEF NoEntry
    <3> QED BY <1>6, <3>2
  <2> QED BY <1>1, <1>2, <1>4, <1>6, <2>1 DEF PauseFrame, SameRows, PauseInv
<1>7. CASE ~Flushing(t) /\ do_resume_task(t) /\ UNCHANGED <<queue, pauses>>
  <2>1. pauses[t].gen = 0
    BY <1>7 DEF Flushing
  <2>2. StartFrame
    BY <1>4, <1>7, <2>1, StartFramed
  <2> QED BY <1>1, <1>2, <1>4, <1>7, <2>2 DEF PauseFrame, StartFrame, SameRows
<1>8. CASE /\ ~Flushing(t) /\ active' = [active EXCEPT ![t] = NoEntry]
           /\ UNCHANGED queue \/ queue' = Append(queue, t)
           /\ UNCHANGED <<pauses, resolving, outcomes>>
  <2>1. \A u \in Tasks : active'[u].gen # 0 => active[u].gen # 0
    BY <1>8 DEF TypeOK, NoEntry
  <2>2. pauses[t].gen = 0
    BY <1>8 DEF Flushing
  <2>3. QueuedTasks(queue') \subseteq QueuedTasks(queue) \cup {t}
    <3>1. queue \in Seq(Tasks)
      BY DEF TypeOK
    <3> QED BY <1>8, <3>1, AppendFacts
  <2> QED BY <1>1, <1>2, <1>4, <1>8, <2>1, <2>2, <2>3 DEF PauseFrame, SameRows, PauseInv
<1> QED BY <1>3, <1>5, <1>6, <1>7, <1>8, Zenon DEF TryResume

(* A pause begins: its task is neither active nor queued afterwards, and no *)
(* Boost is about to start it.                                              *)
LEMMA PauseBegins ==
  ASSUME TypeOK, TypeOK', AgendaInv(agenda), PauseInv, NEW t \in Tasks, PauseTaskInner(t)
  PROVE  PauseInv'
<1>1. \A b \in OpsOf(agenda') : b.op = "boostStart" => b.task \in Tasks /\ b \in OpsOf(agenda)
  BY BoostPassed, HandlerAgenda DEF HandlerStep
<1>2. ~Running("drainLoop")'
  BY QuietActions, QuietFacts
<1>3. SameRows
  <2>1. \A u \in Tasks : UpdateStatus(t, "paused", "")[u].status = "none" <=> db[u].status = "none"
    BY UpdateStatusFacts DEF Live
  <2>2. db' = db \/ db' = UpdateStatus(t, "paused", "")
    BY Zenon DEF PauseTaskInner
  <2> QED BY <2>1, <2>2 DEF SameRows
<1>4. \A u \in Tasks : resolving'[u] # 0 => u # t /\ resolving[u] # 0
  BY DEF PauseTaskInner, TypeOK
<1>5. UNCHANGED outcomes
  BY DEF PauseTaskInner
<1>6. queue \in Seq(Tasks) /\ active \in [Tasks -> [gen : Nat, spawned : BOOLEAN]]
      /\ pauses \in [Tasks -> [gen : Nat, resume : BOOLEAN]]
  BY DEF TypeOK
<1>7. CASE UNCHANGED <<active, pauses>> /\ (UNCHANGED queue \/ queue' = Unqueue(queue, t))
  <2>1. QueuedTasks(queue') \subseteq QueuedTasks(queue)
    BY <1>6, <1>7, WithoutFacts DEF Unqueue
  <2>2. PauseFrame
    BY <1>1, <1>2, <1>3, <1>4, <1>5, <1>7, <2>1 DEF PauseFrame, SameRows, PauseInv
  <2> QED BY <2>2, PauseFramed
<1>8. CASE /\ ~Flushing(t) /\ ~AlreadyQueued(t) /\ IsActive(t)
           /\ active' = [active EXCEPT ![t] = NoEntry]
           /\ \/ pauses' = [pauses EXCEPT ![t] = [gen |-> active[t].gen, resume |-> FALSE]]
              \/ UNCHANGED pauses
           /\ UNCHANGED queue
  <2>1. /\ active'[t].gen = 0 /\ \A u \in Tasks : u # t => active'[u] = active[u] /\ pauses'[u] = pauses[u]
        /\ t \notin QueuedTasks(queue')
    BY <1>6, <1>8 DEF NoEntry, AlreadyQueued
  <2>2. ASSUME NEW u \in Tasks, pauses'[u].gen # 0
        PROVE  /\ active'[u].gen = 0 /\ u \notin QueuedTasks(queue')
               /\ resolving'[u] = 0 /\ db'[u].status # "none"
    <3>1. CASE u = t
      <4>1. db[t].status # "none"
        BY <1>8 DEF PauseInv
      <4> QED BY <1>3, <1>4, <2>1, <3>1, <4>1 DEF SameRows
    <3>2. CASE u # t
      <4>1. pauses[u].gen # 0 /\ active'[u] = active[u]
        BY <2>1, <2>2, <3>2
      <4>2. /\ active[u].gen = 0 /\ u \notin QueuedTasks(queue) /\ resolving[u] = 0
            /\ db[u].status # "none"
        BY <4>1 DEF PauseInv, PauseExclusive, IsActive
      <4> QED BY <1>3, <1>4, <1>8, <4>1, <4>2 DEF SameRows
    <3> QED BY <3>1, <3>2
  <2>3. ASSUME NEW u \in Tasks, db'[u].status = "none" PROVE active'[u].gen = 0
    BY <1>3, <2>1, <2>3 DEF SameRows, PauseInv, IsActive
  <2>4. ASSUME NEW b \in OpsOf(agenda'), b.op = "boostStart", b.queued PROVE pauses'[b.task].gen = 0
    <3>1. b \in OpsOf(agenda) /\ b.task \in Tasks
      BY <1>1, <2>4
    <3>2. pauses[b.task].gen = 0
      BY <2>4, <3>1 DEF PauseInv
    <3>3. b.task # t
      <4>1. Head(agenda) \in OpsOf(agenda) /\ Head(agenda).op = "pause" /\ Head(agenda).task = t
        BY HeadInOps DEF PauseTaskInner, Running
      <4> QED BY <2>4, <3>1, <4>1 DEF AgendaInv, Spared, Harmless
    <3> QED BY <2>1, <3>1, <3>2, <3>3
  <2>5. \A o \in outcomes' : o.gen # 0
    BY <1>5 DEF PauseInv
  <2> QED BY <1>2, <2>2, <2>3, <2>4, <2>5 DEF PauseInv, PauseExclusive, IsActive
<1> QED BY <1>7, <1>8, Zenon DEF PauseTaskInner

LEMMA PauseHandler ==
  ASSUME TypeOK, TypeOK', AgendaInv(agenda), PauseInv, HandlerStep
  PROVE  PauseInv'
<1>0. \A b \in OpsOf(agenda') : b.op = "boostStart" => b.task \in Tasks /\ b \in OpsOf(agenda)
  BY BoostPassed, HandlerAgenda
<1>1. CASE CalmStep
  <2>1. Calm /\ ~DrainQueue /\ ~DrainItem
    BY <1>1, CalmFacts
  <2> QED BY <2>1, HandlerAgenda, CalmFrame, PauseFramed
<1>2. CASE DrainQueue \/ DrainEnd \/ DrainItem
  BY <1>2, PauseDrain, PauseFramed
<1>3. ASSUME NEW t \in Tasks, ResumeTaskInner(t) \/ ResumeWithRow(t) PROVE PauseInv'
  BY <1>3, PauseTryResume, PauseFramed
<1>4. ASSUME NEW t \in Tasks, PauseTaskInner(t) PROVE PauseInv'
  BY <1>4, PauseBegins
<1>5. ASSUME NEW t \in Tasks, FinishPendingPause(t) PROVE PauseInv'
  <2>1. ~Running("drainLoop")'
    BY <1>5, QuietActions, QuietFacts
  <2>2. UNCHANGED <<active, queue, resolving, db, outcomes>>
        /\ (UNCHANGED pauses \/ pauses' = [pauses EXCEPT ![t] = NoPause])
    BY <1>5, Zenon DEF FinishPendingPause
  <2>3. \A u \in Tasks : pauses'[u].gen # 0 => pauses[u].gen # 0
    <3>1. pauses \in [Tasks -> [gen : Nat, resume : BOOLEAN]]
      BY DEF TypeOK
    <3>2. CASE pauses' = [pauses EXCEPT ![t] = NoPause]
      BY <3>1, <3>2 DEF NoPause
    <3> QED BY <2>2, <3>2
  <2>4. PauseFrame
    BY <1>0, <2>1, <2>2, <2>3 DEF PauseFrame, PauseInv
  <2> QED BY <2>4, PauseFramed
<1>6. ASSUME NEW t \in Tasks, BoostStart(t) PROVE PauseInv'
  <2>1. ~Running("drainLoop")'
    BY <1>6, LoudBoostStart
  <2>2. UNCHANGED <<queue, pauses, db>>
    BY <1>6 DEF BoostStart
  <2>3. StartFrame
    <3>1. CASE do_resume_task(t) /\ Head(agenda).queued
      <4>1. Head(agenda) \in OpsOf(agenda) /\ Head(agenda).op = "boostStart" /\ Head(agenda).task = t
        BY <1>6, HeadInOps DEF BoostStart, Running
      <4>2. pauses[t].gen = 0
        BY <3>1, <4>1 DEF PauseInv
      <4> QED BY <2>2, <3>1, <4>2, StartFramed DEF SameRows
    <3>2. CASE UNCHANGED <<active, gen, spawns, resolving, outcomes>>
      BY <3>2 DEF StartFrame, PauseInv
    <3> QED BY <1>6, <3>1, <3>2 DEF BoostStart
  <2>4. PauseFrame
    BY <1>0, <2>1, <2>2, <2>3 DEF PauseFrame, StartFrame
  <2> QED BY <2>4, PauseFramed
<1> QED BY <1>1, <1>2, <1>3, <1>4, <1>5, <1>6, Zenon DEF HandlerStep, CalmStep

(* cancel_task and the cancelled resolve of on_resolve_ready. *)
LEMMA PauseCancelledRow ==
  ASSUME TypeOK, PauseInv, NEW t \in Tasks, CancelledRow(t), outcomes' \subseteq outcomes,
         \A b \in OpsOf(agenda') : b.op # "boostStart", ~Running("drainLoop")'
  PROVE  PauseFrame
<1>1. /\ \A u \in Tasks : active'[u].gen # 0 => active[u].gen # 0
      /\ \A u \in Tasks : resolving'[u] # 0 => resolving[u] # 0
  BY DEF CancelledRow, TypeOK, NoEntry
<1>2. QueuedTasks(queue') \subseteq QueuedTasks(queue)
  BY WithoutFacts DEF CancelledRow, Unqueue, TypeOK
<1>3. \A u \in Tasks : db'[u].status = "none" <=> db[u].status = "none"
  BY UpdateStatusFacts DEF CancelledRow, Live
<1>4. UNCHANGED pauses
  BY DEF CancelledRow
<1> QED BY <1>1, <1>2, <1>3, <1>4 DEF PauseFrame, PauseInv

LEMMA PauseCommand ==
  ASSUME TypeOK, TypeOK', PauseInv, UserCommand
  PROVE  PauseInv'
<1>0. ASSUME BeginStep
      PROVE  ~Running("drainLoop")' /\ \A b \in OpsOf(agenda') : b.op # "boostStart"
  BY <1>0, BeginFacts DEF BeginStep, Opening
<1>1. queue \in Seq(Tasks) /\ active \in [Tasks -> [gen : Nat, spawned : BOOLEAN]]
      /\ resolving \in [Tasks -> Nat]
  BY DEF TypeOK
<1>2. ASSUME NEW S \in Batch, DeleteTasksBatch(S) PROVE PauseInv'
  <2>1. ~Running("drainLoop")' /\ \A b \in OpsOf(agenda') : b.op # "boostStart"
    BY <1>0, <1>2, CommandAgenda
  <2>2. \A t \in Tasks : active'[t].gen # 0 => active[t].gen # 0
    BY <1>2 DEF DeleteTasksBatch, NoEntry
  <2>3. QueuedTasks(queue') \subseteq QueuedTasks(queue)
    BY <1>1, <1>2, WithoutFacts DEF DeleteTasksBatch
  <2>4. UNCHANGED <<pauses, resolving, db, outcomes>>
    BY <1>2 DEF DeleteTasksBatch
  <2>5. PauseFrame
    BY <2>1, <2>2, <2>3, <2>4 DEF PauseFrame, PauseInv
  <2> QED BY <2>5, PauseFramed
<1>3. ASSUME NEW q \in Queues, StartQueue(q) PROVE PauseInv'
  <2>1. ~Running("drainLoop")' /\ \A b \in OpsOf(agenda') : b.op # "boostStart"
    BY <1>0, <1>3, CommandAgenda
  <2>2. UNCHANGED <<active, queue, pauses, resolving, db, outcomes>>
    BY <1>3 DEF StartQueue, batch_resume, actorVars
  <2>3. PauseFrame
    BY <2>1, <2>2 DEF PauseFrame, PauseInv
  <2> QED BY <2>3, PauseFramed
<1>4. ASSUME NEW q \in Queues, StopQueue(q) PROVE PauseInv'
  <2>1. ~Running("drainLoop")' /\ \A b \in OpsOf(agenda') : b.op # "boostStart"
    BY <1>0, <1>4, CommandAgenda
  <2>2. PICK S : batch_pause(S)
    BY <1>4 DEF StopQueue
  <2>3. QueuedTasks(queue') \subseteq QueuedTasks(queue)
    <3>1. queue' = Without(queue, S)
      BY <2>2 DEF batch_pause
    <3> QED BY <1>1, <3>1, WithoutFacts
  <2>4. UNCHANGED <<active, pauses, outcomes>> /\ \A t \in Tasks : resolving'[t] # 0 => resolving[t] # 0
    BY <1>1, <2>2 DEF batch_pause
  <2>5. SameRows
    <3>1. db' = BatchStatus(S \cap QueuedTasks(queue), "paused")
      BY <2>2 DEF batch_pause, BatchStatus
    <3> QED BY <3>1, BatchStatusFacts DEF SameRows, Live
  <2>6. PauseFrame
    BY <2>1, <2>3, <2>4, <2>5 DEF PauseFrame, PauseInv, SameRows
  <2> QED BY <2>6, PauseFramed
<1>5. ASSUME NEW t \in Tasks, NEW later \in BOOLEAN, CreateTask(t, later) PROVE PauseInv'
  <2>1. ~Running("drainLoop")' /\ \A b \in OpsOf(agenda') : b.op # "boostStart"
    BY <1>0, <1>5, CommandAgenda
  <2>2. pauses[t].gen = 0 /\ UNCHANGED pauses
    BY <1>5 DEF CreateTask, PauseInv
  <2>3. db'[t].status # "none" /\ \A u \in Tasks : u # t => db'[u] = db[u]
    BY <1>5 DEF CreateTask, TypeOK
  <2>4. StartFrame
    <3>1. CASE do_start_task(t)
      BY <2>2, <2>3, <3>1, StartFramed
    <3>2. CASE UNCHANGED <<active, gen, spawns, resolving, outcomes>>
      BY <3>2 DEF StartFrame, PauseInv
    <3> QED BY <1>5, <3>1, <3>2 DEF CreateTask
  <2>5. QueuedTasks(queue') \subseteq QueuedTasks(queue) \cup {t}
    <3>1. UNCHANGED queue \/ queue' = Append(queue, t)
      BY <1>5 DEF CreateTask
    <3> QED BY <1>1, <3>1, AppendFacts
  <2>6. PauseFrame
    BY <2>1, <2>2, <2>3, <2>4, <2>5 DEF PauseFrame, StartFrame
  <2> QED BY <2>6, PauseFramed
<1>6. ASSUME NEW t \in Tasks, PauseTask(t) \/ ResumeTask(t) \/ RestartTask(t) PROVE PauseInv'
  <2>1. ~Running("drainLoop")' /\ \A b \in OpsOf(agenda') : b.op # "boostStart"
    BY <1>0, <1>6, CommandAgenda
  <2>2. UNCHANGED <<active, queue, pauses, resolving, db, outcomes>>
    BY <1>6 DEF PauseTask, ResumeTask, RestartTask, actorVars
  <2>3. PauseFrame
    BY <2>1, <2>2 DEF PauseFrame, PauseInv
  <2> QED BY <2>3, PauseFramed
<1>7. ASSUME NEW t \in Tasks, CancelTask(t) PROVE PauseInv'
  <2>1. ~Running("drainLoop")' /\ \A b \in OpsOf(agenda') : b.op # "boostStart"
    BY <1>0, <1>7, CommandAgenda
  <2> QED BY <1>7, <2>1, PauseCancelledRow, PauseFramed DEF CancelTask
<1>8. ASSUME NEW t \in Tasks, DeleteTask(t) PROVE PauseInv'
  <2>1. ~Running("drainLoop")' /\ \A b \in OpsOf(agenda') : b.op # "boostStart"
    BY <1>0, <1>8, CommandAgenda
  <2>2. /\ active' = [active EXCEPT ![t] = NoEntry] /\ resolving' = [resolving EXCEPT ![t] = 0]
        /\ queue' = Unqueue(queue, t) /\ UNCHANGED <<pauses, db, outcomes>>
    BY <1>8 DEF DeleteTask
  <2>3. /\ \A u \in Tasks : active'[u].gen # 0 => active[u].gen # 0
        /\ \A u \in Tasks : resolving'[u] # 0 => resolving[u] # 0
    BY <1>1, <2>2 DEF NoEntry
  <2>4. QueuedTasks(queue') \subseteq QueuedTasks(queue)
    BY <1>1, <2>2, WithoutFacts DEF Unqueue
  <2>5. PauseFrame
    BY <2>1, <2>2, <2>3, <2>4 DEF PauseFrame, PauseInv
  <2> QED BY <2>5, PauseFramed
<1>9. ASSUME NEW n \in Limits, SetMaxConcurrent(n) PROVE PauseInv'
  <2>1. ~Running("drainLoop")' /\ \A b \in OpsOf(agenda') : b.op # "boostStart"
    BY <1>0, <1>9, CommandAgenda
  <2>2. UNCHANGED <<active, queue, pauses, resolving, db, outcomes>>
    BY <1>9 DEF SetMaxConcurrent
  <2>3. PauseFrame
    BY <2>1, <2>2 DEF PauseFrame, PauseInv
  <2> QED BY <2>3, PauseFramed
<1>10. ASSUME NEW t \in Tasks, SetPriorityTask(t) PROVE PauseInv'
  <2>1. UNCHANGED <<active, pauses, resolving, db, outcomes>>
    BY <1>10 DEF SetPriorityTask
  <2>2. QueuedTasks(queue') \subseteq QueuedTasks(queue)
    BY <1>1, <1>10, WithoutFacts DEF SetPriorityTask, Unqueue
  <2>3. CASE agenda' = <<ClearBoost>>
    <3>1. \A o \in OpsOf(agenda') : o.op = "clearBoost"
      BY <2>3, OpenForms DEF OpsOf
    <3>2. ~Running("drainLoop")'
      BY <2>3, OpenForms DEF Running
    <3>3. PauseFrame
      BY <2>1, <2>2, <3>1, <3>2 DEF PauseFrame, PauseInv
    <3> QED BY <3>3, PauseFramed
  <2>4. CASE agenda' = <<Do("boostActive", t), Do("boostQueued", t), Do("boostStray", t),
                         [op |-> "boostStart", task |-> t, queued |-> t \in QueuedTasks(queue)]>>
    <3>1. (t \in QueuedTasks(queue)) \in BOOLEAN
      OBVIOUS
    <3>2. /\ \A o \in OpsOf(agenda') : o.op = "boostStart" => o.task = t /\ o.queued = (t \in QueuedTasks(queue))
          /\ Head(agenda').op # "drainLoop"
      BY <2>4, <3>1, BoostAgenda
    <3>3. t \in QueuedTasks(queue) => pauses[t].gen = 0
      BY DEF PauseInv, PauseExclusive
    <3>4. ~Running("drainLoop")'
      BY <3>2 DEF Running
    <3>5. PauseFrame
      BY <2>1, <2>2, <3>2, <3>3, <3>4 DEF PauseFrame, PauseInv
    <3> QED BY <3>5, PauseFramed
  <2> QED BY <1>10, <2>3, <2>4 DEF SetPriorityTask
<1> QED BY <1>2, <1>3, <1>4, <1>5, <1>6, <1>7, <1>8, <1>9, <1>10, Zenon DEF UserCommand

LEMMA PauseMessage ==
  ASSUME TypeOK, TypeOK', PauseInv, Message
  PROVE  PauseInv'
<1>0. ~Running("drainLoop")' /\ \A b \in OpsOf(agenda') : b.op # "boostStart"
  BY MessageAgenda, BeginFacts DEF BeginStep, Opening
<1>1. active \in [Tasks -> [gen : Nat, spawned : BOOLEAN]] /\ resolving \in [Tasks -> Nat]
  BY DEF TypeOK
<1>2. CASE OnTaskDone
  <2>1. UNCHANGED <<queue, pauses, resolving, db, outcomes>>
    BY <1>2 DEF OnTaskDone
  <2>2. \A u \in Tasks : active'[u].gen # 0 => active[u].gen # 0
    <3>1. UNCHANGED active \/ active' = [active EXCEPT ![Head(doneCh).task] = NoEntry]
      BY <1>2, Zenon DEF OnTaskDone
    <3> QED BY <1>1, <3>1 DEF NoEntry
  <2>3. PauseFrame
    BY <1>0, <2>1, <2>2 DEF PauseFrame, PauseInv
  <2> QED BY <2>3, PauseFramed
<1>3. ASSUME NEW t \in Tasks, OnRetry(t) PROVE PauseInv'
  <2>1. UNCHANGED <<active, queue, pauses, resolving, db, outcomes>>
    BY <1>3 DEF OnRetry, actorVars
  <2>2. PauseFrame
    BY <1>0, <2>1 DEF PauseFrame, PauseInv
  <2> QED BY <2>2, PauseFramed
<1>4. ASSUME NEW o \in outcomes, OnResolveReady(o) PROVE PauseInv'
  <2>1. o.task \in Tasks /\ o.gen # 0
    BY DEF TypeOK, PauseInv
  <2>2. outcomes' \subseteq outcomes
    BY <1>4 DEF OnResolveReady
  <2>3. CASE OnResolveCancelled(o)
    BY <1>0, <2>1, <2>2, <2>3, PauseCancelledRow, PauseFramed DEF OnResolveCancelled
  <2>4. CASE OnResolveOk(o)
    <3>1. /\ pauses[o.task].gen = 0 /\ db[o.task].status # "none"
          /\ UNCHANGED <<queue, pauses, db>>
      BY <2>1, <2>4 DEF OnResolveOk, PauseInv, HasRow, Live
    <3>2. \A u \in Tasks : u # o.task => active'[u] = active[u] /\ resolving'[u] = resolving[u]
      BY <1>1, <2>4 DEF OnResolveOk, SpawnDownload
    <3>3. resolving'[o.task] = 0
      BY <1>1, <2>1, <2>4 DEF OnResolveOk
    <3>4. PauseFrame
      BY <1>0, <2>2, <3>1, <3>2, <3>3 DEF PauseFrame, PauseInv
    <3> QED BY <3>4, PauseFramed
  <2>5. CASE OnResolveStale(o) \/ OnResolveGone(o) \/ OnResolveError(o)
    <3>1. /\ UNCHANGED active \/ active' = [active EXCEPT ![o.task] = NoEntry]
          /\ UNCHANGED resolving \/ resolving' = [resolving EXCEPT ![o.task] = 0]
          /\ UNCHANGED db \/ db' = UpdateStatus(o.task, "error", "fatal")
          /\ UNCHANGED <<queue, pauses>>
      BY <2>5, Zenon DEF OnResolveStale, OnResolveGone, OnResolveError
    <3>2. \A u \in Tasks : active'[u].gen # 0 => active[u].gen # 0
      BY <1>1, <3>1 DEF NoEntry
    <3>3. \A u \in Tasks : resolving'[u] # 0 => resolving[u] # 0
      BY <1>1, <3>1
    <3>4. SameRows
      <4>1. \A u \in Tasks : UpdateStatus(o.task, "error", "fatal")[u].status = "none"
                               <=> db[u].status = "none"
        BY <2>1, UpdateStatusFacts DEF Live
      <4> QED BY <3>1, <4>1 DEF SameRows
    <3>5. PauseFrame
      BY <1>0, <2>2, <3>1, <3>2, <3>3, <3>4 DEF PauseFrame, PauseInv, SameRows
    <3> QED BY <3>5, PauseFramed
  <2> QED BY <1>4, <2>3, <2>4, <2>5 DEF OnResolveReady
<1> QED BY <1>2, <1>3, <1>4 DEF Message

LEMMA PauseNext ==
  ASSUME TypeOK, AgendaInv(agenda), PauseInv, [Next]_vars
  PROVE  PauseInv'
<1>0. TypeOK'
  BY TypeNext
<1>1. CASE HandlerStep
  BY <1>0, <1>1, PauseHandler
<1>2. CASE UserCommand
  BY <1>0, <1>2, PauseCommand
<1>3. CASE Message
  BY <1>0, <1>3, PauseMessage
<1>4. ASSUME NEW s \in spawns, Download(s) PROVE PauseInv'
  <2>1. UNCHANGED <<active, queue, pauses, resolving, agenda, outcomes>>
    BY <1>4 DEF Download, actorVars
  <2>2. SameRows
    <3>1. s.task \in Tasks
      BY DEF TypeOK, Spawn
    <3>2. ASSUME NEW st \in Live, NEW e \in {"", "retriable", "fatal"}, db' = UpdateStatus(s.task, st, e)
          PROVE  SameRows
      <4>1. PICK t \in Tasks : t = s.task
        BY <3>1
      <4>2. st \in Live \cup {"deleted"} /\ e \in {"", "cancelled", "retriable", "fatal"}
        OBVIOUS
      <4>3. \A u \in Tasks : UpdateStatus(t, st, e)[u].status = "none" <=> db[u].status = "none"
        BY <4>2, UpdateStatusFacts, Zenon
      <4> QED BY <3>2, <4>1, <4>3 DEF SameRows
    <3>3. UNCHANGED db \/ \E st \in Live, e \in {"", "retriable", "fatal"} : db' = UpdateStatus(s.task, st, e)
      BY <1>4 DEF Download, WritePreparing, Admit, WriteDownloading, Complete, Fail, Stop,
                  SendTaskDone, Live
    <3>4. UNCHANGED db => SameRows
      BY DEF SameRows
    <3> QED BY <3>2, <3>3, <3>4
  <2> QED BY <2>1, <2>2 DEF PauseInv, PauseExclusive, SameRows, IsActive, Running
<1>5. CASE Reboot
  <2>1. /\ \A t \in Tasks : /\ active'[t].gen = 0 /\ pauses'[t].gen = 0 /\ resolving'[t] = 0
        /\ outcomes' = {} /\ agenda' = <<>>
    BY <1>5 DEF Reboot, NoEntry, NoPause
  <2>2. OpsOf(agenda') = {}
    BY <2>1 DEF OpsOf
  <2> QED BY <2>1, <2>2 DEF PauseInv, PauseExclusive, IsActive
<1>6. CASE UNCHANGED vars
  <2>1. UNCHANGED <<active, queue, pauses, resolving, agenda, db, outcomes>>
    BY <1>6 DEF vars
  <2> QED BY <2>1 DEF PauseInv, PauseExclusive, IsActive, Running
<1> QED BY <1>1, <1>2, <1>3, <1>4, <1>5, <1>6 DEF Next

LEMMA PauseInit ==
  ASSUME Init PROVE PauseInv
<1>1. /\ \A t \in Tasks : active[t].gen = 0 /\ pauses[t].gen = 0 /\ resolving[t] = 0
      /\ outcomes = {} /\ agenda = <<>>
  BY DEF Init, NoEntry, NoPause
<1>2. OpsOf(agenda) = {}
  BY <1>1 DEF OpsOf
<1> QED BY <1>1, <1>2 DEF PauseInv, PauseExclusive, IsActive

-----------------------------------------------------------------------------
(* Generations *)

Backed(t) == IF active[t].spawned THEN Reporting(t, active[t].gen)
                                  ELSE \E o \in outcomes : o.task = t /\ o.gen = active[t].gen

(* What a step may do to the generations: an entry stays, is cleared, or    *)
(* gets a fresh generation; a pause ends, or takes over a cleared entry's   *)
(* generation; and only what no table waits for is forgotten.               *)
TablesMove ==
    /\ gen' = gen \/ gen' = gen + 1
    /\ \A t \in Tasks :
         /\ \/ active'[t] = active[t] \/ active'[t] = NoEntry
            \/ gen' = gen + 1 /\ active'[t].gen = gen + 1 /\ Backed(t)'
         /\ \/ pauses'[t].gen = 0 \/ pauses'[t].gen = pauses[t].gen
            \/ active[t].spawned /\ pauses'[t].gen = active[t].gen /\ active'[t] = NoEntry
    /\ \A t, u \in Tasks : active'[t].gen = gen + 1 /\ active'[u].gen = gen + 1 => t = u
ReportsMove ==
    /\ \A t \in Tasks, g \in 1..gen :
         Reporting(t, g) => Reporting(t, g)' \/ (active'[t].gen # g /\ pauses'[t].gen # g)
    /\ \A o \in outcomes :
         o \in outcomes' \/ active'[o.task].spawned \/ active'[o.task].gen # o.gen
    /\ \A s \in spawns' : s.gen \in 1..gen'
    /\ \A d \in OpsOf(doneCh') : d.gen \in 1..gen'
OpsMove ==
    \A o \in OpsOf(agenda') : \/ o \in OpsOf(agenda) \/ Dropped(o)'
                              \/ o.op \notin {"finish", "reap", "reapBatch"}

LEMMA GenFramed ==
  ASSUME TypeOK, TypeOK', GenInv, ActiveBacked, PauseBacked, TablesMove, ReportsMove, OpsMove
  PROVE  GenInv' /\ ActiveBacked' /\ PauseBacked'
<1>1. /\ gen \in Nat /\ gen' \in Nat /\ gen <= gen'
      /\ \A t \in Tasks : active[t].gen \in 0..gen /\ pauses[t].gen \in 0..gen
      /\ NoEntry.gen = 0 /\ ~NoEntry.spawned
  BY DEF TypeOK, GenInv, TablesMove, NoEntry
<1>2. ASSUME NEW t \in Tasks
      PROVE  /\ active'[t].gen \in 0..gen' /\ pauses'[t].gen \in 0..gen'
             /\ active'[t].spawned => active'[t].gen # 0
  BY <1>1 DEF TablesMove, GenInv
<1>3. ASSUME NEW t \in Tasks, NEW u \in Tasks, active'[t].gen # 0, t # u
      PROVE  active'[t].gen # active'[u].gen
  <2>1. CASE active'[t].gen = gen + 1 \/ active'[u].gen = gen + 1
    BY <1>3, <2>1 DEF TablesMove
  <2>2. CASE ~(active'[t].gen = gen + 1 \/ active'[u].gen = gen + 1)
    <3>1. active'[t] = active[t] /\ (active'[u] = active[u] \/ active'[u] = NoEntry)
      BY <1>1, <1>3, <2>2 DEF TablesMove
    <3> QED BY <1>1, <1>3, <3>1 DEF GenInv
  <2> QED BY <2>1, <2>2
<1>4. ASSUME NEW t \in Tasks, NEW u \in Tasks, pauses'[t].gen # 0
      PROVE  active'[u].gen # pauses'[t].gen
  <2>1. CASE pauses'[t].gen = pauses[t].gen
    BY <1>1, <1>4, <2>1 DEF TablesMove, GenInv
  <2>2. CASE active[t].spawned /\ pauses'[t].gen = active[t].gen /\ active'[t] = NoEntry
    <3>1. CASE u = t
      BY <1>1, <1>4, <2>2, <3>1
    <3>2. CASE u # t
      BY <1>1, <1>4, <2>2, <3>2 DEF TablesMove, GenInv
    <3> QED BY <3>1, <3>2
  <2> QED BY <1>4, <2>1, <2>2 DEF TablesMove
<1>5. ASSUME NEW g, Gone(g) PROVE Gone(g)'
  <2>1. g \in 1..gen /\ g \in 1..gen'
    BY <1>1, <1>5 DEF Gone
  <2>2. ASSUME NEW u \in Tasks PROVE active'[u].gen # g /\ pauses'[u].gen # g
    BY <1>1, <1>5, <2>1 DEF TablesMove, Gone
  <2> QED BY <2>1, <2>2 DEF Gone
<1>6. ASSUME NEW o \in OpsOf(agenda') PROVE Dropped(o)'
  <2>1. o \in Op
    BY DEF TypeOK, OpsOf
  <2>2. CASE o \in OpsOf(agenda)
    <3>1. Dropped(o)
      BY <2>2 DEF GenInv
    <3>2. ASSUME o.op = "finish" PROVE o.gen \in 1..gen' /\ active'[o.task].gen # o.gen
      <4>1. o.gen \in 1..gen /\ active[o.task].gen # o.gen /\ o.task \in Tasks
        BY <2>1, <3>1, <3>2, OpFields DEF Dropped
      <4> QED BY <1>1, <4>1 DEF TablesMove
    <3> QED BY <1>5, <3>1, <3>2 DEF Dropped
  <2>3. CASE o.op \notin {"finish", "reap", "reapBatch"}
    BY <2>3 DEF Dropped
  <2> QED BY <2>2, <2>3 DEF OpsMove
<1>7. GenInv'
  BY <1>2, <1>3, <1>4, <1>6 DEF GenInv, ReportsMove
<1>8. ASSUME NEW t \in Tasks, active'[t].gen # 0 PROVE Backed(t)'
  <2>1. CASE active'[t] = active[t]
    <3>1. active[t].gen \in 1..gen
      BY <1>1, <1>8, <2>1
    <3>2. CASE active[t].spawned
      <4>1. Reporting(t, active[t].gen)
        BY <3>1, <3>2 DEF ActiveBacked, IsActive
      <4>2. PICK g \in 1..gen : Reporting(t, g) /\ active'[t].gen = g
        BY <2>1, <3>1, <4>1
      <4>3. Reporting(t, g)'
        BY <4>2 DEF ReportsMove
      <4> QED BY <2>1, <3>2, <4>2, <4>3 DEF Backed
    <3>3. CASE ~active[t].spawned
      BY <2>1, <3>1, <3>3 DEF ActiveBacked, IsActive, ReportsMove, Backed
    <3> QED BY <3>2, <3>3
  <2> QED BY <1>1, <1>8, <2>1 DEF TablesMove
<1>9. ASSUME NEW t \in Tasks, pauses'[t].gen # 0 PROVE Reporting(t, pauses[t].gen)'
  <2>1. PICK g \in 1..gen : pauses'[t].gen = g /\ Reporting(t, g)
    <3>1. CASE pauses'[t].gen = pauses[t].gen
      BY <1>1, <1>9, <3>1 DEF PauseBacked
    <3>2. CASE active[t].spawned /\ pauses'[t].gen = active[t].gen
      BY <1>1, <1>9, <3>2 DEF ActiveBacked, IsActive
    <3> QED BY <1>9, <3>1, <3>2 DEF TablesMove
  <2>2. Reporting(t, g)'
    BY <2>1 DEF ReportsMove
  <2> QED BY <2>1, <2>2
<1> QED BY <1>7, <1>8, <1>9 DEF ActiveBacked, PauseBacked, IsActive, Backed

(* Reporting, in terms of what the sequences contain. *)
LEMMA ReportingForm ==
  ASSUME NEW t, NEW g
  PROVE  /\ Reporting(t, g) <=> \/ \E s \in spawns : s.task = t /\ s.gen = g
                                \/ [op |-> "finish", task |-> t, gen |-> g] \in OpsOf(agenda)
                                \/ [task |-> t, gen |-> g] \in OpsOf(doneCh)
         /\ Reporting(t, g)' <=> \/ \E s \in spawns' : s.task = t /\ s.gen = g
                                 \/ [op |-> "finish", task |-> t, gen |-> g] \in OpsOf(agenda')
                                 \/ [task |-> t, gen |-> g] \in OpsOf(doneCh')
<1> DEFINE f == [op |-> "finish", task |-> t, gen |-> g]
           d == [task |-> t, gen |-> g]
<1>1. /\ (\E i \in 1..Len(agenda) : agenda[i] = f) <=> f \in OpsOf(agenda)
      /\ (\E i \in 1..Len(agenda') : agenda'[i] = f) <=> f \in OpsOf(agenda')
      /\ (\E i \in 1..Len(doneCh) : doneCh[i] = d) <=> d \in OpsOf(doneCh)
      /\ (\E i \in 1..Len(doneCh') : doneCh'[i] = d) <=> d \in OpsOf(doneCh')
  <2> HIDE DEF f, d
  <2> QED BY DEF OpsOf
<1> QED BY <1>1 DEF Reporting

(* No running generation is lost, and no new one appears, except a fresh one. *)
SpawnsKept ==
    /\ \A s \in spawns : \E r \in spawns' : r.task = s.task /\ r.gen = s.gen
    /\ \A r \in spawns' : (\E s \in spawns : r.gen = s.gen) \/ (gen' = gen + 1 /\ r.gen = gen + 1)

LEMMA SpawnsSame ==
  ASSUME TypeOK,
         \/ UNCHANGED spawns
         \/ \E g : spawns' = CancelToken(g)
         \/ \E G : spawns' = {IF s.gen \in G THEN [s EXCEPT !.cancelled = TRUE] ELSE s : s \in spawns}
  PROVE  SpawnsKept
<1>1. CASE UNCHANGED spawns
  BY <1>1 DEF SpawnsKept
<1>2. ASSUME NEW G, spawns' = {IF s.gen \in G THEN [s EXCEPT !.cancelled = TRUE] ELSE s : s \in spawns}
      PROVE  SpawnsKept
  <2> DEFINE c(s) == IF s.gen \in G THEN [s EXCEPT !.cancelled = TRUE] ELSE s
  <2>1. spawns' = {c(s) : s \in spawns}
    BY <1>2
  <2>2. \A s \in spawns : c(s).task = s.task /\ c(s).gen = s.gen
    BY DEF TypeOK, Spawn
  <2> HIDE DEF c
  <2> QED BY <2>1, <2>2 DEF SpawnsKept
<1>3. ASSUME NEW g, spawns' = CancelToken(g) PROVE SpawnsKept
  BY <1>2, <1>3, CancelTokenForm
<1> QED BY <1>1, <1>2, <1>3

(* The generations stay accounted for. *)
LEMMA KeptReports ==
  ASSUME TypeOK, GenInv, SpawnsKept, gen' = gen \/ gen' = gen + 1, UNCHANGED doneCh,
         \A o \in outcomes :
           o \in outcomes' \/ active'[o.task].spawned \/ active'[o.task].gen # o.gen,
         \A t \in Tasks, g \in 1..gen :
           [op |-> "finish", task |-> t, gen |-> g] \in OpsOf(agenda)
             => \/ [op |-> "finish", task |-> t, gen |-> g] \in OpsOf(agenda')
                \/ active'[t].gen # g /\ pauses'[t].gen # g
  PROVE  ReportsMove
<1>1. gen \in Nat
  BY DEF TypeOK
<1>2. ASSUME NEW t \in Tasks, NEW g \in 1..gen, Reporting(t, g)
      PROVE  Reporting(t, g)' \/ (active'[t].gen # g /\ pauses'[t].gen # g)
  <2>1. CASE \E s \in spawns : s.task = t /\ s.gen = g
    BY <2>1, ReportingForm, ZenonT(30) DEF SpawnsKept
  <2>2. CASE [op |-> "finish", task |-> t, gen |-> g] \in OpsOf(agenda)
    BY <2>2, ReportingForm
  <2>3. CASE [task |-> t, gen |-> g] \in OpsOf(doneCh)
    BY <2>3, ReportingForm
  <2> QED BY <1>2, <2>1, <2>2, <2>3, ReportingForm
<1>3. ASSUME NEW r \in spawns' PROVE r.gen \in 1..gen'
  BY <1>1 DEF SpawnsKept, GenInv
<1>4. ASSUME NEW d \in OpsOf(doneCh') PROVE d.gen \in 1..gen'
  BY <1>1 DEF GenInv
<1> QED BY <1>2, <1>3, <1>4 DEF ReportsMove

LEMMA HandlerReports ==
  ASSUME TypeOK, GenInv, AgendaFlow, Head(agenda).op # "finish", SpawnsKept,
         gen' = gen \/ gen' = gen + 1, UNCHANGED doneCh, outcomes \subseteq outcomes'
  PROVE  ReportsMove /\ OpsMove
<1>1. \A t \in Tasks, g \in 1..gen :
        [op |-> "finish", task |-> t, gen |-> g] \in OpsOf(agenda)
          => [op |-> "finish", task |-> t, gen |-> g] \in OpsOf(agenda')
  <2>1. \A t, g : [op |-> "finish", task |-> t, gen |-> g].op = "finish"
    OBVIOUS
  <2> QED BY <2>1 DEF AgendaFlow
<1>2. OpsMove
  BY DEF AgendaFlow, OpsMove
<1> QED BY <1>1, <1>2, KeptReports

(* A start gives a fresh generation to one entry, and backs it. *)
StartMove(t) ==
    /\ gen' = gen \/ gen' = gen + 1
    /\ SpawnsKept
    /\ \A u \in Tasks :
         \/ active'[u] = active[u]
         \/ u = t /\ gen' = gen + 1 /\ active'[u].gen = gen + 1 /\ Backed(u)'

LEMMA SpawnMoves ==
  ASSUME TypeOK, NEW t \in Tasks, SpawnDownload(t)
  PROVE  StartMove(t)
<1> DEFINE n == [gen |-> gen + 1, task |-> t, pc |-> "start", cancelled |-> FALSE]
<1>1. active \in [Tasks -> [gen : Nat, spawned : BOOLEAN]]
  BY DEF TypeOK
<1>2. /\ gen' = gen + 1 /\ spawns' = spawns \cup {n}
      /\ active'[t] = [gen |-> gen + 1, spawned |-> TRUE]
      /\ \A u \in Tasks : u # t => active'[u] = active[u]
  BY <1>1 DEF SpawnDownload
<1>3. n \in spawns' /\ n.task = t /\ n.gen = gen + 1
  BY <1>2
<1>4. Backed(t)'
  <2>1. PICK g : g = gen + 1
    OBVIOUS
  <2>2. Reporting(t, g)'
    BY <1>3, <2>1, ReportingForm
  <2> QED BY <1>2, <2>1, <2>2 DEF Backed
<1>5. SpawnsKept
  BY <1>2, <1>3 DEF SpawnsKept
<1> QED BY <1>2, <1>4, <1>5 DEF StartMove

LEMMA StartMoves ==
  ASSUME TypeOK, NEW t \in Tasks, do_resume_task(t) \/ do_start_task(t)
  PROVE  StartMove(t) /\ outcomes \subseteq outcomes'
<1>1. active \in [Tasks -> [gen : Nat, spawned : BOOLEAN]]
  BY DEF TypeOK
<1>2. CASE UNCHANGED <<active, gen, spawns, resolving, outcomes>>
  BY <1>2 DEF StartMove, SpawnsKept
<1>3. CASE SpawnDownload(t) /\ UNCHANGED <<resolving, outcomes>>
  BY <1>3, SpawnMoves
<1>4. CASE BeginResolve(t) /\ UNCHANGED spawns
  <2>1. /\ gen' = gen + 1 /\ outcomes' = outcomes \cup {[task |-> t, gen |-> gen + 1]}
        /\ active'[t] = [gen |-> gen + 1, spawned |-> FALSE]
        /\ \A u \in Tasks : u # t => active'[u] = active[u]
    BY <1>1, <1>4 DEF BeginResolve
  <2>2. Backed(t)'
    <3>1. [task |-> t, gen |-> gen + 1] \in outcomes'
      BY <2>1
    <3>2. \E o \in outcomes' : o.task = t /\ o.gen = gen + 1
      BY <3>1
    <3> QED BY <2>1, <3>2 DEF Backed
  <2> QED BY <1>4, <2>1, <2>2 DEF StartMove, SpawnsKept
<1> QED BY <1>2, <1>3, <1>4 DEF do_resume_task, do_start_task

(* A start while no pause begins or ends. *)
LEMMA StartTables ==
  ASSUME TypeOK, GenInv, NEW t \in Tasks, StartMove(t),
         \A u \in Tasks : pauses'[u].gen = pauses[u].gen
  PROVE  TablesMove
<1>1. \A u \in Tasks : active[u].gen # gen + 1
  BY DEF TypeOK, GenInv
<1>2. \A u \in Tasks : active'[u].gen = gen + 1 => u = t
  BY <1>1 DEF StartMove
<1> QED BY <1>2 DEF StartMove, TablesMove

(* Entries are only kept or cleared. *)
LEMMA ClearTables ==
  ASSUME TypeOK, GenInv, UNCHANGED gen,
         \A u \in Tasks : active'[u] = active[u] \/ active'[u] = NoEntry,
         \A u \in Tasks : pauses'[u].gen = 0 \/ pauses'[u].gen = pauses[u].gen
  PROVE  TablesMove
<1>1. \A u \in Tasks : active'[u].gen # gen + 1
  <2>1. gen \in Nat /\ NoEntry.gen = 0 /\ \A u \in Tasks : active[u].gen \in 0..gen
    BY DEF TypeOK, GenInv, NoEntry
  <2> QED BY <2>1
<1> QED BY <1>1 DEF TablesMove

LEMMA GenCalm ==
  ASSUME TypeOK, TypeOK', AgendaInv(agenda), GenInv, CalmStep
  PROVE  TablesMove /\ ReportsMove /\ OpsMove
<1>1. /\ UNCHANGED <<active, pauses, outcomes, gen, doneCh>> /\ Head(agenda).op # "finish"
      /\ UNCHANGED spawns \/ ReapBatch \/ \E t \in Tasks : ReapHandle(t)
  BY CalmFacts DEF Calm
<1>2. AgendaFlow
  <2>1. HandlerStep
    BY Zenon DEF CalmStep, HandlerStep
  <2> QED BY <2>1, HandlerAgenda
<1>3. TablesMove
  BY <1>1, ClearTables
<1>4. CASE UNCHANGED spawns
  BY <1>1, <1>2, <1>3, <1>4, SpawnsSame, HandlerReports
<1>5. CASE ReapBatch \/ \E t \in Tasks : ReapHandle(t)
  <2>1. Dropped(Head(agenda)) /\ Head(agenda) \in Op
    BY <1>2, HeadInOps DEF AgendaFlow, GenInv
  <2>2. PICK G : /\ spawns' = {s \in spawns : s.gen \notin G}
                 /\ \A g \in G : Gone(g)
    <3>1. CASE ReapBatch
      BY <2>1, <3>1 DEF ReapBatch, Running, Dropped
    <3>2. ASSUME NEW t \in Tasks, ReapHandle(t)
          PROVE  /\ spawns' = {s \in spawns : s.gen \notin {Head(agenda).gen}}
                 /\ \A g \in {Head(agenda).gen} : Gone(g)
      BY <2>1, <3>2 DEF ReapHandle, Running, Dropped
    <3> QED BY <1>5, <3>1, <3>2
  <2>3. ASSUME NEW t \in Tasks, NEW g \in 1..gen, Reporting(t, g)
        PROVE  Reporting(t, g)' \/ (active'[t].gen # g /\ pauses'[t].gen # g)
    <3>1. CASE \E s \in spawns : s.task = t /\ s.gen = g
      <4>1. CASE g \in G
        BY <1>1, <2>2, <4>1 DEF Gone
      <4>2. CASE g \notin G
        BY <2>2, <3>1, <4>2, ReportingForm
      <4> QED BY <4>1, <4>2
    <3>2. CASE [op |-> "finish", task |-> t, gen |-> g] \in OpsOf(agenda)
      <4> DEFINE f == [op |-> "finish", task |-> t, gen |-> g]
      <4>1. f.op = "finish" /\ f \in OpsOf(agenda)
        BY <3>2
      <4>2. f \in OpsOf(agenda')
        BY <1>1, <1>2, <4>1 DEF AgendaFlow
      <4> QED BY <4>2, ReportingForm
    <3>3. CASE [task |-> t, gen |-> g] \in OpsOf(doneCh)
      BY <1>1, <3>3, ReportingForm
    <3> QED BY <2>3, <3>1, <3>2, <3>3, ReportingForm
  <2>4. ReportsMove
    BY <1>1, <2>2, <2>3 DEF ReportsMove, GenInv
  <2>5. OpsMove
    BY <1>2 DEF AgendaFlow, OpsMove
  <2> QED BY <1>3, <2>4, <2>5
<1> QED BY <1>1, <1>4, <1>5

LEMMA GenTryResume ==
  ASSUME TypeOK, TypeOK', AgendaInv(agenda), GenInv, NEW t \in Tasks,
         ResumeTaskInner(t) \/ ResumeWithRow(t)
  PROVE  TablesMove /\ ReportsMove /\ OpsMove
<1>1. AgendaFlow
  BY HandlerAgenda DEF HandlerStep
<1>2. Head(agenda).op # "finish" /\ UNCHANGED doneCh
  BY DEF ResumeTaskInner, ResumeWithRow, Running
<1>3. PICK s, o1, o2, o3, row : TryResume(t, s, o1, o2, o3, row)
  BY Zenon DEF ResumeTaskInner, ResumeWithRow
<1>4. \A u \in Tasks : pauses'[u].gen = pauses[u].gen
  <2>1. UNCHANGED pauses \/ pauses' = [pauses EXCEPT ![t].resume = TRUE]
    BY <1>3, Zenon DEF TryResume
  <2>2. pauses \in [Tasks -> [gen : Nat, resume : BOOLEAN]]
    BY DEF TypeOK
  <2>3. ASSUME pauses' = [pauses EXCEPT ![t].resume = TRUE], NEW u \in Tasks
        PROVE  pauses'[u].gen = pauses[u].gen
    BY <2>2, <2>3
  <2> QED BY <2>1, <2>3
<1>5. CASE do_resume_task(t)
  <2>1. StartMove(t) /\ outcomes \subseteq outcomes'
    BY <1>5, StartMoves
  <2>2. TablesMove
    BY <1>4, <2>1, StartTables
  <2> QED BY <1>1, <1>2, <2>1, <2>2, HandlerReports DEF StartMove
<1>6. CASE /\ UNCHANGED active \/ active' = [active EXCEPT ![t] = NoEntry]
           /\ UNCHANGED <<gen, spawns, outcomes>>
  <2>1. \A u \in Tasks : active'[u] = active[u] \/ active'[u] = NoEntry
    BY <1>6 DEF TypeOK
  <2>2. TablesMove
    BY <1>4, <1>6, <2>1, ClearTables
  <2> QED BY <1>1, <1>2, <1>6, <2>2, SpawnsSame, HandlerReports
<1> QED BY <1>3, <1>5, <1>6, Zenon DEF TryResume

LEMMA GenPause ==
  ASSUME TypeOK, TypeOK', AgendaInv(agenda), GenInv, NEW t \in Tasks, PauseTaskInner(t)
  PROVE  TablesMove /\ ReportsMove /\ OpsMove
<1>1. AgendaFlow
  BY HandlerAgenda DEF HandlerStep
<1>2. Head(agenda).op # "finish" /\ UNCHANGED <<doneCh, gen, outcomes>>
  BY DEF PauseTaskInner, Running
<1>3. UNCHANGED spawns \/ \E g : spawns' = CancelToken(g)
  BY Zenon DEF PauseTaskInner
<1>4. ReportsMove /\ OpsMove
  BY <1>1, <1>2, <1>3, SpawnsSame, HandlerReports
<1>5. CASE UNCHANGED <<active, pauses>>
  BY <1>2, <1>4, <1>5, ClearTables
<1>6. CASE /\ active' = [active EXCEPT ![t] = NoEntry]
           /\ pauses' = IF HasDownloader(t)
                          THEN [pauses EXCEPT ![t] = [gen |-> active[t].gen, resume |-> FALSE]]
                          ELSE pauses
  <2>1. /\ active'[t] = NoEntry
        /\ \A u \in Tasks : u # t => active'[u] = active[u] /\ pauses'[u] = pauses[u]
        /\ \/ pauses'[t] = pauses[t]
           \/ active[t].spawned /\ pauses'[t].gen = active[t].gen
    BY <1>6 DEF TypeOK, HasDownloader
  <2>2. \A u \in Tasks : active'[u].gen # gen + 1
    <3>1. gen \in Nat /\ NoEntry.gen = 0 /\ \A u \in Tasks : active[u].gen \in 0..gen
      BY DEF TypeOK, GenInv, NoEntry
    <3> QED BY <2>1, <3>1
  <2>3. TablesMove
    BY <1>2, <2>1, <2>2 DEF TablesMove
  <2> QED BY <1>4, <2>3
<1> QED BY <1>5, <1>6, Zenon DEF PauseTaskInner

(* finish_pending_pause forgets a report only together with the pause that  *)
(* waited for it; no entry did, as on_task_done has cleared it.             *)
LEMMA GenFinish ==
  ASSUME TypeOK, TypeOK', AgendaInv(agenda), GenInv, NEW t \in Tasks, FinishPendingPause(t)
  PROVE  TablesMove /\ ReportsMove /\ OpsMove
<1>1. AgendaFlow
  BY HandlerAgenda DEF HandlerStep
<1>2. UNCHANGED <<active, doneCh, gen, outcomes, spawns>>
  BY DEF FinishPendingPause
<1> DEFINE h == Head(agenda)
<1>3. /\ h \in OpsOf(agenda) /\ h \in Op /\ h.op = "finish" /\ h.task = t
      /\ pauses' = IF pauses[t].gen = h.gen THEN [pauses EXCEPT ![t] = NoPause] ELSE pauses
  BY HeadInOps DEF FinishPendingPause, Running
<1> HIDE DEF h
<1>4. h.gen \in 1..gen /\ active[t].gen # h.gen
  BY <1>3 DEF GenInv, Dropped
<1>5. /\ \A u \in Tasks : pauses'[u].gen = 0 \/ pauses'[u].gen = pauses[u].gen
      /\ pauses'[t].gen # h.gen
  <2>1. pauses \in [Tasks -> [gen : Nat, resume : BOOLEAN]] /\ NoPause.gen = 0
    BY DEF TypeOK, NoPause
  <2>2. h.gen # 0
    BY <1>4
  <2> QED BY <1>3, <2>1, <2>2
<1>6. TablesMove
  BY <1>2, <1>5, ClearTables
<1>7. ASSUME NEW u \in Tasks, NEW g \in 1..gen,
             [op |-> "finish", task |-> u, gen |-> g] \in OpsOf(agenda)
      PROVE  \/ [op |-> "finish", task |-> u, gen |-> g] \in OpsOf(agenda')
             \/ active'[u].gen # g /\ pauses'[u].gen # g
  <2> DEFINE f == [op |-> "finish", task |-> u, gen |-> g]
  <2>1. CASE f = h
    <3>1. u = t /\ g = h.gen
      BY <1>3, <2>1
    <3> QED BY <1>2, <1>4, <1>5, <3>1
  <2>2. CASE f # h
    BY <1>1, <1>7, <2>2 DEF AgendaFlow, h
  <2> QED BY <2>1, <2>2
<1>8. ReportsMove
  BY <1>2, <1>7, SpawnsSame, KeptReports
<1>9. OpsMove
  BY <1>1 DEF AgendaFlow, OpsMove
<1> QED BY <1>6, <1>8, <1>9

LEMMA GenHandler ==
  ASSUME TypeOK, TypeOK', AgendaInv(agenda), GenInv, HandlerStep
  PROVE  TablesMove /\ ReportsMove /\ OpsMove
<1>0. AgendaFlow
  BY HandlerAgenda
<1>1. CASE CalmStep
  BY <1>1, GenCalm
<1>2. CASE DrainQueue \/ DrainEnd
  <2>1. UNCHANGED <<active, pauses, outcomes, gen, doneCh, spawns>> /\ Head(agenda).op # "finish"
    BY <1>2 DEF DrainQueue, DrainEnd, Running
  <2>2. TablesMove
    BY <2>1, ClearTables
  <2> QED BY <1>0, <2>1, <2>2, SpawnsSame, HandlerReports
<1>3. ASSUME NEW t \in Tasks, NEW n,
             /\ Running(n) /\ n # "finish" /\ UNCHANGED <<pauses, doneCh>>
             /\ do_resume_task(t) \/ UNCHANGED <<active, gen, spawns, resolving, outcomes>>
      PROVE  TablesMove /\ ReportsMove /\ OpsMove
  <2>1. StartMove(t) /\ outcomes \subseteq outcomes'
    <3>1. CASE do_resume_task(t)
      BY <3>1, StartMoves
    <3>2. CASE UNCHANGED <<active, gen, spawns, resolving, outcomes>>
      BY <3>2 DEF StartMove, SpawnsKept
    <3> QED BY <1>3, <3>1, <3>2
  <2>2. TablesMove
    BY <1>3, <2>1, StartTables
  <2>3. Head(agenda).op # "finish"
    BY <1>3 DEF Running
  <2> QED BY <1>0, <1>3, <2>1, <2>2, <2>3, HandlerReports DEF StartMove
<1>4. CASE DrainItem
  <2> DEFINE d == Head(agenda)
             x == Head(d.rest)
  <2>1. Running("drainLoop") /\ d.rest # <<>>
    BY <1>4 DEF DrainItem, LoopEnds
  <2>2. d.rest \in Seq(Tasks)
    BY <2>1, RunningFacts, OpFields
  <2>3. x \in Tasks
    BY <2>1, <2>2
  <2>4. /\ UNCHANGED <<pauses, doneCh>>
        /\ do_resume_task(x) \/ UNCHANGED <<active, gen, spawns, resolving, outcomes>>
    BY <1>4 DEF DrainItem
  <2> HIDE DEF d, x
  <2> QED BY <1>3, <2>1, <2>3, <2>4
<1>5. ASSUME NEW t \in Tasks, BoostStart(t) PROVE TablesMove /\ ReportsMove /\ OpsMove
  <2>1. /\ Running("boostStart") /\ UNCHANGED <<pauses, doneCh>>
        /\ do_resume_task(t) \/ UNCHANGED <<active, gen, spawns, resolving, outcomes>>
    BY <1>5 DEF BoostStart
  <2> QED BY <1>3, <2>1
<1>6. ASSUME NEW t \in Tasks, ResumeTaskInner(t) \/ ResumeWithRow(t)
      PROVE  TablesMove /\ ReportsMove /\ OpsMove
  BY <1>6, GenTryResume
<1>7. ASSUME NEW t \in Tasks, PauseTaskInner(t) PROVE TablesMove /\ ReportsMove /\ OpsMove
  BY <1>7, GenPause
<1>8. ASSUME NEW t \in Tasks, FinishPendingPause(t) PROVE TablesMove /\ ReportsMove /\ OpsMove
  BY <1>8, GenFinish
<1> QED BY <1>1, <1>2, <1>4, <1>5, <1>6, <1>7, <1>8, Zenon DEF HandlerStep, CalmStep

(* A command or a message begins a handler: nothing was on the agenda. *)
LEMMA BeginReports ==
  ASSUME TypeOK, GenInv, Idle, SpawnsKept, gen' = gen \/ gen' = gen + 1, UNCHANGED doneCh,
         \A o \in outcomes :
           o \in outcomes' \/ active'[o.task].spawned \/ active'[o.task].gen # o.gen
  PROVE  ReportsMove
<1>1. OpsOf(agenda) = {}
  BY DEF Idle, OpsOf
<1> QED BY <1>1, KeptReports

(* A generation whose entry is cleared is in no table any more. *)
LEMMA GenCleared ==
  ASSUME TypeOK, GenInv, NEW S \in SUBSET Tasks, NEW u \in S, active[u].spawned,
         NEW g, g = active[u].gen, UNCHANGED <<gen, pauses>>,
         \A t \in Tasks : active'[t] = IF t \in S THEN NoEntry ELSE active[t]
  PROVE  Gone(g)'
<1>1. u \in Tasks /\ gen \in Nat /\ g \in 0..gen /\ g # 0
  BY DEF TypeOK, GenInv
<1>2. g \in 1..gen
  BY <1>1
<1>3. ASSUME NEW t \in Tasks PROVE active'[t].gen # g /\ pauses'[t].gen # g
  <2>1. pauses[t].gen # g
    BY <1>1 DEF GenInv
  <2>2. CASE t \in S
    BY <1>1, <2>1, <2>2 DEF NoEntry
  <2>3. CASE t \notin S
    <3>1. active[t].gen # g
      BY <1>1, <2>3 DEF GenInv
    <3> QED BY <2>1, <2>3, <3>1
  <2> QED BY <2>2, <2>3
<1> QED BY <1>2, <1>3 DEF Gone

(* delete_task and delete_tasks_batch wait for what they have cleared. *)
LEMMA GenDelete ==
  ASSUME TypeOK, TypeOK', GenInv, NEW t \in Tasks, DeleteTask(t)
  PROVE  TablesMove /\ ReportsMove /\ OpsMove
<1>1. Idle /\ UNCHANGED <<doneCh, gen, pauses, outcomes>>
  BY DEF DeleteTask, Command
<1>2. SpawnsKept
  BY SpawnsSame DEF DeleteTask
<1>3. ReportsMove
  BY <1>1, <1>2, BeginReports
<1>4. \A u \in Tasks : active'[u] = IF u \in {t} THEN NoEntry ELSE active[u]
  BY DEF DeleteTask, TypeOK
<1>5. TablesMove
  BY <1>1, <1>4, ClearTables
<1>6. PICK g : g = active[t].gen
  OBVIOUS
<1>7. \/ active[t].spawned /\ agenda' = <<[op |-> "reap", task |-> t, gen |-> g]>>
      \/ agenda' = <<Do("erase", t)>>
  BY <1>6 DEF DeleteTask
<1>8. ASSUME NEW o \in OpsOf(agenda') PROVE Dropped(o)'
  <2>1. CASE active[t].spawned /\ agenda' = <<[op |-> "reap", task |-> t, gen |-> g]>>
    <3>1. o.op = "reap" /\ o.gen = g
      BY <1>8, <2>1 DEF OpsOf
    <3>2. Gone(g)'
      BY <1>1, <1>4, <1>6, <2>1, GenCleared
    <3> QED BY <3>1, <3>2 DEF Dropped
  <2>2. CASE agenda' = <<Do("erase", t)>>
    <3>1. o.op = "erase"
      BY <1>8, <2>2, OpenForms DEF OpsOf
    <3> QED BY <3>1 DEF Dropped
  <2> QED BY <1>7, <2>1, <2>2
<1>9. OpsMove
  BY <1>8 DEF OpsMove
<1> QED BY <1>3, <1>5, <1>9

LEMMA GenDeleteBatch ==
  ASSUME TypeOK, TypeOK', GenInv, NEW S \in SUBSET Tasks, DeleteTasksBatch(S)
  PROVE  TablesMove /\ ReportsMove /\ OpsMove
<1>1. Idle /\ UNCHANGED <<doneCh, gen, pauses, outcomes>>
  BY DEF DeleteTasksBatch, Command
<1>2. SpawnsKept
  <2>1. \E G : spawns' = {IF s.gen \in G THEN [s EXCEPT !.cancelled = TRUE] ELSE s : s \in spawns}
    BY DEF DeleteTasksBatch
  <2> QED BY <2>1, SpawnsSame
<1>3. ReportsMove
  BY <1>1, <1>2, BeginReports
<1>4. \A u \in Tasks : active'[u] = IF u \in S THEN NoEntry ELSE active[u]
  BY DEF DeleteTasksBatch
<1>5. TablesMove
  BY <1>1, <1>4, ClearTables
<1>6. PICK G : /\ G = {active[u].gen : u \in {v \in S : active[v].spawned}}
               /\ agenda' = <<[op |-> "reapBatch", set |-> S, gens |-> G]>>
  BY DEF DeleteTasksBatch
<1>7. ASSUME NEW g \in G PROVE Gone(g)'
  <2>1. PICK u \in S : active[u].spawned /\ g = active[u].gen
    BY <1>6
  <2> QED BY <1>1, <1>4, <2>1, GenCleared
<1>8. ASSUME NEW o \in OpsOf(agenda') PROVE Dropped(o)'
  <2>1. o.op = "reapBatch" /\ o.gens = G
    BY <1>6, <1>8 DEF OpsOf
  <2> QED BY <1>7, <2>1 DEF Dropped
<1>9. OpsMove
  BY <1>8 DEF OpsMove
<1> QED BY <1>3, <1>5, <1>9

(* cancel_task and the cancelled resolve of on_resolve_ready. *)
LEMMA GenCancelledRow ==
  ASSUME TypeOK, GenInv, NEW t \in Tasks, CancelledRow(t)
  PROVE  /\ TablesMove /\ SpawnsKept /\ UNCHANGED gen
         /\ active'[t].gen = 0 /\ \A u \in Tasks : u # t => active'[u] = active[u]
<1>1. /\ UNCHANGED <<gen, pauses>>
      /\ UNCHANGED spawns \/ \E g : spawns' = CancelToken(g)
      /\ active' = [active EXCEPT ![t] = NoEntry]
  BY Zenon DEF CancelledRow
<1>2. active'[t] = NoEntry /\ \A u \in Tasks : u # t => active'[u] = active[u]
  BY <1>1 DEF TypeOK
<1>3. TablesMove
  BY <1>1, <1>2, ClearTables
<1> QED BY <1>1, <1>2, <1>3, SpawnsSame DEF NoEntry

LEMMA GenCommand ==
  ASSUME TypeOK, TypeOK', GenInv, UserCommand
  PROVE  TablesMove /\ ReportsMove /\ OpsMove
<1>1. CASE (\E S \in Batch : DeleteTasksBatch(S)) \/ \E t \in Tasks : DeleteTask(t)
  BY <1>1, GenDelete, GenDeleteBatch DEF Batch
<1> SUFFICES ASSUME ~\E S \in Batch : DeleteTasksBatch(S), ~\E t \in Tasks : DeleteTask(t)
             PROVE  TablesMove /\ ReportsMove /\ OpsMove
  BY <1>1
<1>2. ASSUME HandsNone PROVE OpsMove
  BY <1>2 DEF HandsNone, OpsMove
<1>3. ASSUME Idle, UNCHANGED <<active, pauses, gen, spawns, outcomes, doneCh>>
      PROVE  TablesMove /\ ReportsMove
  BY <1>3, SpawnsSame, BeginReports, ClearTables
<1>4. CASE \E t \in Tasks : SetPriorityTask(t)
  <2>1. PICK t \in Tasks : SetPriorityTask(t)
    BY <1>4
  <2>2. Idle /\ UNCHANGED <<active, pauses, gen, spawns, outcomes, doneCh>>
    BY <2>1 DEF SetPriorityTask, Command
  <2>3. HandsNone
    <3>1. CASE agenda' = <<ClearBoost>>
      BY <3>1, OpenForms DEF OpsOf, HandsNone
    <3>2. CASE \E q \in BOOLEAN :
                 agenda' = <<Do("boostActive", t), Do("boostQueued", t), Do("boostStray", t),
                             [op |-> "boostStart", task |-> t, queued |-> q]>>
      BY <3>2, BoostAgenda DEF HandsNone, Boosting
    <3>3. (t \in QueuedTasks(queue)) \in BOOLEAN
      OBVIOUS
    <3> QED BY <2>1, <3>1, <3>2, <3>3 DEF SetPriorityTask
  <2> QED BY <1>2, <1>3, <2>2, <2>3
<1>5. CASE \/ \E q \in Queues : StartQueue(q) \/ StopQueue(q)
           \/ \E t \in Tasks : PauseTask(t) \/ ResumeTask(t) \/ RestartTask(t)
           \/ \E n \in Limits : SetMaxConcurrent(n)
  <2>1. HandsNone
    BY <1>5, CommandAgenda, Zenon
  <2>2. CASE \/ \E q \in Queues : StartQueue(q)
             \/ \E t \in Tasks : PauseTask(t) \/ ResumeTask(t) \/ RestartTask(t)
    <3>1. Idle /\ UNCHANGED <<active, pauses, gen, spawns, outcomes, doneCh>>
      BY <2>2 DEF StartQueue, batch_resume, PauseTask, ResumeTask, RestartTask, Command, actorVars
    <3> QED BY <1>2, <1>3, <2>1, <3>1
  <2>3. CASE \E q \in Queues : StopQueue(q)
    <3>1. Idle /\ UNCHANGED <<active, pauses, gen, spawns, doneCh>> /\ UNCHANGED outcomes
      BY <2>3 DEF StopQueue, batch_pause, Command
    <3> QED BY <1>2, <1>3, <2>1, <3>1
  <2>4. CASE \E n \in Limits : SetMaxConcurrent(n)
    <3>1. Idle /\ UNCHANGED <<active, pauses, gen, spawns, outcomes, doneCh>>
      BY <2>4 DEF SetMaxConcurrent, Command
    <3> QED BY <1>2, <1>3, <2>1, <3>1
  <2> QED BY <1>5, <2>2, <2>3, <2>4
<1>6. CASE \E t \in Tasks : CancelTask(t)
  <2>1. HandsNone
    BY <1>6, CommandAgenda, Zenon
  <2>2. PICK t \in Tasks : CancelTask(t)
    BY <1>6
  <2>3. Idle /\ CancelledRow(t) /\ UNCHANGED <<outcomes, doneCh>>
    BY <2>2 DEF CancelTask, Command
  <2> QED BY <1>2, <2>1, <2>3, GenCancelledRow, BeginReports
<1>7. CASE \E t \in Tasks, later \in BOOLEAN : CreateTask(t, later)
  <2>1. HandsNone
    BY <1>7, CommandAgenda, Zenon
  <2>2. PICK t \in Tasks, later \in BOOLEAN : CreateTask(t, later)
    BY <1>7
  <2>3. /\ Idle /\ UNCHANGED <<pauses, doneCh>>
        /\ do_start_task(t) \/ UNCHANGED <<active, gen, spawns, resolving, outcomes>>
    BY <2>2 DEF CreateTask, Command
  <2>4. StartMove(t) /\ outcomes \subseteq outcomes'
    <3>1. CASE do_start_task(t)
      BY <3>1, StartMoves
    <3>2. CASE UNCHANGED <<active, gen, spawns, resolving, outcomes>>
      BY <3>2 DEF StartMove, SpawnsKept
    <3> QED BY <2>3, <3>1, <3>2
  <2>5. TablesMove
    BY <2>3, <2>4, StartTables
  <2> QED BY <1>2, <2>1, <2>3, <2>4, <2>5, BeginReports DEF StartMove
<1> QED BY <1>4, <1>5, <1>6, <1>7, Zenon DEF UserCommand

LEMMA ReportSeqs ==
  ASSUME TypeOK
  PROVE  /\ doneCh # <<>> => /\ OpsOf(doneCh) = {Head(doneCh)} \cup OpsOf(Tail(doneCh))
                             /\ Head(doneCh) \in [task : Tasks, gen : Nat]
         /\ \A d \in [task : Tasks, gen : Nat] : OpsOf(Append(doneCh, d)) = OpsOf(doneCh) \cup {d}
<1>1. doneCh \in Seq([task : Tasks, gen : Nat])
  BY DEF TypeOK
<1>2. ASSUME doneCh # <<>>
      PROVE  /\ OpsOf(doneCh) = {Head(doneCh)} \cup OpsOf(Tail(doneCh))
             /\ Head(doneCh) \in [task : Tasks, gen : Nat]
  <2>1. /\ Len(doneCh) \in Nat \ {0} /\ Len(Tail(doneCh)) = Len(doneCh) - 1
        /\ Head(doneCh) = doneCh[1] /\ \A i \in 1..(Len(doneCh) - 1) : Tail(doneCh)[i] = doneCh[i + 1]
    BY <1>1, <1>2
  <2>2. ASSUME NEW i \in 1..Len(doneCh) PROVE doneCh[i] \in {Head(doneCh)} \cup OpsOf(Tail(doneCh))
    <3>1. i = 1 \/ (i - 1 \in 1..(Len(doneCh) - 1) /\ Tail(doneCh)[i - 1] = doneCh[i])
      BY <2>1
    <3> QED BY <2>1, <3>1 DEF OpsOf
  <2>3. ASSUME NEW i \in 1..Len(Tail(doneCh)) PROVE Tail(doneCh)[i] \in OpsOf(doneCh)
    BY <2>1 DEF OpsOf
  <2>4. Head(doneCh) \in OpsOf(doneCh)
    BY <2>1 DEF OpsOf
  <2>5. Head(doneCh) \in [task : Tasks, gen : Nat]
    BY <1>1, <1>2, SeqFacts
  <2> QED BY <2>2, <2>3, <2>4, <2>5 DEF OpsOf
<1>3. ASSUME NEW d \in [task : Tasks, gen : Nat]
      PROVE  OpsOf(Append(doneCh, d)) = OpsOf(doneCh) \cup {d}
  <2> DEFINE c == Append(doneCh, d)
  <2>1. /\ Len(doneCh) \in Nat /\ Len(c) = Len(doneCh) + 1 /\ c[Len(doneCh) + 1] = d
        /\ \A i \in 1..Len(doneCh) : c[i] = doneCh[i]
    BY <1>1
  <2> HIDE DEF c
  <2>2. ASSUME NEW i \in 1..Len(c) PROVE c[i] \in OpsOf(doneCh) \cup {d}
    <3>1. i = Len(doneCh) + 1 \/ i \in 1..Len(doneCh)
      BY <2>1
    <3> QED BY <2>1, <3>1 DEF OpsOf
  <2>3. ASSUME NEW i \in 1..Len(doneCh) PROVE doneCh[i] \in OpsOf(c)
    BY <2>1 DEF OpsOf
  <2>4. d \in OpsOf(c)
    BY <2>1 DEF OpsOf
  <2>5. OpsOf(c) = OpsOf(doneCh) \cup {d}
    BY <2>2, <2>3, <2>4 DEF OpsOf
  <2> QED BY <2>5 DEF c
<1> QED BY <1>2, <1>3

(* on_task_done hands the report over to finish_pending_pause, after it has *)
(* cleared the entry that waited for it.                                    *)
LEMMA GenTaskDone ==
  ASSUME TypeOK, TypeOK', GenInv, OnTaskDone
  PROVE  TablesMove /\ ReportsMove /\ OpsMove
<1>0. PICK h, f : h = Head(doneCh) /\ f = [op |-> "finish", task |-> h.task, gen |-> h.gen]
  OBVIOUS
<1>1. /\ Idle /\ doneCh # <<>> /\ doneCh' = Tail(doneCh)
      /\ UNCHANGED <<pauses, gen, outcomes, spawns>>
      /\ \/ active[h.task].gen = h.gen /\ active' = [active EXCEPT ![h.task] = NoEntry]
         \/ active[h.task].gen # h.gen /\ UNCHANGED active
  BY <1>0 DEF OnTaskDone, GenerationMatched
<1>2. OpsOf(doneCh) = {h} \cup OpsOf(doneCh') /\ h \in [task : Tasks, gen : Nat]
  BY <1>0, <1>1, ReportSeqs
<1>3. h.task \in Tasks /\ h.gen \in 1..gen /\ h = [task |-> h.task, gen |-> h.gen]
  BY <1>2 DEF GenInv
<1>4. /\ f \in OpsOf(agenda')
      /\ \A o \in OpsOf(agenda') : o = f \/ o.op \notin {"finish", "reap", "reapBatch"}
  BY <1>0, TaskDoneAgenda
<1>5. f.op = "finish" /\ f.task = h.task /\ f.gen = h.gen
  BY <1>0
<1>6. \A u \in Tasks : active'[u] = active[u] \/ active'[u] = NoEntry
  BY <1>1 DEF TypeOK
<1>7. TablesMove
  BY <1>1, <1>6, ClearTables
<1>8. active'[h.task].gen # h.gen
  <2>1. h.gen # 0 /\ NoEntry.gen = 0
    BY <1>3 DEF NoEntry
  <2> QED BY <1>1, <1>3, <2>1 DEF TypeOK
<1>9. Dropped(f)'
  BY <1>1, <1>3, <1>5, <1>8 DEF Dropped
<1>10. OpsMove
  BY <1>4, <1>9 DEF OpsMove
<1>11. ASSUME NEW t \in Tasks, NEW g \in 1..gen, Reporting(t, g) PROVE Reporting(t, g)'
  <2>1. OpsOf(agenda) = {}
    BY <1>1 DEF Idle, OpsOf
  <2>2. CASE \E s \in spawns : s.task = t /\ s.gen = g
    BY <1>1, <2>2, ReportingForm
  <2>3. CASE [task |-> t, gen |-> g] = h
    <3>1. [op |-> "finish", task |-> t, gen |-> g] = f
      BY <1>0, <2>3
    <3> QED BY <1>4, <3>1, ReportingForm
  <2>4. CASE [task |-> t, gen |-> g] \in OpsOf(doneCh')
    BY <2>4, ReportingForm
  <2> QED BY <1>2, <1>11, <2>1, <2>2, <2>3, <2>4, ReportingForm
<1>12. ReportsMove
  BY <1>1, <1>2, <1>11 DEF ReportsMove, GenInv
<1> QED BY <1>7, <1>10, <1>12

LEMMA GenMessage ==
  ASSUME TypeOK, TypeOK', PauseInv, GenInv, Message
  PROVE  TablesMove /\ ReportsMove /\ OpsMove
<1>1. CASE OnTaskDone
  BY <1>1, GenTaskDone
<1> SUFFICES ASSUME ~OnTaskDone PROVE TablesMove /\ ReportsMove /\ OpsMove
  BY <1>1
<1>2. OpsMove
  BY MessageAgenda DEF HandsNone, OpsMove
<1>3. ASSUME NEW t \in Tasks, OnRetry(t) PROVE TablesMove /\ ReportsMove
  <2>1. Idle /\ UNCHANGED <<active, pauses, gen, spawns, outcomes, doneCh>>
    BY <1>3 DEF OnRetry, actorVars
  <2> QED BY <2>1, SpawnsSame, BeginReports, ClearTables
<1>4. ASSUME NEW o \in outcomes, OnResolveReady(o) PROVE TablesMove /\ ReportsMove
  <2>1. /\ Idle /\ UNCHANGED doneCh /\ outcomes' = outcomes \ {o}
        /\ o.task \in Tasks /\ active \in [Tasks -> [gen : Nat, spawned : BOOLEAN]]
    BY <1>4 DEF OnResolveReady, TypeOK
  <2>2. ASSUME SpawnsKept, gen' = gen \/ gen' = gen + 1,
               active'[o.task].spawned \/ active'[o.task].gen # o.gen
        PROVE  ReportsMove
    BY <2>1, <2>2, BeginReports
  <2>3. CASE OnResolveCancelled(o)
    <3>1. CancelledRow(o.task)
      BY <2>3 DEF OnResolveCancelled
    <3>2. TablesMove /\ SpawnsKept /\ UNCHANGED gen /\ active'[o.task].gen = 0
      BY <2>1, <3>1, GenCancelledRow
    <3>3. o.gen # 0
      BY DEF PauseInv
    <3> QED BY <2>2, <3>2, <3>3
  <2>4. CASE OnResolveOk(o)
    <3>1. SpawnDownload(o.task) /\ UNCHANGED pauses
      BY <2>4 DEF OnResolveOk
    <3>2. active'[o.task].spawned
      BY <2>1, <3>1 DEF SpawnDownload
    <3>3. StartMove(o.task)
      BY <2>1, <3>1, SpawnMoves
    <3>4. TablesMove
      BY <2>1, <3>1, <3>3, StartTables
    <3> QED BY <2>2, <3>2, <3>3, <3>4 DEF StartMove
  <2>5. CASE OnResolveStale(o) \/ OnResolveGone(o) \/ OnResolveError(o)
    <3>1. /\ UNCHANGED <<pauses, gen, spawns>>
          /\ \/ active' = [active EXCEPT ![o.task] = NoEntry]
             \/ active[o.task].gen # o.gen /\ UNCHANGED active
      BY <2>5 DEF OnResolveStale, OnResolveGone, OnResolveError
    <3>2. \A u \in Tasks : active'[u] = active[u] \/ active'[u] = NoEntry
      BY <2>1, <3>1
    <3>3. active'[o.task].gen # o.gen
      <4>1. o.gen # 0 /\ NoEntry.gen = 0
        BY DEF PauseInv, NoEntry
      <4> QED BY <2>1, <3>1, <4>1
    <3>4. TablesMove
      BY <3>1, <3>2, ClearTables
    <3> QED BY <2>2, <3>1, <3>3, <3>4, SpawnsSame
  <2> QED BY <1>4, <2>3, <2>4, <2>5 DEF OnResolveReady
<1> QED BY <1>2, <1>3, <1>4, Zenon DEF Message

(* A download moves its report from the running ones to the channel. *)
LEMMA GenDownload ==
  ASSUME TypeOK, TypeOK', GenInv, NEW s \in spawns, Download(s)
  PROVE  TablesMove /\ ReportsMove /\ OpsMove
<1>1. UNCHANGED <<active, pauses, gen, agenda, outcomes>>
  BY DEF Download, actorVars
<1>2. s.task \in Tasks /\ s.gen \in 1..gen /\ s \in Spawn
  BY DEF TypeOK, Spawn, GenInv
<1>3. TablesMove
  BY <1>1, ClearTables
<1>4. OpsMove
  BY <1>1 DEF OpsMove
<1>5. CASE SendTaskDone(s)
  <2>1. PICK d : d = [task |-> s.task, gen |-> s.gen]
    OBVIOUS
  <2>2. spawns' = spawns \ {s} /\ OpsOf(doneCh') = OpsOf(doneCh) \cup {d}
    <3>1. d \in [task : Tasks, gen : Nat]
      BY <1>2, <2>1 DEF Spawn
    <3>2. doneCh' = Append(doneCh, d) /\ spawns' = spawns \ {s}
      BY <1>5, <2>1 DEF SendTaskDone
    <3> QED BY <3>1, <3>2, ReportSeqs
  <2>3. ASSUME NEW t \in Tasks, NEW g \in 1..gen, Reporting(t, g) PROVE Reporting(t, g)'
    <3>1. CASE \E r \in spawns : r.task = t /\ r.gen = g
      <4>1. PICK r \in spawns : r.task = t /\ r.gen = g
        BY <3>1
      <4>2. CASE r = s
        <5>1. [task |-> t, gen |-> g] \in OpsOf(doneCh')
          BY <2>1, <2>2, <4>1, <4>2
        <5> QED BY <5>1, ReportingForm
      <4>3. CASE r # s
        BY <2>2, <4>1, <4>3, ReportingForm
      <4> QED BY <4>2, <4>3
    <3>2. CASE ~\E r \in spawns : r.task = t /\ r.gen = g
      BY <1>1, <2>2, <2>3, <3>2, ReportingForm
    <3> QED BY <3>1, <3>2
  <2>4. ReportsMove
    BY <1>1, <1>2, <2>1, <2>2, <2>3 DEF ReportsMove, GenInv
  <2> QED BY <1>3, <1>4, <2>4
<1>6. CASE ~SendTaskDone(s)
  <2>1. UNCHANGED doneCh /\ \E pc \in {"probe", "admitted", "run", "end"} : Advance(s, pc)
    BY <1>6 DEF Download, WritePreparing, Admit, WriteDownloading, Complete, Fail, Stop
  <2>2. PICK r : r.task = s.task /\ r.gen = s.gen /\ spawns' = (spawns \ {s}) \cup {r}
    <3>1. PICK pc \in {"probe", "admitted", "run", "end"} : Advance(s, pc)
      BY <2>1
    <3> DEFINE n == [s EXCEPT !.pc = pc]
    <3>2. n.task = s.task /\ n.gen = s.gen
      BY <1>2 DEF Spawn
    <3>3. spawns' = (spawns \ {s}) \cup {n}
      BY <3>1 DEF Advance
    <3> HIDE DEF n
    <3> QED BY <3>2, <3>3
  <2>3. SpawnsKept
    BY <2>2 DEF SpawnsKept
  <2>4. ReportsMove
    BY <1>1, <2>1, <2>3, KeptReports
  <2> QED BY <1>3, <1>4, <2>4
<1> QED BY <1>5, <1>6

LEMMA GenNext ==
  ASSUME TypeOK, AgendaInv(agenda), PauseInv, GenInv, ActiveBacked, PauseBacked, [Next]_vars
  PROVE  GenInv' /\ ActiveBacked' /\ PauseBacked'
<1>0. TypeOK'
  BY TypeNext
<1>1. CASE HandlerStep
  BY <1>0, <1>1, GenHandler, GenFramed
<1>2. CASE UserCommand
  BY <1>0, <1>2, GenCommand, GenFramed
<1>3. CASE Message
  BY <1>0, <1>3, GenMessage, GenFramed
<1>4. CASE \E s \in spawns : Download(s)
  BY <1>0, <1>4, GenDownload, GenFramed
<1>5. CASE Reboot
  <2>1. /\ \A t \in Tasks : active'[t] = NoEntry /\ pauses'[t] = NoPause
        /\ spawns' = {} /\ doneCh' = <<>> /\ agenda' = <<>> /\ gen' = 0
    BY <1>5 DEF Reboot
  <2>2. NoEntry.gen = 0 /\ ~NoEntry.spawned /\ NoPause.gen = 0
    BY DEF NoEntry, NoPause
  <2>3. OpsOf(agenda') = {} /\ OpsOf(doneCh') = {}
    BY <2>1 DEF OpsOf
  <2> QED BY <2>1, <2>2, <2>3 DEF GenInv, ActiveBacked, PauseBacked, IsActive
<1>6. CASE UNCHANGED vars
  <2>1. UNCHANGED <<active, pauses, agenda, spawns, doneCh, outcomes, gen>>
    BY <1>6 DEF vars
  <2> QED BY <2>1 DEF GenInv, Dropped, Gone, ActiveBacked, PauseBacked, Reporting, IsActive
<1> QED BY <1>1, <1>2, <1>3, <1>4, <1>5, <1>6 DEF Next

LEMMA GenInit ==
  ASSUME Init PROVE GenInv /\ ActiveBacked /\ PauseBacked
<1>1. /\ \A t \in Tasks : active[t] = NoEntry /\ pauses[t] = NoPause
      /\ spawns = {} /\ doneCh = <<>> /\ agenda = <<>> /\ gen = 0
  BY DEF Init
<1>2. NoEntry.gen = 0 /\ ~NoEntry.spawned /\ NoPause.gen = 0
  BY DEF NoEntry, NoPause
<1>3. OpsOf(agenda) = {} /\ OpsOf(doneCh) = {}
  BY <1>1 DEF OpsOf
<1> QED BY <1>1, <1>2, <1>3 DEF GenInv, ActiveBacked, PauseBacked, IsActive

-----------------------------------------------------------------------------
(* Limits *)

(* The steps that can start a task. *)
LEMMA HandlerStarts ==
  ASSUME TypeOK, HandlerStep
  PROVE  \/ UNCHANGED <<gen, outcomes>>
         \/ DrainItem
         \/ \E t \in Tasks : ResumeTaskInner(t) \/ ResumeWithRow(t) \/ BoostStart(t)
<1>1. CASE CalmStep
  BY <1>1, CalmFacts DEF Calm
<1>2. CASE DrainQueue \/ DrainEnd
  BY <1>2 DEF DrainQueue, DrainEnd
<1>3. ASSUME NEW t \in Tasks, PauseTaskInner(t) \/ FinishPendingPause(t)
      PROVE  UNCHANGED <<gen, outcomes>>
  BY <1>3 DEF PauseTaskInner, FinishPendingPause
<1> QED BY <1>1, <1>2, <1>3, Zenon DEF HandlerStep, CalmStep

LEMMA CommandStarts ==
  ASSUME UserCommand
  PROVE  \/ UNCHANGED <<gen, outcomes>>
         \/ \E t \in Tasks, later \in BOOLEAN : CreateTask(t, later)
<1>1. ASSUME NEW S \in Batch, DeleteTasksBatch(S) PROVE UNCHANGED <<gen, outcomes>>
  BY <1>1 DEF DeleteTasksBatch
<1>2. ASSUME NEW q \in Queues, StartQueue(q) \/ StopQueue(q) PROVE UNCHANGED <<gen, outcomes>>
  BY <1>2 DEF StartQueue, StopQueue, batch_resume, batch_pause, actorVars
<1>3. ASSUME NEW t \in Tasks, PauseTask(t) \/ ResumeTask(t) \/ RestartTask(t)
      PROVE  UNCHANGED <<gen, outcomes>>
  BY <1>3 DEF PauseTask, ResumeTask, RestartTask, actorVars
<1>4. ASSUME NEW t \in Tasks, CancelTask(t) PROVE UNCHANGED <<gen, outcomes>>
  BY <1>4 DEF CancelTask, CancelledRow
<1>5. ASSUME NEW t \in Tasks, DeleteTask(t) PROVE UNCHANGED <<gen, outcomes>>
  BY <1>5 DEF DeleteTask
<1>6. ASSUME NEW t \in Tasks, SetPriorityTask(t) PROVE UNCHANGED <<gen, outcomes>>
  BY <1>6 DEF SetPriorityTask
<1>7. ASSUME NEW n \in Limits, SetMaxConcurrent(n) PROVE UNCHANGED <<gen, outcomes>>
  BY <1>7 DEF SetMaxConcurrent
<1> QED BY <1>1, <1>2, <1>3, <1>4, <1>5, <1>6, <1>7, Zenon DEF UserCommand

(* Without resolver plugins no worker answers, and without the Boost        *)
(* command no handler is about to start a target whatever the limits are.   *)
Plain == outcomes = {} /\ ~Starting(agenda)

LEMMA NoOutcomes ==
  ASSUME Resolvable = {}, TypeOK, outcomes = {}, [Next]_vars
  PROVE  outcomes' = {}
<1>1. ASSUME NEW t, do_resume_task(t) \/ do_start_task(t) PROVE UNCHANGED outcomes
  BY <1>1 DEF do_resume_task, do_start_task
<1>2. CASE HandlerStep
  <2>2. ASSUME DrainItem PROVE UNCHANGED outcomes
    BY <1>1, <2>2, Zenon DEF DrainItem
  <2>3. ASSUME NEW t \in Tasks, ResumeTaskInner(t) \/ ResumeWithRow(t) PROVE UNCHANGED outcomes
    <3>1. PICK s, o1, o2, o3, row : TryResume(t, s, o1, o2, o3, row)
      BY <2>3, Zenon DEF ResumeTaskInner, ResumeWithRow
    <3> QED BY <1>1, <3>1, Zenon DEF TryResume
  <2>4. ASSUME NEW t \in Tasks, BoostStart(t) PROVE UNCHANGED outcomes
    BY <1>1, <2>4, Zenon DEF BoostStart
  <2> QED BY <1>2, <2>2, <2>3, <2>4, HandlerStarts
<1>3. CASE UserCommand
  <2>1. ASSUME NEW t \in Tasks, NEW later \in BOOLEAN, CreateTask(t, later) PROVE UNCHANGED outcomes
    BY <1>1, <2>1, Zenon DEF CreateTask
  <2> QED BY <1>3, <2>1, CommandStarts
<1>4. CASE Message
  BY <1>4 DEF Message, OnTaskDone, OnRetry
<1>5. CASE (\E s \in spawns : Download(s)) \/ UNCHANGED vars
  BY <1>5 DEF Download, vars
<1>6. CASE Reboot
  BY <1>6 DEF Reboot
<1> QED BY <1>2, <1>3, <1>4, <1>5, <1>6 DEF Next

LEMMA PlainNext ==
  ASSUME Resolvable = {}, "boost" \notin Commands,
         TypeOK, AgendaInv(agenda), Plain, [Next]_vars
  PROVE  Plain'
<1>0. TypeOK' /\ outcomes' = {}
  BY TypeNext, NoOutcomes DEF Plain
<1>1. CASE HandlerStep
  BY <1>0, <1>1, HandlerAgenda DEF AgendaFlow, Starting, Plain
<1>2. CASE UserCommand
  <2>1. ~\E t \in Tasks : SetPriorityTask(t)
    BY DEF SetPriorityTask, Command
  <2>2. BeginStep
    BY <1>0, <1>2, <2>1, CommandAgenda, Zenon DEF UserCommand
  <2> QED BY <1>0, <2>2 DEF BeginStep, Opening, Starting, Plain
<1>3. CASE Message
  BY <1>0, <1>3, MessageAgenda DEF BeginStep, Opening, Starting, Plain
<1>4. CASE (\E s \in spawns : Download(s)) \/ UNCHANGED vars
  BY <1>4 DEF Download, vars, Plain
<1>5. CASE Reboot
  BY <1>5 DEF Reboot, Plain, Starting, OpsOf
<1> QED BY <1>1, <1>2, <1>3, <1>4, <1>5 DEF Next

(* The limits after a step, for a task it starts. *)
Within(t) ==
    /\ maxc = 0 \/ Cardinality({u \in Tasks : active'[u].gen # 0}) <= maxc
    /\ \/ QueueMax[QueueOf[t]] = 0
       \/ Cardinality({u \in Tasks : active'[u].gen # 0 /\ QueueOf[u] = QueueOf[t]})
            <= QueueMax[QueueOf[t]]

LEMMA OneMore ==
  ASSUME IsFiniteSet(Tasks), NEW A \in SUBSET Tasks, NEW B \in SUBSET Tasks, NEW t,
         A \subseteq B \cup {t}, NEW n \in Nat, Cardinality(B) < n
  PROVE  Cardinality(A) <= n
<1>1. IsFiniteSet(B)
  BY FS_Subset
<1>2. IsFiniteSet(B \cup {t}) /\ Cardinality(B \cup {t}) <= Cardinality(B) + 1
  <2>1. /\ IsFiniteSet(B \cup {t})
        /\ Cardinality(B \cup {t}) = IF t \in B THEN Cardinality(B) ELSE Cardinality(B) + 1
    BY <1>1, FS_AddElement, Zenon
  <2>2. Cardinality(B) \in Nat
    BY <1>1, FS_CardinalityType
  <2> QED BY <2>1, <2>2
<1>3. Cardinality(A) <= Cardinality(B \cup {t})
  BY <1>2, FS_Subset
<1>4. IsFiniteSet(A)
  BY FS_Subset
<1> QED BY <1>1, <1>2, <1>3, <1>4, FS_CardinalityType

LEMMA StartWithin ==
  ASSUME IsFiniteSet(Tasks), TypeOK, NEW t \in Tasks, StartMove(t),
         \/ maxc = 0
         \/ Cardinality(ActiveTasks \ {t}) < maxc,
         \/ QueueMax[QueueOf[t]] = 0
         \/ Cardinality({u \in ActiveTasks \ {t} : QueueOf[u] = QueueOf[t]}) < QueueMax[QueueOf[t]]
  PROVE  Within(t)
<1>1. \A u \in Tasks : u # t => active'[u] = active[u]
  BY DEF StartMove
<1>2. maxc \in Nat /\ QueueMax[QueueOf[t]] \in Nat
  BY QueueAssumption DEF TypeOK
<1>3. maxc = 0 \/ Cardinality({u \in Tasks : active'[u].gen # 0}) <= maxc
  <2>1. {u \in Tasks : active'[u].gen # 0} \subseteq (ActiveTasks \ {t}) \cup {t}
    BY <1>1 DEF ActiveTasks, IsActive
  <2>2. ActiveTasks \ {t} \in SUBSET Tasks /\ {u \in Tasks : active'[u].gen # 0} \in SUBSET Tasks
    BY DEF ActiveTasks
  <2> QED BY <1>2, <2>1, <2>2, OneMore
<1>4. \/ QueueMax[QueueOf[t]] = 0
      \/ Cardinality({u \in Tasks : active'[u].gen # 0 /\ QueueOf[u] = QueueOf[t]})
           <= QueueMax[QueueOf[t]]
  <2> DEFINE A == {u \in Tasks : active'[u].gen # 0 /\ QueueOf[u] = QueueOf[t]}
             B == {u \in ActiveTasks \ {t} : QueueOf[u] = QueueOf[t]}
  <2>1. A \subseteq B \cup {t} /\ A \in SUBSET Tasks /\ B \in SUBSET Tasks
    BY <1>1 DEF ActiveTasks, IsActive
  <2> HIDE DEF A, B
  <2>2. QueueMax[QueueOf[t]] = 0 \/ Cardinality(A) <= QueueMax[QueueOf[t]]
    <3>1. QueueMax[QueueOf[t]] = 0 \/ Cardinality(B) < QueueMax[QueueOf[t]]
      BY DEF B
    <3> QED BY <1>2, <2>1, <3>1, OneMore
  <2> QED BY <2>2 DEF A
<1> QED BY <1>3, <1>4 DEF Within

(* The room a command or drain_queue has looked for, of an idle task. *)
LEMMA RoomFacts ==
  ASSUME NEW t \in Tasks, ~IsActive(t), HasRoom(t)
  PROVE  /\ maxc = 0 \/ Cardinality(ActiveTasks \ {t}) < maxc
         /\ \/ QueueMax[QueueOf[t]] = 0
            \/ Cardinality({u \in ActiveTasks \ {t} : QueueOf[u] = QueueOf[t]}) < QueueMax[QueueOf[t]]
<1>1. ActiveTasks \ {t} = ActiveTasks
  BY DEF ActiveTasks
<1> QED BY <1>1 DEF HasRoom, has_capacity, has_queue_capacity

LEMMA CapacityStep ==
  ASSUME IsFiniteSet(Tasks), IInv, Plain, [Next]_vars
  PROVE  \A t \in Tasks : active[t].gen = 0 /\ active'[t].gen # 0 => Within(t)
<1> SUFFICES ASSUME NEW t \in Tasks, active[t].gen = 0, active'[t].gen # 0 PROVE Within(t)
  OBVIOUS
<1>0. TypeOK /\ TypeOK' /\ AgendaInv(agenda) /\ PauseInv /\ GenInv
  BY TypeNext DEF IInv
<1>1. ASSUME TablesMove, UNCHANGED gen PROVE FALSE
  <2>1. gen \in Nat /\ NoEntry.gen = 0
    BY <1>0 DEF TypeOK, NoEntry
  <2> QED BY <1>1, <2>1 DEF TablesMove
<1>2. ASSUME NEW u \in Tasks, do_resume_task(u) \/ do_start_task(u)
      PROVE  StartMove(u) /\ t = u
  <2>1. StartMove(u)
    BY <1>0, <1>2, StartMoves
  <2> QED BY <2>1 DEF StartMove
<1>3. CASE HandlerStep
  <2>1. ~UNCHANGED gen
    BY <1>0, <1>1, <1>3, GenHandler
  <2>2. CASE DrainItem
    <3> DEFINE d == Head(agenda)
               x == Head(d.rest)
    <3>1. Running("drainLoop") /\ d.rest # <<>> /\ has_capacity
      BY <2>2 DEF DrainItem, LoopEnds
    <3>2. d.rest \in Seq(Tasks)
      BY <1>0, <3>1, RunningFacts, OpFields
    <3>3. x \in Tasks
      BY <3>1, <3>2
    <3>4. do_resume_task(x) /\ ~IsActive(x) /\ has_queue_capacity(QueueOf[x])
      BY <2>1, <2>2 DEF DrainItem
    <3> HIDE DEF x, d
    <3>5. HasRoom(x) /\ StartMove(x) /\ t = x
      BY <1>2, <3>1, <3>3, <3>4 DEF HasRoom
    <3> QED BY <1>0, <3>3, <3>4, <3>5, RoomFacts, StartWithin
  <2>3. ASSUME NEW u \in Tasks, ResumeTaskInner(u) \/ ResumeWithRow(u) PROVE Within(t)
    <3>1. PICK s, o1, o2, o3, row : TryResume(u, s, o1, o2, o3, row)
      BY <2>3, Zenon DEF ResumeTaskInner, ResumeWithRow
    <3>2. /\ do_resume_task(u)
          /\ maxc = 0 \/ Cardinality(ActiveTasks \ {u}) < maxc
          /\ \/ QueueMax[QueueOf[u]] = 0
             \/ Cardinality({v \in ActiveTasks \ {u} : QueueOf[v] = QueueOf[u]}) < QueueMax[QueueOf[u]]
      BY <2>1, <3>1 DEF TryResume
    <3> QED BY <1>0, <1>2, <3>2, StartWithin
  <2>4. ASSUME NEW u \in Tasks, BoostStart(u) PROVE FALSE
    BY <1>0, <2>4, HeadInOps DEF BoostStart, Running, Plain, Starting
  <2> QED BY <1>0, <1>3, <2>1, <2>2, <2>3, <2>4, HandlerStarts
<1>4. CASE UserCommand
  <2>1. ~UNCHANGED gen
    BY <1>0, <1>1, <1>4, GenCommand
  <2>2. PICK u \in Tasks, later \in BOOLEAN : CreateTask(u, later)
    BY <1>4, <2>1, CommandStarts
  <2>3. do_start_task(u) /\ HasRoom(u) /\ db[u].status = "none"
    BY <2>1, <2>2 DEF CreateTask
  <2>4. ~IsActive(u)
    BY <1>0, <2>3 DEF PauseInv
  <2> QED BY <1>0, <1>2, <2>3, <2>4, RoomFacts, StartWithin
<1>5. CASE Message
  <2>1. UNCHANGED gen
    BY <1>5 DEF Message, OnTaskDone, OnRetry, actorVars, Plain
  <2> QED BY <1>0, <1>1, <1>5, <2>1, GenMessage
<1>6. CASE (\E s \in spawns : Download(s)) \/ UNCHANGED vars
  BY <1>6 DEF Download, actorVars, vars
<1>7. CASE Reboot
  BY <1>7 DEF Reboot, NoEntry
<1> QED BY <1>3, <1>4, <1>5, <1>6, <1>7 DEF Next

-----------------------------------------------------------------------------
(* The theorems *)

LEMMA Inductive == Spec => []IInv
<1>1. Init => IInv
  BY TypeInit, AgendaInit, PauseInit, GenInit DEF IInv
<1>2. IInv /\ [Next]_vars => IInv'
  BY TypeNext, AgendaNext, PauseNext, GenNext DEF IInv
<1> QED BY <1>1, <1>2, PTL DEF Spec

(* Tasks paused by a Boost are remembered only while a Boost is on: however *)
(* set_priority_task ends, clear_priority resumes and forgets them, so none *)
(* is left paused for a Boost that is over.                                 *)
THEOREM BoostForgetsNobody == Spec => []AutoPausedOwned
<1>1. IInv => AutoPausedOwned
  <2>1. Idle => ~Starting(agenda)
    BY DEF Idle, Starting, OpsOf
  <2> QED BY <2>1 DEF IInv, AutoOwned, AutoPausedOwned
<1> QED BY <1>1, Inductive, PTL

(* A resume waits for the pause flush: while a paused generation may still  *)
(* write its temporary file, the task is neither active nor in the queue    *)
(* from which drain_queue, a resolve result or a Boost could start it.      *)
THEOREM FlushExcludesStart == Spec => []PauseExclusive
<1>1. IInv => PauseExclusive
  BY DEF IInv, PauseInv
<1> QED BY <1>1, Inductive, PTL

(* No slot leaks: whoever holds an entry of active_tasks is still to report *)
(* back, a download by its TaskDone and a placeholder by its resolve worker.*)
THEOREM SlotsBacked == Spec => []ActiveBacked
<1>1. IInv => ActiveBacked
  BY DEF IInv
<1> QED BY <1>1, Inductive, PTL

(* No pause is forgotten: the generation a pending pause waits for has its  *)
(* TaskDone still to come, so finish_pending_pause will run for it.         *)
THEOREM PausesBacked == Spec => []PauseBacked
<1>1. IInv => PauseBacked
  BY DEF IInv
<1> QED BY <1>1, Inductive, PTL

(* The limits hold: without resolver plugins and Boost, which start a task  *)
(* without another look at them, a task enters active_tasks only within     *)
(* max_concurrent and the limit of its queue.                               *)
THEOREM LimitsRespected ==
  ASSUME IsFiniteSet(Tasks), Resolvable = {}, "boost" \notin Commands
  PROVE  Spec => CapacityRespected
<1>1. Init => Plain
  <2>1. OpsOf(<<>>) = {}
    BY DEF OpsOf
  <2> QED BY <2>1 DEF Init, Plain, Starting
<1>2. IInv /\ Plain /\ [Next]_vars => Plain'
  BY PlainNext DEF IInv
<1>3. IInv /\ Plain /\ [Next]_vars
        => [\A t \in Tasks : active[t].gen = 0 /\ active'[t].gen # 0 => Within(t)]_vars
  BY CapacityStep
<1> QED BY <1>1, <1>2, <1>3, Inductive, PTL DEF Spec, CapacityRespected, Within

-----------------------------------------------------------------------------
(* The line of waiting tasks *)

(* The queue while drain_queue goes through it: what it has kept so far,    *)
(* and what it has not looked at yet.                                       *)
Distinct(q) == \A i, j \in 1..Len(q) : q[i] = q[j] => i = j
Line == IF Running("drainLoop") THEN Head(agenda).kept \o Head(agenda).rest ELSE queue

(* A task waits once, and is then not active. *)
LineInv ==
    /\ Distinct(Line)
    /\ Running("drainLoop") => queue = <<>>
    /\ \A t \in QueuedTasks(Line) : ~IsActive(t) /\ db[t].status # "none"

LEMMA DistinctAppend ==
  ASSUME NEW T, NEW q \in Seq(T), NEW x \in T, Distinct(q), x \notin QueuedTasks(q)
  PROVE  Distinct(Append(q, x))
<1>1. /\ Len(q) \in Nat /\ Len(Append(q, x)) = Len(q) + 1
      /\ \A i \in 1..Len(q) : Append(q, x)[i] = q[i] /\ q[i] # x
      /\ Append(q, x)[Len(q) + 1] = x
  BY DEF QueuedTasks
<1>2. \A i \in 1..(Len(q) + 1) : i \in 1..Len(q) \/ i = Len(q) + 1
  BY <1>1
<1> DEFINE c == Append(q, x)
<1> HIDE DEF c
<1>3. Distinct(c)
  <2> SUFFICES ASSUME NEW i \in 1..(Len(q) + 1), NEW j \in 1..(Len(q) + 1), c[i] = c[j]
               PROVE  i = j
    BY <1>1 DEF c, Distinct
  <2> QED BY <1>1, <1>2 DEF c, Distinct
<1> QED BY <1>3 DEF c

LEMMA DistinctWithout ==
  ASSUME NEW T, NEW q \in Seq(T), NEW S, Distinct(q)
  PROVE  Distinct(Without(q, S))
<1> DEFINE f == CHOOSE g : g = [i \in 0..Len(q) |->
                                  IF i = 0 THEN <<>>
                                  ELSE IF q[i] \in S THEN g[i - 1] ELSE Append(g[i - 1], q[i])]
<1>1. Without(q, S) = f[Len(q)]
  BY DEF Without
<1>2. Retained(q, S, f, Len(q))
  <2>1. Len(q) \in Nat
    OBVIOUS
  <2>2. PICK h : Retained(q, S, h, Len(q))
    BY RetainedExists, <2>1
  <2>3. h = [i \in 0..Len(q) |->
               IF i = 0 THEN <<>> ELSE IF q[i] \in S THEN h[i - 1] ELSE Append(h[i - 1], q[i])]
    BY <2>2, Zenon DEF Retained, Retain
  <2>4. f = [i \in 0..Len(q) |->
               IF i = 0 THEN <<>> ELSE IF q[i] \in S THEN f[i - 1] ELSE Append(f[i - 1], q[i])]
    BY <2>3, Zenon
  <2> HIDE DEF f
  <2> QED BY <2>4, Zenon DEF Retained, Retain
<1> HIDE DEF f
<1>3. f[0] = <<>> /\ \A i \in 1..Len(q) : f[i] = Retain(q, S, i, f[i - 1])
  BY <1>2 DEF Retained
<1> DEFINE N == {n \in Nat : n <= Len(q) => /\ f[n] \in Seq(T) /\ Distinct(f[n])
                                            /\ QueuedTasks(f[n]) \subseteq {q[i] : i \in 1..n}}
<1>4. 0 \in N
  <2>1. 1..0 = {} /\ <<>> \in Seq(T) /\ Len(<<>>) = 0
    OBVIOUS
  <2>2. QueuedTasks(<<>>) = {} /\ Distinct(<<>>)
    BY <2>1 DEF QueuedTasks, Distinct
  <2> QED BY <1>3, <2>1, <2>2
<1>5. ASSUME NEW n \in N PROVE n + 1 \in N
  <2> SUFFICES ASSUME n + 1 <= Len(q)
               PROVE /\ f[n + 1] \in Seq(T) /\ Distinct(f[n + 1])
                     /\ QueuedTasks(f[n + 1]) \subseteq {q[i] : i \in 1..(n + 1)}
    OBVIOUS
  <2>1. /\ f[n] \in Seq(T) /\ Distinct(f[n]) /\ QueuedTasks(f[n]) \subseteq {q[i] : i \in 1..n}
        /\ f[n + 1] = Retain(q, S, n + 1, f[n]) /\ q[n + 1] \in T
    BY <1>3
  <2>2. {q[i] : i \in 1..(n + 1)} = {q[i] : i \in 1..n} \cup {q[n + 1]}
    OBVIOUS
  <2>3. CASE q[n + 1] \in S
    BY <2>1, <2>2, <2>3 DEF Retain
  <2>4. CASE q[n + 1] \notin S
    <3>1. q[n + 1] \notin QueuedTasks(f[n])
      BY <2>1 DEF Distinct
    <3>2. f[n + 1] = Append(f[n], q[n + 1])
      BY <2>1, <2>4 DEF Retain
    <3>3. /\ Append(f[n], q[n + 1]) \in Seq(T)
          /\ QueuedTasks(Append(f[n], q[n + 1])) = QueuedTasks(f[n]) \cup {q[n + 1]}
      BY <2>1, AppendFacts
    <3>4. Distinct(Append(f[n], q[n + 1]))
      BY <2>1, <3>1, DistinctAppend
    <3> QED BY <2>1, <2>2, <3>2, <3>3, <3>4
  <2> QED BY <2>3, <2>4
<1> HIDE DEF N
<1>6. N = Nat
  BY <1>4, <1>5, SetInduction DEF N
<1> QED BY <1>1, <1>6 DEF N

(* Going through a line moves its cut or takes the task at the cut out. *)
LEMMA LineFacts ==
  ASSUME NEW k \in Seq(Tasks), NEW r \in Seq(Tasks)
  PROVE  /\ k \o r \in Seq(Tasks) /\ <<>> \o r = r
         /\ QueuedTasks(k \o r) = QueuedTasks(k) \cup QueuedTasks(r)
         /\ r # <<>> => /\ Head(r) \in Tasks /\ Tail(r) \in Seq(Tasks)
                        /\ Append(k, Head(r)) \o Tail(r) = k \o r
                        /\ QueuedTasks(r) = {Head(r)} \cup QueuedTasks(Tail(r))
                        /\ Distinct(k \o r) => /\ Distinct(k \o Tail(r))
                                               /\ Head(r) \notin QueuedTasks(k \o Tail(r))
<1> DEFINE c == k \o r
<1>1. /\ c \in Seq(Tasks) /\ Len(k) \in Nat /\ Len(r) \in Nat /\ Len(c) = Len(k) + Len(r)
      /\ \A i \in 1..(Len(k) + Len(r)) : c[i] = IF i <= Len(k) THEN k[i] ELSE r[i - Len(k)]
  OBVIOUS
<1>2. <<>> \o r = r
  OBVIOUS
<1>3. QueuedTasks(c) = QueuedTasks(k) \cup QueuedTasks(r)
  <2> HIDE DEF c
  <2>1. ASSUME NEW i \in 1..Len(c) PROVE c[i] \in QueuedTasks(k) \cup QueuedTasks(r)
    <3>1. (i \in 1..Len(k) /\ c[i] = k[i]) \/ (i - Len(k) \in 1..Len(r) /\ c[i] = r[i - Len(k)])
      BY <1>1
    <3> QED BY <3>1 DEF QueuedTasks
  <2>2. ASSUME NEW i \in 1..Len(k) PROVE k[i] \in QueuedTasks(c)
    <3>1. i \in 1..Len(c) /\ c[i] = k[i]
      BY <1>1
    <3> QED BY <3>1 DEF QueuedTasks
  <2>3. ASSUME NEW i \in 1..Len(r) PROVE r[i] \in QueuedTasks(c)
    <3>1. /\ i + Len(k) \in 1..(Len(k) + Len(r)) /\ ~(i + Len(k) <= Len(k))
          /\ (i + Len(k)) - Len(k) = i
      BY <1>1
    <3>2. c[i + Len(k)] = r[i]
      BY <1>1, <3>1
    <3> QED BY <1>1, <3>1, <3>2 DEF QueuedTasks
  <2> QED BY <2>1, <2>2, <2>3 DEF QueuedTasks
<1>4. ASSUME r # <<>>
      PROVE  /\ Head(r) \in Tasks /\ Tail(r) \in Seq(Tasks)
             /\ Append(k, Head(r)) \o Tail(r) = k \o r
             /\ QueuedTasks(r) = {Head(r)} \cup QueuedTasks(Tail(r))
             /\ Distinct(k \o r) => /\ Distinct(k \o Tail(r))
                                    /\ Head(r) \notin QueuedTasks(k \o Tail(r))
  <2> DEFINE d == k \o Tail(r)
             n == Len(k)
             m == Len(r) - 1
  <2>1. /\ Head(r) \in Tasks /\ Tail(r) \in Seq(Tasks) /\ Head(r) = r[1]
        /\ Len(Tail(r)) = m /\ m \in Nat /\ \A i \in 1..m : Tail(r)[i] = r[i + 1]
    BY <1>4
  <2>2. Append(k, Head(r)) \o Tail(r) = k \o r
    BY <1>4
  <2>3. QueuedTasks(r) = {Head(r)} \cup QueuedTasks(Tail(r))
    <3>1. ASSUME NEW i \in 1..Len(r) PROVE r[i] \in {Head(r)} \cup QueuedTasks(Tail(r))
      <4>1. i = 1 \/ (i - 1 \in 1..m /\ Tail(r)[i - 1] = r[i])
        BY <2>1
      <4> QED BY <2>1, <4>1 DEF QueuedTasks
    <3>2. ASSUME NEW i \in 1..m PROVE i + 1 \in 1..Len(r) /\ Tail(r)[i] = r[i + 1]
      BY <2>1
    <3> QED BY <2>1, <3>1, <3>2 DEF QueuedTasks
  <2>4. /\ d \in Seq(Tasks) /\ Len(d) = n + m
        /\ \A i \in 1..(n + m) : d[i] = IF i <= n THEN k[i] ELSE Tail(r)[i - n]
    BY <2>1
  <2>5. c[n + 1] = Head(r) /\ n + 1 \in 1..Len(c)
    BY <1>1, <2>1
  <2> DEFINE p(i) == IF i <= n THEN i ELSE i + 1
  <2>6. \A i \in 1..(n + m) : p(i) \in 1..Len(c) /\ p(i) # n + 1 /\ c[p(i)] = d[i]
    <3> SUFFICES ASSUME NEW i \in 1..(n + m)
                 PROVE  p(i) \in 1..Len(c) /\ p(i) # n + 1 /\ c[p(i)] = d[i]
      OBVIOUS
    <3> HIDE DEF c, d
    <3>1. CASE i <= n
      BY <1>1, <2>1, <2>4, <3>1
    <3>2. CASE ~(i <= n)
      <4>1. i - n \in 1..m /\ i + 1 \in 1..(Len(k) + Len(r)) /\ ~(i + 1 <= n)
        BY <1>1, <2>1, <3>2
      <4>2. c[i + 1] = r[(i + 1) - n] /\ d[i] = Tail(r)[i - n] /\ Tail(r)[i - n] = r[(i - n) + 1]
        BY <1>1, <2>1, <2>4, <3>2, <4>1
      <4> QED BY <1>1, <3>2, <4>1, <4>2
    <3> QED BY <3>1, <3>2
  <2>7. \A i, j \in 1..(n + m) : p(i) = p(j) => i = j
    BY <1>1, <2>1
  <2> HIDE DEF c, d, p
  <2>8. ASSUME Distinct(c) PROVE Distinct(d) /\ Head(r) \notin QueuedTasks(d)
    <3>1. ASSUME NEW i \in 1..(n + m), NEW j \in 1..(n + m), d[i] = d[j] PROVE i = j
      BY <2>6, <2>7, <2>8, <3>1 DEF Distinct
    <3>2. ASSUME NEW i \in 1..(n + m), d[i] = Head(r) PROVE FALSE
      BY <2>5, <2>6, <2>8, <3>2 DEF Distinct
    <3> QED BY <2>4, <3>1, <3>2 DEF Distinct, QueuedTasks
  <2> QED BY <2>1, <2>2, <2>3, <2>8 DEF c, d
<1> QED BY <1>1, <1>2, <1>3, <1>4 DEF c

(* Only the steps of the loop itself run while drain_queue is in it. *)
LEMMA LoopSteps ==
  ASSUME HandlerStep, Running("drainLoop")
  PROVE  DrainEnd \/ DrainItem
<1>1. ~(LoadBatch \/ BatchResumed \/ ReapBatch \/ EraseBatch \/ DrainQueue \/ sync_queue_occupancy
        \/ ClearPriority \/ EndSet)
  BY DEF LoadBatch, BatchResumed, ReapBatch, EraseBatch, DrainQueue, sync_queue_occupancy,
         ClearPriority, EndSet, Running
<1>2. ASSUME NEW t \in Tasks,
             \/ PauseTaskInner(t) \/ GuardBoost(t) \/ ResumeTaskInner(t)
             \/ FinishPendingPause(t) \/ AutoRetry(t) \/ ResumeBoosted(t)
             \/ BoostCollect(t) \/ AutoPause(t)
      PROVE  FALSE
  BY <1>2 DEF PauseTaskInner, GuardBoost, ResumeTaskInner, FinishPendingPause, AutoRetry,
              ResumeBoosted, BoostCollect, AutoPause, Running
<1>3. ASSUME NEW t \in Tasks,
             \/ BoostStart(t) \/ BoostCheck(t)
             \/ ReapHandle(t) \/ EraseTask(t) \/ ResetTask(t)
             \/ PauseBatchItem(t) \/ ResumeWithRow(t) \/ ForgetDeleted(t)
      PROVE  FALSE
  BY <1>3 DEF BoostStart, BoostCheck, ReapHandle, EraseTask, ResetTask, PauseBatchItem,
              ResumeWithRow, ForgetDeleted, Running
<1> QED BY <1>1, <1>2, <1>3, Zenon DEF HandlerStep

(* What a step outside the loop may do to the line. *)
LEMMA LineFramed ==
  ASSUME LineInv, ~Running("drainLoop"), ~Running("drainLoop")', Distinct(queue'),
         \A t \in QueuedTasks(queue') :
            \/ /\ t \in QueuedTasks(queue)
               /\ active'[t].gen # 0 => active[t].gen # 0
               /\ db'[t].status = "none" => db[t].status = "none"
            \/ active'[t].gen = 0 /\ db'[t].status # "none"
  PROVE  LineInv'
<1>1. Line = queue /\ Line' = queue'
  BY DEF Line
<1>2. \A t \in QueuedTasks(queue') : active'[t].gen = 0 /\ db'[t].status # "none"
  BY <1>1 DEF LineInv, IsActive
<1> QED BY <1>1, <1>2 DEF LineInv, IsActive

(* Nobody joins the line and nobody in it starts. *)
LEMMA LineShrinks ==
  ASSUME TypeOK, LineInv, ~Running("drainLoop"), ~Running("drainLoop")', SameRows,
         queue' = queue \/ \E S : queue' = Without(queue, S),
         \A t \in Tasks : active'[t].gen # 0 => active[t].gen # 0
  PROVE  LineInv'
<1>1. queue \in Seq(Tasks) /\ Distinct(queue)
  BY DEF TypeOK, LineInv, Line
<1>2. Distinct(queue') /\ QueuedTasks(queue') \subseteq QueuedTasks(queue)
  BY <1>1, DistinctWithout, WithoutFacts
<1>3. QueuedTasks(queue) \subseteq Tasks
  BY <1>1 DEF QueuedTasks
<1> QED BY <1>2, <1>3, LineFramed DEF SameRows

(* A start is about one task. *)
LEMMA StartsOne ==
  ASSUME TypeOK, NEW t \in Tasks, do_resume_task(t) \/ do_start_task(t)
  PROVE  \A u \in Tasks : u # t => active'[u] = active[u]
BY StartMoves DEF StartMove

(* drain_queue moves the cut, or takes the task at the cut out and starts it. *)
LEMMA DrainMoves ==
  ASSUME TypeOK, AgendaInv(agenda), LineInv, DrainQueue \/ DrainEnd \/ DrainItem
  PROVE  /\ UNCHANGED db /\ (Running("drainLoop")' => queue' = <<>>)
         /\ \/ Line' = Line /\ UNCHANGED active
            \/ \E x \in Tasks :
                 /\ do_resume_task(x) /\ ~IsActive(x)
                 /\ Line' \in Seq(Tasks) /\ Distinct(Line') /\ x \notin QueuedTasks(Line')
                 /\ QueuedTasks(Line) = {x} \cup QueuedTasks(Line')
<1>1. queue \in Seq(Tasks)
  BY DEF TypeOK
<1>2. CASE DrainQueue
  <2>1. /\ Running("drainLoop")' /\ queue' = <<>> /\ UNCHANGED <<active, db>>
        /\ Head(agenda').kept = <<>> /\ Head(agenda').rest = queue
    BY <1>2, LoudDrain DEF DrainQueue, Running
  <2>2. ~Running("drainLoop")
    BY <1>2 DEF DrainQueue, Running
  <2>3. Line' = queue /\ Line = queue
    BY <1>1, <2>1, <2>2, LineFacts DEF Line
  <2> QED BY <2>1, <2>3
<1> DEFINE d == Head(agenda)
<1>3. ASSUME DrainEnd \/ DrainItem
      PROVE  /\ d.rest \in Seq(Tasks) /\ d.kept \in Seq(Tasks) /\ Running("drainLoop")
             /\ Line = d.kept \o d.rest
  <2>1. d \in Op /\ d.op = "drainLoop" /\ Running("drainLoop")
    BY <1>3, RunningFacts DEF DrainEnd, DrainItem
  <2> QED BY <2>1, OpFields DEF Line
<1>4. CASE DrainEnd
  <2>1. queue' = d.kept \o d.rest /\ UNCHANGED <<active, db>>
    BY <1>4 DEF DrainEnd
  <2>2. ~Running("drainLoop")'
    BY <1>4, QuietActions, QuietFacts
  <2> QED BY <1>3, <1>4, <2>1, <2>2 DEF Line
<1>5. CASE DrainItem
  <2> DEFINE x == Head(d.rest)
             keep == ~IsActive(x) /\ ~has_queue_capacity(QueueOf[x])
  <2>1. d.rest # <<>> /\ UNCHANGED <<queue, db>>
    BY <1>5 DEF DrainItem, LoopEnds
  <2>0. d.rest \in Seq(Tasks) /\ d.kept \in Seq(Tasks) /\ Line = d.kept \o d.rest
    BY <1>3, <1>5
  <2>2. /\ x \in Tasks /\ Tail(d.rest) \in Seq(Tasks)
        /\ Append(d.kept, x) \o Tail(d.rest) = d.kept \o d.rest
        /\ QueuedTasks(d.rest) = {x} \cup QueuedTasks(Tail(d.rest))
    <3>1. d.rest # <<>> /\ d.rest \in Seq(Tasks) /\ d.kept \in Seq(Tasks)
      BY <2>0, <2>1
    <3> HIDE DEF d
    <3> QED BY <3>1, LineFacts
  <2>3. /\ Running("drainLoop")'
        /\ Head(agenda').rest = Tail(d.rest)
    BY <1>5, LoudDrain DEF Running
  <2>4. Head(agenda').kept = IF keep THEN Append(d.kept, x) ELSE d.kept
    BY <1>5 DEF DrainItem, Continue
  <2>5. Line' = Head(agenda').kept \o Tail(d.rest) /\ queue' = <<>>
    BY <1>3, <1>5, <2>1, <2>3 DEF Line, LineInv
  <2>6. QueuedTasks(Line) = QueuedTasks(d.kept) \cup QueuedTasks(d.rest)
    <3> HIDE DEF d
    <3> QED BY <2>0, LineFacts
  <2>7. ~IsActive(x)
    BY <2>2, <2>6 DEF LineInv
  <2>8. CASE keep
    <3>1. UNCHANGED active
      BY <1>5, <2>8 DEF DrainItem
    <3> HIDE DEF x, keep
    <3> QED BY <1>3, <1>5, <2>1, <2>2, <2>4, <2>5, <2>8, <3>1
  <2>9. CASE ~keep
    <3>1. do_resume_task(x)
      BY <1>5, <2>7, <2>9 DEF DrainItem
    <3>2. Line' = d.kept \o Tail(d.rest)
      BY <2>4, <2>5, <2>9
    <3>3. Distinct(d.kept \o Tail(d.rest)) /\ x \notin QueuedTasks(d.kept \o Tail(d.rest))
      <4>1. Distinct(d.kept \o d.rest)
        BY <1>3, <1>5 DEF LineInv
      <4> QED BY <1>3, <1>5, <2>1, <4>1, LineFacts
    <3>4. /\ d.kept \o Tail(d.rest) \in Seq(Tasks)
          /\ QueuedTasks(d.kept \o Tail(d.rest)) = QueuedTasks(d.kept) \cup QueuedTasks(Tail(d.rest))
      BY <1>3, <1>5, <2>2, LineFacts, ZenonT(30)
    <3> HIDE DEF x, keep, d
    <3>5. QueuedTasks(Line) = {x} \cup QueuedTasks(Line')
      BY <2>2, <2>6, <3>2, <3>4
    <3> QED BY <2>1, <2>2, <2>5, <2>7, <3>1, <3>2, <3>3, <3>4, <3>5
  <2> QED BY <2>8, <2>9
<1> QED BY <1>2, <1>4, <1>5

LEMMA LineDrain ==
  ASSUME TypeOK, AgendaInv(agenda), LineInv, DrainQueue \/ DrainEnd \/ DrainItem
  PROVE  LineInv'
<1>1. UNCHANGED db /\ (Running("drainLoop")' => queue' = <<>>)
  BY DrainMoves
<1>2. CASE Line' = Line /\ UNCHANGED active
  BY <1>1, <1>2 DEF LineInv, IsActive
<1>3. ASSUME NEW x \in Tasks, do_resume_task(x), Line' \in Seq(Tasks), Distinct(Line'),
             x \notin QueuedTasks(Line'), QueuedTasks(Line) = {x} \cup QueuedTasks(Line')
      PROVE  LineInv'
  <2>1. QueuedTasks(Line') \subseteq Tasks
    BY <1>3 DEF QueuedTasks
  <2>2. \A t \in QueuedTasks(Line') : active'[t].gen = 0 /\ db'[t].status # "none"
    BY <1>1, <1>3, <2>1, StartsOne DEF LineInv, IsActive
  <2> QED BY <1>1, <1>3, <2>2 DEF LineInv, IsActive
<1> QED BY <1>2, <1>3, DrainMoves

LEMMA LineTryResume ==
  ASSUME TypeOK, TypeOK', AgendaInv(agenda), LineInv, NEW t \in Tasks,
         ResumeTaskInner(t) \/ ResumeWithRow(t)
  PROVE  LineInv'
<1>0. ~Running("drainLoop") /\ ~Running("drainLoop")'
  <2>1. ~Running("drainLoop")
    BY DEF ResumeTaskInner, ResumeWithRow, Running
  <2> QED BY <2>1, QuietActions, QuietFacts
<1>1. PICK s, o1, o2, o3, row : /\ TryResume(t, s, o1, o2, o3, row)
                                /\ row = db \/ row = UpdateStatus(t, "pending", "")
  <2>1. CASE ResumeTaskInner(t)
    <3>1. TryResume(t, db[t].status, <<>>, <<Drain, Sync>>, <<Sync>>,
                    IF db[t].status = "completed" THEN db ELSE UpdateStatus(t, "pending", ""))
      BY <2>1 DEF ResumeTaskInner
    <3>2. \A c : (IF c THEN db ELSE UpdateStatus(t, "pending", "")) \in {db, UpdateStatus(t, "pending", "")}
      OBVIOUS
    <3> QED BY <3>1, <3>2, Zenon
  <2>2. CASE ResumeWithRow(t)
    BY <2>2, Zenon DEF ResumeWithRow
  <2> QED BY <2>1, <2>2
<1>2. SameRows
  <2>1. \A u \in Tasks : UpdateStatus(t, "pending", "")[u].status = "none" <=> db[u].status = "none"
    BY UpdateStatusFacts DEF Live
  <2>2. db' = db \/ db' = row
    BY <1>1, Zenon DEF TryResume
  <2> QED BY <1>1, <2>1, <2>2 DEF SameRows
<1>3. /\ active \in [Tasks -> [gen : Nat, spawned : BOOLEAN]]
      /\ queue \in Seq(Tasks) /\ QueuedTasks(queue) \subseteq Tasks /\ Distinct(queue)
  <2>1. queue \in Seq(Tasks) /\ active \in [Tasks -> [gen : Nat, spawned : BOOLEAN]]
    BY DEF TypeOK
  <2>2. QueuedTasks(queue) \subseteq Tasks
    BY <2>1 DEF QueuedTasks
  <2> QED BY <1>0, <2>1, <2>2 DEF LineInv, Line
<1>4. CASE UNCHANGED queue /\ (UNCHANGED active \/ active' = [active EXCEPT ![t] = NoEntry])
  <2>1. \A u \in Tasks : active'[u].gen # 0 => active[u].gen # 0
    BY <1>3, <1>4 DEF NoEntry
  <2> QED BY <1>0, <1>2, <1>4, <2>1, LineShrinks
<1>5. CASE do_resume_task(t) /\ UNCHANGED queue /\ ~AlreadyQueued(t)
  <2>1. \A u \in QueuedTasks(queue') : active'[u] = active[u]
    BY <1>3, <1>5, StartsOne DEF AlreadyQueued
  <2> QED BY <1>0, <1>2, <1>3, <1>5, <2>1, LineFramed DEF SameRows
<1>6. CASE /\ active' = [active EXCEPT ![t] = NoEntry] /\ ~AlreadyQueued(t)
           /\ HasRow(t) /\ queue' = Append(queue, t)
  <2>1. Distinct(queue') /\ QueuedTasks(queue') = QueuedTasks(queue) \cup {t}
    BY <1>3, <1>6, DistinctAppend, AppendFacts DEF AlreadyQueued
  <2>2. active'[t].gen = 0 /\ \A u \in Tasks : active'[u].gen # 0 => active[u].gen # 0
    BY <1>3, <1>6 DEF NoEntry
  <2>3. db'[t].status # "none"
    BY <1>2, <1>6 DEF SameRows, HasRow, Live
  <2> QED BY <1>0, <1>2, <1>3, <2>1, <2>2, <2>3, LineFramed DEF SameRows
<1> QED BY <1>1, <1>4, <1>5, <1>6, Zenon DEF TryResume

LEMMA LineHandler ==
  ASSUME TypeOK, TypeOK', AgendaInv(agenda), LineInv, HandlerStep,
         \A t \in Tasks : ~BoostStart(t)
  PROVE  LineInv'
<1>1. CASE DrainQueue \/ DrainEnd \/ DrainItem
  BY <1>1, LineDrain
<1> SUFFICES ASSUME ~DrainQueue, ~DrainEnd, ~DrainItem PROVE LineInv'
  BY <1>1
<1>0. ~Running("drainLoop") /\ ~Running("drainLoop")'
  BY LoopSteps, HandlerAgenda
<1>2. CASE CalmStep
  <2>1. UNCHANGED <<queue, active>> /\ SameRows
    BY <1>2, CalmFacts DEF Calm
  <2> QED BY <1>0, <2>1, LineShrinks
<1>3. ASSUME NEW t \in Tasks, PauseTaskInner(t) PROVE LineInv'
  <2>1. SameRows
    <3>1. \A u \in Tasks : UpdateStatus(t, "paused", "")[u].status = "none" <=> db[u].status = "none"
      BY UpdateStatusFacts DEF Live
    <3>2. db' = db \/ db' = UpdateStatus(t, "paused", "")
      BY <1>3, Zenon DEF PauseTaskInner
    <3> QED BY <3>1, <3>2 DEF SameRows
  <2>2. queue' = queue \/ queue' = Without(queue, {t})
    BY <1>3 DEF PauseTaskInner, Unqueue
  <2>3. active' = active \/ active' = [active EXCEPT ![t] = NoEntry]
    BY <1>3 DEF PauseTaskInner
  <2>4. \A u \in Tasks : active'[u].gen # 0 => active[u].gen # 0
    <3>1. active \in [Tasks -> [gen : Nat, spawned : BOOLEAN]]
      BY DEF TypeOK
    <3>2. ASSUME active' = [active EXCEPT ![t] = NoEntry], NEW u \in Tasks, active'[u].gen # 0
          PROVE  active[u].gen # 0
      BY <3>1, <3>2 DEF NoEntry
    <3> QED BY <2>3, <3>2
  <2> QED BY <1>0, <2>1, <2>2, <2>4, LineShrinks
<1>4. ASSUME NEW t \in Tasks, ResumeTaskInner(t) \/ ResumeWithRow(t) PROVE LineInv'
  BY <1>4, LineTryResume
<1>5. ASSUME NEW t \in Tasks, FinishPendingPause(t) PROVE LineInv'
  <2>1. UNCHANGED <<queue, active>> /\ SameRows
    BY <1>5 DEF FinishPendingPause, SameRows
  <2> QED BY <1>0, <2>1, LineShrinks
<1> QED BY <1>2, <1>3, <1>4, <1>5, Zenon DEF HandlerStep, CalmStep

LEMMA LineCommand ==
  ASSUME TypeOK, TypeOK', PauseInv, LineInv, UserCommand,
         ~\E t \in Tasks : SetPriorityTask(t)
  PROVE  LineInv'
<1>0. ~\E t \in Tasks : SetPriorityTask(t)
  OBVIOUS
<1>1. /\ ~Running("drainLoop") /\ ~Running("drainLoop")'
  <2>1. BeginStep
    BY <1>0, CommandAgenda, Zenon DEF UserCommand
  <2> QED BY <2>1, BeginFacts DEF BeginStep, Idle, Running
<1>2. /\ active \in [Tasks -> [gen : Nat, spawned : BOOLEAN]] /\ queue \in Seq(Tasks)
  BY DEF TypeOK
<1>3. ASSUME NEW S \in Batch, DeleteTasksBatch(S) PROVE LineInv'
  <2>1. queue' = Without(queue, S) /\ SameRows
    BY <1>3 DEF DeleteTasksBatch, SameRows
  <2>2. \A t \in Tasks : active'[t].gen # 0 => active[t].gen # 0
    BY <1>3 DEF DeleteTasksBatch, NoEntry
  <2> QED BY <1>1, <2>1, <2>2, LineShrinks
<1>4. ASSUME NEW q \in Queues, StartQueue(q) PROVE LineInv'
  <2>1. UNCHANGED <<queue, active>> /\ SameRows
    BY <1>4 DEF StartQueue, batch_resume, actorVars, SameRows
  <2> QED BY <1>1, <2>1, LineShrinks
<1>5. ASSUME NEW q \in Queues, StopQueue(q) PROVE LineInv'
  <2>1. PICK S : batch_pause(S)
    BY <1>5 DEF StopQueue
  <2>2. queue' = Without(queue, S) /\ UNCHANGED active
    BY <2>1 DEF batch_pause
  <2>3. SameRows
    <3>1. db' = BatchStatus(S \cap QueuedTasks(queue), "paused")
      BY <2>1 DEF batch_pause, BatchStatus
    <3> QED BY <3>1, BatchStatusFacts DEF SameRows, Live
  <2> QED BY <1>1, <2>2, <2>3, LineShrinks
<1>6. ASSUME NEW t \in Tasks, NEW later \in BOOLEAN, CreateTask(t, later) PROVE LineInv'
  <2>1. db[t].status = "none" /\ ~IsActive(t)
    BY <1>6 DEF CreateTask, PauseInv
  <2>2. t \notin QueuedTasks(queue) /\ Distinct(queue) /\ QueuedTasks(queue) \subseteq Tasks
    <3>1. QueuedTasks(queue) \subseteq Tasks
      BY <1>2 DEF QueuedTasks
    <3> QED BY <1>1, <2>1, <3>1 DEF LineInv, Line
  <2>3. db'[t].status # "none" /\ \A u \in Tasks : u # t => db'[u] = db[u]
    BY <1>6 DEF CreateTask, TypeOK
  <2>4. CASE do_start_task(t) /\ UNCHANGED queue
    <3>1. \A u \in QueuedTasks(queue') : active'[u] = active[u] /\ db'[u] = db[u]
      BY <2>2, <2>3, <2>4, StartsOne
    <3> QED BY <1>1, <2>2, <2>4, <3>1, LineFramed
  <2>5. CASE queue' = Append(queue, t) /\ UNCHANGED active
    <3>1. Distinct(queue') /\ QueuedTasks(queue') = QueuedTasks(queue) \cup {t}
      BY <1>2, <2>2, <2>5, DistinctAppend, AppendFacts
    <3>2. \A u \in QueuedTasks(queue) : db'[u] = db[u]
      BY <2>2, <2>3
    <3> QED BY <1>1, <2>1, <2>3, <2>5, <3>1, <3>2, LineFramed DEF IsActive
  <2>6. CASE UNCHANGED <<active, queue>>
    <3>1. \A u \in QueuedTasks(queue) : db'[u] = db[u]
      BY <2>2, <2>3
    <3> QED BY <1>1, <2>2, <2>6, <3>1, LineFramed
  <2> QED BY <1>6, <2>4, <2>5, <2>6 DEF CreateTask
<1>7. ASSUME NEW t \in Tasks, PauseTask(t) \/ ResumeTask(t) \/ RestartTask(t) PROVE LineInv'
  <2>1. UNCHANGED <<queue, active>> /\ SameRows
    BY <1>7 DEF PauseTask, ResumeTask, RestartTask, actorVars, SameRows
  <2> QED BY <1>1, <2>1, LineShrinks
<1>8. ASSUME NEW t \in Tasks, CancelTask(t) \/ DeleteTask(t) PROVE LineInv'
  <2>1. queue' = Without(queue, {t}) /\ active' = [active EXCEPT ![t] = NoEntry]
    BY <1>8 DEF CancelTask, CancelledRow, DeleteTask, Unqueue
  <2>2. UNCHANGED db \/ db' = UpdateStatus(t, "error", "cancelled")
    BY <1>8 DEF CancelTask, CancelledRow, DeleteTask
  <2>3. SameRows
    <3>1. \A u \in Tasks : UpdateStatus(t, "error", "cancelled")[u].status = "none" <=> db[u].status = "none"
      BY UpdateStatusFacts DEF Live
    <3> QED BY <2>2, <3>1 DEF SameRows
  <2>4. \A u \in Tasks : active'[u].gen # 0 => active[u].gen # 0
    BY <1>2, <2>1 DEF NoEntry
  <2> QED BY <1>1, <2>1, <2>3, <2>4, LineShrinks
<1>9. ASSUME NEW n \in Limits, SetMaxConcurrent(n) PROVE LineInv'
  <2>1. UNCHANGED <<queue, active>> /\ SameRows
    BY <1>9 DEF SetMaxConcurrent, SameRows
  <2> QED BY <1>1, <2>1, LineShrinks
<1> QED BY <1>0, <1>3, <1>4, <1>5, <1>6, <1>7, <1>8, <1>9, Zenon DEF UserCommand

LEMMA DownloadRows ==
  ASSUME TypeOK, NEW s \in spawns, Download(s)
  PROVE  /\ UNCHANGED <<actorVars, agenda, outcomes>>
         /\ UNCHANGED db \/ \E st \in Live, e \in {"", "retriable", "fatal"} :
                               db' = UpdateStatus(s.task, st, e)
         /\ SameRows
<1>1. UNCHANGED <<actorVars, agenda, outcomes>>
  BY DEF Download
<1>2. UNCHANGED db \/ \E st \in Live, e \in {"", "retriable", "fatal"} : db' = UpdateStatus(s.task, st, e)
  BY DEF Download, WritePreparing, Admit, WriteDownloading, Complete, Fail, Stop, SendTaskDone, Live
<1>3. s.task \in Tasks
  BY DEF TypeOK, Spawn
<1>4. ASSUME NEW st \in Live, NEW e \in {"", "retriable", "fatal"}, db' = UpdateStatus(s.task, st, e)
      PROVE  SameRows
  <2>1. PICK t \in Tasks : t = s.task
    BY <1>3
  <2>2. st \in Live \cup {"deleted"} /\ e \in {"", "cancelled", "retriable", "fatal"}
    OBVIOUS
  <2>3. \A u \in Tasks : UpdateStatus(t, st, e)[u].status = "none" <=> db[u].status = "none"
    BY <2>2, UpdateStatusFacts, Zenon
  <2> QED BY <1>4, <2>1, <2>3 DEF SameRows
<1>5. UNCHANGED db => SameRows
  BY DEF SameRows
<1> QED BY <1>1, <1>2, <1>4, <1>5

LEMMA LineStep ==
  ASSUME IInv, outcomes = {}, LineInv, [Next]_vars,
         \A t \in Tasks : ~BoostStart(t) /\ ~SetPriorityTask(t)
  PROVE  LineInv'
<1>0. TypeOK /\ TypeOK' /\ AgendaInv(agenda) /\ PauseInv
  BY TypeNext DEF IInv
<1>1. active \in [Tasks -> [gen : Nat, spawned : BOOLEAN]]
  BY <1>0 DEF TypeOK
<1>2. CASE HandlerStep
  BY <1>0, <1>2, LineHandler
<1>3. CASE UserCommand
  BY <1>0, <1>3, LineCommand
<1>4. CASE Message
  <2>1. ~Running("drainLoop") /\ ~Running("drainLoop")'
    BY <1>0, <1>4, MessageAgenda, BeginFacts DEF BeginStep, Idle, Running
  <2>2. UNCHANGED <<queue, db>>
    BY <1>4 DEF Message, OnTaskDone, OnRetry, actorVars
  <2>3. UNCHANGED active \/ active' = [active EXCEPT ![Head(doneCh).task] = NoEntry]
    BY <1>4, Zenon DEF Message, OnTaskDone, OnRetry, actorVars
  <2>4. \A u \in Tasks : active'[u].gen # 0 => active[u].gen # 0
    BY <1>1, <2>3 DEF NoEntry
  <2> QED BY <1>0, <2>1, <2>2, <2>4, LineShrinks DEF SameRows
<1>5. ASSUME NEW s \in spawns, Download(s) PROVE LineInv'
  <2>1. UNCHANGED <<queue, active, agenda>> /\ SameRows
    BY <1>0, <1>5, DownloadRows DEF actorVars
  <2>2. Line' = Line /\ Running("drainLoop")' = Running("drainLoop")
    BY <2>1 DEF Line, Running
  <2>3. QueuedTasks(Line) \subseteq Tasks
    <3>1. CASE Running("drainLoop")
      <4>1. Head(agenda).kept \in Seq(Tasks) /\ Head(agenda).rest \in Seq(Tasks)
        BY <1>0, <3>1, RunningFacts, OpFields
      <4>2. Line \in Seq(Tasks)
        BY <3>1, <4>1, LineFacts DEF Line
      <4> QED BY <4>2 DEF QueuedTasks
    <3>2. CASE ~Running("drainLoop")
      <4>1. Line \in Seq(Tasks)
        BY <1>0, <3>2 DEF Line, TypeOK
      <4> QED BY <4>1 DEF QueuedTasks
    <3> QED BY <3>1, <3>2
  <2> QED BY <2>1, <2>2, <2>3 DEF LineInv, IsActive, SameRows
<1>6. CASE Reboot
  <2>1. queue' = <<>> /\ agenda' = <<>>
    BY <1>6 DEF Reboot
  <2>2. Line' = <<>>
    BY <2>1 DEF Line, Running
  <2> QED BY <2>1, <2>2 DEF LineInv, QueuedTasks, Distinct, Running
<1>7. CASE UNCHANGED vars
  <2>1. UNCHANGED <<queue, active, agenda, db>>
    BY <1>7 DEF vars
  <2>2. Line' = Line
    BY <2>1 DEF Line, Running
  <2> QED BY <2>1, <2>2 DEF LineInv, IsActive, Running
<1> QED BY <1>2, <1>3, <1>4, <1>5, <1>6, <1>7 DEF Next

LEMMA LineNext ==
  ASSUME "boost" \notin Commands, IInv, Plain, LineInv, [Next]_vars
  PROVE  LineInv'
<1>1. TypeOK
  BY DEF IInv
<1>2. ASSUME NEW t \in Tasks PROVE ~BoostStart(t) /\ ~SetPriorityTask(t)
  <2>1. ~BoostStart(t)
    BY <1>1, HeadInOps DEF BoostStart, Running, Plain, Starting
  <2>2. ~SetPriorityTask(t)
    BY DEF SetPriorityTask, Command
  <2> QED BY <2>1, <2>2
<1> QED BY <1>2, LineStep DEF Plain

-----------------------------------------------------------------------------
(* The queue is served *)

(* Without Boost the named queues stay within their limits.                 *)
QueuesWithin ==
    \A q \in Queues : \/ QueueMax[q] = 0
                      \/ Cardinality({t \in ActiveTasks : QueueOf[t] = q}) <= QueueMax[q]

(* What the drain loop has kept has no room in its queue.                   *)
KeptFull ==
    Running("drainLoop") =>
      \A t \in QueuedTasks(Head(agenda).kept) : ~has_queue_capacity(QueueOf[t])

(* A drain is to come: these operations end in one.                         *)
Draining(o) == o.op \in {"drain", "finish", "reap", "erase", "reapBatch", "eraseBatch"}
DrainDue == Running("drainLoop") \/ \E o \in OpsOf(agenda) : Draining(o)
Settled == \A t \in QueuedTasks(queue) : ~HasRoom(t)

ServedInv == LineInv /\ QueuesWithin /\ KeptFull /\ (DrainDue \/ Settled)

LEMMA QueuesWithinNext ==
  ASSUME IsFiniteSet(Tasks), IInv, Plain, QueuesWithin, [Next]_vars
  PROVE  QueuesWithin'
<1>1. \A t \in Tasks : active[t].gen = 0 /\ active'[t].gen # 0 => Within(t)
  BY CapacityStep
<1> SUFFICES ASSUME NEW q \in Queues, QueueMax[q] # 0
             PROVE  Cardinality({t \in Tasks : active'[t].gen # 0 /\ QueueOf[t] = q}) <= QueueMax[q]
  <2>1. ActiveTasks' = {t \in Tasks : active'[t].gen # 0}
    BY DEF ActiveTasks, IsActive
  <2>2. ASSUME NEW q \in Queues
        PROVE  {t \in ActiveTasks' : QueueOf[t] = q} = {t \in Tasks : active'[t].gen # 0 /\ QueueOf[t] = q}
    BY <2>1
  <2> QED BY <2>2 DEF QueuesWithin
<1> DEFINE A == {t \in Tasks : active'[t].gen # 0 /\ QueueOf[t] = q}
           B == {t \in ActiveTasks : QueueOf[t] = q}
<1>2. CASE \E t \in Tasks : active[t].gen = 0 /\ active'[t].gen # 0 /\ QueueOf[t] = q
  BY <1>1, <1>2 DEF Within
<1>3. CASE ~\E t \in Tasks : active[t].gen = 0 /\ active'[t].gen # 0 /\ QueueOf[t] = q
  <2>1. A \subseteq B /\ B \subseteq Tasks
    BY <1>3 DEF ActiveTasks, IsActive
  <2>2. Cardinality(B) <= QueueMax[q]
    BY DEF QueuesWithin
  <2>3. QueueMax[q] \in Nat
    BY QueueAssumption
  <2> HIDE DEF A, B
  <2>4. IsFiniteSet(B) /\ IsFiniteSet(A)
    BY <2>1, FS_Subset
  <2>5. Cardinality(A) <= Cardinality(B)
    BY <2>1, <2>4, FS_Subset
  <2>6. Cardinality(A) \in Nat /\ Cardinality(B) \in Nat
    BY <2>4, FS_CardinalityType
  <2>7. Cardinality(A) <= QueueMax[q]
    BY <2>2, <2>3, <2>5, <2>6
  <2> QED BY <2>7 DEF A
<1> QED BY <1>2, <1>3

(* While no task stops and the limit stays, nobody gets room.               *)
LEMMA NoNewRoom ==
  ASSUME IsFiniteSet(Tasks), TypeOK, TypeOK', \A u \in Tasks : active[u].gen # 0 => active'[u].gen # 0
  PROVE  /\ \A q \in Queues : ~has_queue_capacity(q) => ~has_queue_capacity(q)'
         /\ UNCHANGED maxc => \A t \in Tasks : ~HasRoom(t) => ~HasRoom(t)'
<1> DEFINE A == ActiveTasks
           B == {u \in Tasks : active'[u].gen # 0}
<1>1. A \subseteq B /\ B \subseteq Tasks /\ B = ActiveTasks'
  BY DEF ActiveTasks, IsActive
<1>2. IsFiniteSet(A) /\ IsFiniteSet(B) /\ Cardinality(A) <= Cardinality(B)
      /\ Cardinality(A) \in Nat /\ Cardinality(B) \in Nat
  <2>1. IsFiniteSet(A) /\ IsFiniteSet(B)
    BY <1>1, FS_Subset
  <2> QED BY <1>1, <2>1, FS_Subset, FS_CardinalityType
<1> HIDE DEF A, B
<1>3. \A q \in Queues : ~has_queue_capacity(q) => ~has_queue_capacity(q)'
  <2> SUFFICES ASSUME NEW q \in Queues, ~has_queue_capacity(q) PROVE ~has_queue_capacity(q)'
    OBVIOUS
  <2> DEFINE C == {t \in A : QueueOf[t] = q}
             D == {t \in B : QueueOf[t] = q}
  <2>1. C \subseteq D /\ D \subseteq B /\ IsFiniteSet(D)
    BY <1>1, <1>2, FS_Subset
  <2>2. IsFiniteSet(C) /\ Cardinality(C) <= Cardinality(D)
    BY <2>1, FS_Subset
  <2>3. Cardinality(C) \in Nat /\ Cardinality(D) \in Nat /\ QueueMax[q] \in Nat
    BY <2>1, <2>2, FS_CardinalityType, QueueAssumption
  <2>4. QueueMax[q] # 0 /\ ~(Cardinality(C) < QueueMax[q])
    BY DEF has_queue_capacity, A
  <2> HIDE DEF C, D
  <2>5. QueueMax[q] # 0 /\ ~(Cardinality(D) < QueueMax[q])
    BY <2>2, <2>3, <2>4
  <2> QED BY <1>1, <2>5 DEF has_queue_capacity, D
<1>4. ASSUME UNCHANGED maxc, ~has_capacity PROVE ~has_capacity'
  <2>1. maxc \in Nat /\ maxc # 0 /\ ~(Cardinality(A) < maxc)
    BY <1>4 DEF has_capacity, TypeOK, A
  <2>2. ~(Cardinality(B) < maxc)
    BY <1>2, <2>1
  <2> QED BY <1>1, <1>4, <2>1, <2>2 DEF has_capacity
<1>5. \A t \in Tasks : QueueOf[t] \in Queues
  BY QueueAssumption
<1> QED BY <1>3, <1>4, <1>5 DEF HasRoom

LEMMA SettledFramed ==
  ASSUME IsFiniteSet(Tasks), TypeOK, TypeOK', Settled, UNCHANGED maxc,
         QueuedTasks(queue') \subseteq QueuedTasks(queue),
         \A u \in Tasks : active[u].gen # 0 => active'[u].gen # 0
  PROVE  Settled'
<1>1. queue' \in Seq(Tasks)
  BY DEF TypeOK
<1>2. QueuedTasks(queue') \subseteq Tasks
  BY <1>1 DEF QueuedTasks
<1>3. ASSUME NEW t \in QueuedTasks(queue') PROVE ~HasRoom(t)'
  BY <1>2, NoNewRoom DEF Settled
<1> QED BY <1>3 DEF Settled

LEMMA KeptFullNext ==
  ASSUME IsFiniteSet(Tasks), IInv, LineInv, KeptFull, [Next]_vars
  PROVE  KeptFull'
<1>0. TypeOK /\ TypeOK' /\ AgendaInv(agenda)
  BY TypeNext DEF IInv
<1> SUFFICES ASSUME Running("drainLoop")'
             PROVE  \A t \in QueuedTasks(Head(agenda').kept) : ~has_queue_capacity(QueueOf[t])'
  BY DEF KeptFull
<1>1. CASE DrainQueue
  BY <1>0, <1>1, LoudDrain DEF QueuedTasks
<1>2. CASE DrainItem
  <2> DEFINE d == Head(agenda)
             x == Head(d.rest)
             keep == ~IsActive(x) /\ ~has_queue_capacity(QueueOf[x])
  <2>1. Running("drainLoop") /\ d.rest # <<>>
    BY <1>2 DEF DrainItem, LoopEnds
  <2>2. d.rest \in Seq(Tasks) /\ d.kept \in Seq(Tasks)
    BY <1>0, <2>1, RunningFacts, OpFields
  <2>3. x \in Tasks
    BY <2>1, <2>2
  <2>4. Head(agenda').kept = IF keep THEN Append(d.kept, x) ELSE d.kept
    BY <1>2 DEF DrainItem, Continue
  <2>5. \A u \in Tasks : active[u].gen # 0 => active'[u].gen # 0
    <3>1. CASE IsActive(x) \/ keep
      BY <1>2, <3>1 DEF DrainItem
    <3>2. CASE ~(IsActive(x) \/ keep)
      <4>1. do_resume_task(x)
        BY <1>2, <3>2 DEF DrainItem
      <4> QED BY <1>0, <2>3, <3>2, <4>1, StartsOne DEF IsActive
    <3> QED BY <3>1, <3>2
  <2>6. \A q \in Queues : ~has_queue_capacity(q) => ~has_queue_capacity(q)'
    BY <1>0, <2>5, NoNewRoom
  <2>7. QueuedTasks(Head(agenda').kept) \subseteq QueuedTasks(d.kept) \cup (IF keep THEN {x} ELSE {})
    BY <2>2, <2>3, <2>4, AppendFacts
  <2>8. QueuedTasks(d.kept) \subseteq Tasks
    BY <2>2 DEF QueuedTasks
  <2>9. \A t \in QueuedTasks(d.kept) : ~has_queue_capacity(QueueOf[t])
    BY <2>1 DEF KeptFull
  <2>10. \A t \in Tasks : QueueOf[t] \in Queues
    BY QueueAssumption
  <2>11. keep => ~has_queue_capacity(QueueOf[x])
    OBVIOUS
  <2> HIDE DEF x, keep, d
  <2> SUFFICES ASSUME NEW t \in QueuedTasks(Head(agenda').kept) PROVE ~has_queue_capacity(QueueOf[t])'
    OBVIOUS
  <2>12. t \in Tasks /\ ~has_queue_capacity(QueueOf[t])
    BY <2>3, <2>7, <2>8, <2>9, <2>11
  <2> QED BY <2>6, <2>10, <2>12
<1>3. CASE HandlerStep /\ ~DrainQueue /\ ~DrainItem
  BY <1>0, <1>3, HandlerAgenda
<1>4. ASSUME UserCommand PROVE FALSE
  <2>1. ASSUME NEW t \in Tasks, SetPriorityTask(t) PROVE FALSE
    <3>1. CASE agenda' = <<ClearBoost>>
      BY <3>1, OpenForms DEF Running
    <3>2. CASE agenda' = <<Do("boostActive", t), Do("boostQueued", t), Do("boostStray", t),
                           [op |-> "boostStart", task |-> t, queued |-> t \in QueuedTasks(queue)]>>
      <4>1. (t \in QueuedTasks(queue)) \in BOOLEAN
        OBVIOUS
      <4>2. Head(agenda').op # "drainLoop"
        BY <3>2, <4>1, BoostAgenda
      <4> QED BY <4>2 DEF Running
    <3> QED BY <2>1, <3>1, <3>2 DEF SetPriorityTask
  <2>2. ~BeginStep
    BY BeginFacts
  <2> QED BY <1>0, <1>4, <2>1, <2>2, CommandAgenda, Zenon DEF UserCommand
<1>5. CASE Message
  BY <1>0, <1>5, MessageAgenda, BeginFacts
<1>6. CASE (\E s \in spawns : Download(s)) \/ UNCHANGED vars
  <2>1. UNCHANGED <<active, agenda>>
    BY <1>6 DEF Download, actorVars, vars
  <2> QED BY <2>1 DEF KeptFull, Running, has_queue_capacity, ActiveTasks, IsActive
<1>7. CASE Reboot
  BY <1>7 DEF Reboot, Running
<1> QED BY <1>1, <1>2, <1>3, <1>4, <1>5, <1>6, <1>7 DEF Next

(* Only a command changes max_concurrent.                                   *)
LEMMA LimitKept ==
  ASSUME HandlerStep
  PROVE  UNCHANGED maxc
<1>1. LoadBatch \/ BatchResumed \/ ReapBatch \/ EraseBatch \/ EndSet => UNCHANGED maxc
  BY DEF LoadBatch, BatchResumed, ReapBatch, EraseBatch, EndSet, actorVars
<1>2. DrainQueue \/ DrainEnd \/ DrainItem \/ sync_queue_occupancy \/ ClearPriority => UNCHANGED maxc
  BY DEF DrainQueue, DrainEnd, DrainItem, sync_queue_occupancy, ClearPriority
<1>3. ASSUME NEW t \in Tasks,
             \/ PauseTaskInner(t) \/ ResumeTaskInner(t) \/ FinishPendingPause(t) \/ AutoRetry(t)
             \/ AutoPause(t) \/ BoostStart(t) \/ EraseTask(t) \/ ResetTask(t)
             \/ ResumeWithRow(t) \/ ForgetDeleted(t)
      PROVE  UNCHANGED maxc
  BY <1>3, Zenon DEF PauseTaskInner, ResumeTaskInner, FinishPendingPause, AutoRetry, AutoPause, BoostStart,
              EraseTask, ResetTask, ResumeWithRow, ForgetDeleted
<1>4. ASSUME NEW t \in Tasks,
             \/ GuardBoost(t) \/ ResumeBoosted(t) \/ BoostCollect(t) \/ BoostCheck(t)
             \/ ReapHandle(t) \/ PauseBatchItem(t)
      PROVE  UNCHANGED maxc
  BY <1>4 DEF GuardBoost, ResumeBoosted, BoostCollect, BoostCheck, ReapHandle, PauseBatchItem, actorVars
<1> QED BY <1>1, <1>2, <1>3, <1>4, Zenon DEF HandlerStep

(* A drain put on the agenda is due. *)
LEMMA PushDue ==
  ASSUME TypeOK, agenda # <<>>, NEW ops \in Seq(Op), Continue(ops),
         NEW o \in OpsOf(ops), Draining(o)
  PROVE  DrainDue'
<1>1. agenda \in Seq(Op)
  BY DEF TypeOK
<1>2. o \in OpsOf(agenda')
  BY <1>1, ContinueFacts DEF Continue
<1> QED BY <1>2 DEF DrainDue

LEMMA PushThree ==
  ASSUME NEW a \in Op, NEW b \in Op, NEW c \in Op
  PROVE  <<a, b, c>> \in Seq(Op) /\ a \in OpsOf(<<a, b, c>>) /\ b \in OpsOf(<<a, b, c>>)
<1>1. <<a, b, c>> \in Seq(Op) /\ OpsOf(<<a, b, c>>) = {a, b, c}
  BY DEF OpsOf
<1> QED BY <1>1

LEMMA DrainSteps ==
  ASSUME HandlerStep, Draining(Head(agenda))
  PROVE  \/ DrainQueue \/ ReapBatch \/ EraseBatch
         \/ \E t \in Tasks : FinishPendingPause(t) \/ ReapHandle(t) \/ EraseTask(t)
<1>1. ~(LoadBatch \/ BatchResumed \/ DrainEnd \/ DrainItem \/ sync_queue_occupancy
        \/ ClearPriority \/ EndSet)
  BY DEF LoadBatch, BatchResumed, DrainEnd, DrainItem, sync_queue_occupancy, ClearPriority, EndSet,
         Running, Draining
<1>2. ASSUME NEW t \in Tasks,
             \/ PauseTaskInner(t) \/ GuardBoost(t) \/ ResumeTaskInner(t)
             \/ AutoRetry(t) \/ ResumeBoosted(t) \/ BoostCollect(t) \/ AutoPause(t)
      PROVE  FALSE
  BY <1>2 DEF PauseTaskInner, GuardBoost, ResumeTaskInner, AutoRetry, ResumeBoosted, BoostCollect,
              AutoPause, Running, Draining
<1>3. ASSUME NEW t \in Tasks,
             \/ BoostStart(t) \/ BoostCheck(t) \/ ResetTask(t)
             \/ PauseBatchItem(t) \/ ResumeWithRow(t) \/ ForgetDeleted(t)
      PROVE  FALSE
  BY <1>3 DEF BoostStart, BoostCheck, ResetTask, PauseBatchItem, ResumeWithRow, ForgetDeleted,
              Running, Draining
<1> QED BY <1>1, <1>2, <1>3, Zenon DEF HandlerStep

(* An operation that ends in a drain passes the duty on. *)
LEMMA DutyPassed ==
  ASSUME TypeOK, TypeOK', AgendaInv(agenda), agenda # <<>>, HandlerStep, Draining(Head(agenda))
  PROVE  DrainDue'
<1>1. Head(agenda) \in Op /\ Drain \in Op /\ Sync \in Op /\ ClearBoost \in Op /\ Draining(Drain)
  BY HeadInOps, OpForms, OpenForms DEF Draining
<1>2. CASE DrainQueue
  BY <1>2, LoudDrain DEF DrainDue, Running
<1>3. CASE ReapBatch
  <2> DEFINE e == [op |-> "eraseBatch", set |-> Head(agenda).set]
  <2>1. Head(agenda).set \in SUBSET Tasks
    BY <1>1, <1>3, OpFields DEF ReapBatch, Running
  <2>2. e \in Op /\ Draining(e) /\ Continue(<<e>>)
    BY <1>3, <2>1, OpForms DEF ReapBatch, Draining
  <2> HIDE DEF e
  <2>3. <<e>> \in Seq(Op) /\ e \in OpsOf(<<e>>)
    BY <2>2, ShortSeqs
  <2> QED BY <2>2, <2>3, PushDue
<1>4. CASE EraseBatch
  <2> DEFINE f == [op |-> "forget", set |-> Head(agenda).set]
  <2>1. Head(agenda).set \in SUBSET Tasks
    BY <1>1, <1>4, OpFields DEF EraseBatch, Running
  <2>2. f \in Op /\ Continue(<<f, Drain, Sync>>)
    BY <1>4, <2>1, OpForms DEF EraseBatch
  <2> HIDE DEF f
  <2>3. <<f, Drain, Sync>> \in Seq(Op) /\ Drain \in OpsOf(<<f, Drain, Sync>>)
    BY <1>1, <2>2, PushThree
  <2> QED BY <1>1, <2>2, <2>3, PushDue
<1>5. ASSUME NEW t \in Tasks, FinishPendingPause(t) PROVE DrainDue'
  <2> DEFINE r == Do("resumeAuto", t)
  <2>1. PICK p : Continue(<<Drain>> \o Opt(p, r))
    BY <1>5, Zenon DEF FinishPendingPause
  <2>2. r \in Op
    BY OpForms
  <2> HIDE DEF r
  <2>3. <<Drain>> \in Seq(Op) /\ Drain \in OpsOf(<<Drain>>) /\ Opt(p, r) \in Seq(Op)
    BY <1>1, <2>2, ShortSeqs
  <2>4. <<Drain>> \o Opt(p, r) \in Seq(Op) /\ Drain \in OpsOf(<<Drain>> \o Opt(p, r))
    BY <2>3, CatFacts
  <2> QED BY <1>1, <2>1, <2>4, PushDue
<1>6. ASSUME NEW t \in Tasks, ReapHandle(t) PROVE DrainDue'
  <2> DEFINE e == Do("erase", t)
  <2>1. e \in Op /\ e.op = "erase" /\ Continue(<<e>>)
    BY <1>6, OpForms, OpenForms DEF ReapHandle
  <2> HIDE DEF e
  <2>2. <<e>> \in Seq(Op) /\ e \in OpsOf(<<e>>) /\ Draining(e)
    BY <2>1, ShortSeqs DEF Draining
  <2> QED BY <2>1, <2>2, PushDue
<1>7. ASSUME NEW t \in Tasks, EraseTask(t) PROVE DrainDue'
  <2>1. PICK p : Continue(Opt(p, ClearBoost) \o <<Drain, Sync>>)
    BY <1>7, Zenon DEF EraseTask
  <2>2. /\ <<Drain, Sync>> \in Seq(Op) /\ OpsOf(<<Drain, Sync>>) = {Drain, Sync}
        /\ Opt(p, ClearBoost) \in Seq(Op)
    BY <1>1, ShortSeqs, Zenon
  <2>3. /\ Opt(p, ClearBoost) \o <<Drain, Sync>> \in Seq(Op)
        /\ Drain \in OpsOf(Opt(p, ClearBoost) \o <<Drain, Sync>>)
    BY <2>2, CatFacts
  <2> QED BY <1>1, <2>1, <2>3, PushDue
<1> QED BY <1>2, <1>3, <1>4, <1>5, <1>6, <1>7, DrainSteps

(* A pause drains when it frees a slot. *)
LEMMA PauseServed ==
  ASSUME IsFiniteSet(Tasks), TypeOK, TypeOK', Settled, NEW t \in Tasks, PauseTaskInner(t)
  PROVE  DrainDue' \/ Settled'
<1>1. UNCHANGED maxc /\ agenda # <<>>
  BY DEF PauseTaskInner, Running
<1>2. CASE UNCHANGED active /\ (UNCHANGED queue \/ queue' = Unqueue(queue, t))
  <2>1. queue \in Seq(Tasks)
    BY DEF TypeOK
  <2>2. QueuedTasks(queue') \subseteq QueuedTasks(queue)
    BY <1>2, <2>1, WithoutFacts DEF Unqueue
  <2> QED BY <1>1, <1>2, <2>2, SettledFramed
<1>3. CASE Continue(<<Drain, Do("guardBoost", t), Sync>>)
  <2> DEFINE g == Do("guardBoost", t)
  <2>1. g \in Op /\ Drain \in Op /\ Sync \in Op /\ Draining(Drain)
    BY OpForms, OpenForms DEF Draining
  <2> HIDE DEF g
  <2>2. <<Drain, g, Sync>> \in Seq(Op) /\ Drain \in OpsOf(<<Drain, g, Sync>>)
    BY <2>1, PushThree
  <2>3. Continue(<<Drain, g, Sync>>)
    BY <1>3 DEF g
  <2> QED BY <1>1, <2>1, <2>2, <2>3, PushDue
<1> QED BY <1>2, <1>3 DEF PauseTaskInner

(* So does a start; a resume that must wait leaves no room behind.          *)
LEMMA ResumeServed ==
  ASSUME IsFiniteSet(Tasks), TypeOK, TypeOK', LineInv, QueuesWithin, Settled, HandlerStep,
         NEW t \in Tasks, ResumeTaskInner(t) \/ ResumeWithRow(t)
  PROVE  DrainDue' \/ Settled'
<1>0. /\ UNCHANGED maxc /\ agenda # <<>> /\ ~Running("drainLoop") /\ Head(agenda) \in Op
      /\ Drain \in Op /\ Sync \in Op /\ Draining(Drain)
  <2>1. UNCHANGED maxc
    BY LimitKept
  <2>2. agenda # <<>> /\ ~Running("drainLoop")
    BY DEF ResumeTaskInner, ResumeWithRow, Running
  <2> QED BY <2>1, <2>2, HeadInOps, OpForms, OpenForms DEF Draining
<1>1. PICK s, o1, o2, o3, row :
         /\ TryResume(t, s, o1, o2, o3, row)
         /\ o2 \in Seq(Op) /\ Drain \in OpsOf(o2)
  <2>1. CASE ResumeTaskInner(t)
    <3>1. <<Drain, Sync>> \in Seq(Op) /\ OpsOf(<<Drain, Sync>>) = {Drain, Sync}
      BY <1>0, ShortSeqs, Zenon
    <3>2. Drain \in OpsOf(<<Drain, Sync>>)
      BY <3>1
    <3>3. PICK row : TryResume(t, db[t].status, <<>>, <<Drain, Sync>>, <<Sync>>, row)
      BY <2>1, Zenon DEF ResumeTaskInner
    <3> QED BY <3>1, <3>2, <3>3, Zenon
  <2>2. CASE ResumeWithRow(t)
    <3> DEFINE rest == [Head(agenda) EXCEPT !.rows[t] = "none"]
    <3>1. PICK o3 : TryResume(t, Head(agenda).rows[t], <<rest>>, <<Drain, rest>>, <<o3>>, db)
      BY <2>2, Zenon DEF ResumeWithRow
    <3>2. rest \in Op
      <4>1. Head(agenda).op = "resumeBatch"
        BY <2>2 DEF ResumeWithRow, Running
      <4> QED BY <1>0, <4>1, BatchEdits
    <3> HIDE DEF rest
    <3>3. <<Drain, rest>> \in Seq(Op) /\ OpsOf(<<Drain, rest>>) = {Drain, rest}
      BY <1>0, <3>2, ShortSeqs, Zenon
    <3>4. Drain \in OpsOf(<<Drain, rest>>)
      BY <3>3
    <3> QED BY <3>1, <3>3, <3>4, Zenon
  <2> QED BY <2>1, <2>2
<1>2. /\ active \in [Tasks -> [gen : Nat, spawned : BOOLEAN]] /\ queue \in Seq(Tasks)
      /\ queue' \in Seq(Tasks) /\ maxc \in Nat
  BY DEF TypeOK
<1>3. CASE Continue(o2)
  BY <1>0, <1>1, <1>3, PushDue
<1>4. CASE UNCHANGED <<active, queue>>
  BY <1>0, <1>4, SettledFramed
<1>5. CASE AlreadyQueued(t) /\ active' = [active EXCEPT ![t] = NoEntry] /\ UNCHANGED queue
  <2>1. ~IsActive(t)
    BY <1>0, <1>5 DEF AlreadyQueued, LineInv, Line
  <2>2. \A u \in Tasks : active[u].gen # 0 => active'[u].gen # 0
    BY <1>2, <1>5, <2>1 DEF IsActive
  <2> QED BY <1>0, <1>5, <2>2, SettledFramed
<1> DEFINE others == ActiveTasks \ {t}
           full == maxc # 0 /\ ~(Cardinality(others) < maxc)
           taken == /\ QueueMax[QueueOf[t]] # 0
                    /\ ~(Cardinality({u \in others : QueueOf[u] = QueueOf[t]}) < QueueMax[QueueOf[t]])
<1>6. CASE /\ active' = [active EXCEPT ![t] = NoEntry]
           /\ queue' \in {queue, Append(queue, t)}
           /\ full \/ taken
  <2>1. ActiveTasks' = others
    BY <1>2, <1>6 DEF ActiveTasks, IsActive, NoEntry
  <2>2. CASE full
    <3>1. ~has_capacity'
      BY <1>0, <2>1, <2>2 DEF has_capacity
    <3> QED BY <3>1 DEF Settled, HasRoom
  <2>3. CASE taken
    <3>1. ~HasRoom(t)'
      BY <2>1, <2>3 DEF HasRoom, has_queue_capacity
    <3>2. ~IsActive(t)
      <4> SUFFICES ASSUME IsActive(t) PROVE FALSE
        OBVIOUS
      <4> DEFINE B == {u \in others : QueueOf[u] = QueueOf[t]}
                 A == {u \in ActiveTasks : QueueOf[u] = QueueOf[t]}
      <4>1. A = B \cup {t} /\ t \notin B /\ B \subseteq Tasks /\ A \subseteq Tasks
        BY DEF ActiveTasks
      <4>2. QueueOf[t] \in Queues /\ QueueMax[QueueOf[t]] \in Nat
        BY QueueAssumption
      <4>3. QueueMax[QueueOf[t]] # 0 /\ Cardinality(A) <= QueueMax[QueueOf[t]]
        BY <2>3, <4>2 DEF QueuesWithin
      <4>4. ~(Cardinality(B) < QueueMax[QueueOf[t]])
        BY <2>3
      <4> HIDE DEF A, B
      <4>5. IsFiniteSet(B)
        BY <4>1, FS_Subset
      <4>6. Cardinality(A) = Cardinality(B) + 1 /\ Cardinality(B) \in Nat
        BY <4>1, <4>5, FS_AddElement, FS_CardinalityType
      <4> QED BY <4>2, <4>3, <4>4, <4>6
    <3>3. \A u \in Tasks : active[u].gen # 0 => active'[u].gen # 0
      BY <1>2, <1>6, <3>2 DEF IsActive
    <3>4. QueuedTasks(queue') \subseteq QueuedTasks(queue) \cup {t} /\ QueuedTasks(queue) \subseteq Tasks
      <4>1. QueuedTasks(queue) \subseteq Tasks
        BY <1>2 DEF QueuedTasks
      <4>2. QueuedTasks(Append(queue, t)) = QueuedTasks(queue) \cup {t}
        BY <1>2, AppendFacts
      <4> QED BY <1>6, <4>1, <4>2
    <3>5. \A u \in Tasks : ~HasRoom(u) => ~HasRoom(u)'
      BY <1>0, <3>3, NoNewRoom
    <3> HIDE DEF others, full, taken
    <3>6. ASSUME NEW u \in QueuedTasks(queue') PROVE ~HasRoom(u)'
      BY <3>1, <3>4, <3>5 DEF Settled
    <3> QED BY <3>6 DEF Settled
  <2> QED BY <1>6, <2>2, <2>3
<1> HIDE DEF full, taken
<1>7. \/ Continue(o2) \/ UNCHANGED <<active, queue>>
      \/ AlreadyQueued(t) /\ active' = [active EXCEPT ![t] = NoEntry] /\ UNCHANGED queue
      \/ /\ active' = [active EXCEPT ![t] = NoEntry]
         /\ queue' \in {queue, Append(queue, t)}
         /\ full \/ taken
  BY <1>1 DEF TryResume, full, taken
<1> QED BY <1>3, <1>4, <1>5, <1>6, <1>7

LEMMA ServedLoop ==
  ASSUME TypeOK, TypeOK', AgendaInv(agenda), LineInv, KeptFull, HandlerStep, Running("drainLoop")
  PROVE  DrainDue' \/ Settled'
<1>1. CASE DrainItem
  BY <1>1, LoudDrain DEF DrainDue, Running
<1>2. CASE DrainEnd
  <2> DEFINE d == Head(agenda)
  <2>1. d.rest \in Seq(Tasks) /\ d.kept \in Seq(Tasks)
    BY RunningFacts, OpFields
  <2>2. /\ UNCHANGED <<active, maxc>> /\ queue' = d.kept \o d.rest
        /\ d.rest = <<>> \/ ~has_capacity
    BY <1>2 DEF DrainEnd, LoopEnds
  <2>3. \A t \in Tasks : HasRoom(t)' = HasRoom(t)
    BY <2>2 DEF HasRoom, has_capacity, has_queue_capacity, ActiveTasks, IsActive
  <2>4. QueuedTasks(queue') = QueuedTasks(d.kept) \cup QueuedTasks(d.rest)
        /\ QueuedTasks(d.kept) \subseteq Tasks /\ QueuedTasks(d.rest) \subseteq Tasks
    <3>1. QueuedTasks(d.kept) \subseteq Tasks /\ QueuedTasks(d.rest) \subseteq Tasks
      BY <2>1 DEF QueuedTasks
    <3> QED BY <2>1, <2>2, <3>1, LineFacts
  <2>5. \A t \in QueuedTasks(d.kept) : ~has_queue_capacity(QueueOf[t])
    BY DEF KeptFull
  <2>6. d.rest = <<>> => QueuedTasks(d.rest) = {}
    BY DEF QueuedTasks
  <2> HIDE DEF d
  <2>7. ASSUME NEW t \in QueuedTasks(queue') PROVE ~HasRoom(t)
    BY <2>2, <2>4, <2>5, <2>6 DEF HasRoom
  <2> QED BY <2>3, <2>4, <2>7 DEF Settled
<1> QED BY <1>1, <1>2, LoopSteps

LEMMA ServedHandler ==
  ASSUME IsFiniteSet(Tasks), TypeOK, TypeOK', AgendaInv(agenda), Plain, ServedInv, HandlerStep
  PROVE  DrainDue' \/ Settled'
<1>0. LineInv /\ QueuesWithin /\ KeptFull /\ (DrainDue \/ Settled) /\ UNCHANGED maxc
  BY LimitKept DEF ServedInv
<1>1. CASE Running("drainLoop")
  BY <1>0, <1>1, ServedLoop
<1>2. CASE \E o \in OpsOf(agenda) : Draining(o)
  <2>1. PICK o \in OpsOf(agenda) : Draining(o)
    BY <1>2
  <2>2. AgendaFlow
    BY HandlerAgenda
  <2>3. CASE o = Head(agenda)
    BY <2>1, <2>2, <2>3, DutyPassed DEF AgendaFlow
  <2>4. CASE o # Head(agenda)
    BY <2>1, <2>2, <2>4 DEF AgendaFlow, DrainDue
  <2> QED BY <2>3, <2>4
<1>3. CASE Settled /\ ~DrainDue
  <2>1. ~DrainQueue /\ ~DrainEnd /\ ~DrainItem /\ ~\E t \in Tasks : FinishPendingPause(t)
    <3>1. agenda # <<>> => Head(agenda) \in OpsOf(agenda)
      BY HeadInOps
    <3> QED BY <1>3, <3>1 DEF DrainDue, Draining, DrainQueue, DrainEnd, DrainItem, FinishPendingPause, Running
  <2>2. CASE CalmStep
    <3>1. UNCHANGED <<queue, active>>
      BY <2>2, CalmFacts DEF Calm
    <3> QED BY <1>0, <1>3, <3>1, SettledFramed
  <2>3. ASSUME NEW t \in Tasks, PauseTaskInner(t) PROVE DrainDue' \/ Settled'
    BY <1>3, <2>3, PauseServed
  <2>4. ASSUME NEW t \in Tasks, ResumeTaskInner(t) \/ ResumeWithRow(t) PROVE DrainDue' \/ Settled'
    BY <1>0, <1>3, <2>4, ResumeServed
  <2>5. ASSUME NEW t \in Tasks, BoostStart(t) PROVE FALSE
    BY <2>5, HeadInOps DEF BoostStart, Running, Plain, Starting
  <2> QED BY <2>1, <2>2, <2>3, <2>4, <2>5, Zenon DEF HandlerStep, CalmStep
<1> QED BY <1>0, <1>1, <1>2, <1>3 DEF DrainDue

(* What ends in a drain, put on an empty agenda. *)
LEMMA CommandDue ==
  ASSUME NEW o \in Op, Draining(o), agenda' = <<o>> \/ \E p \in Op : agenda' = <<o, p>>
  PROVE  DrainDue'
<1>1. o \in OpsOf(agenda')
  <2>1. CASE agenda' = <<o>>
    BY <2>1 DEF OpsOf
  <2>2. ASSUME NEW p \in Op, agenda' = <<o, p>> PROVE o \in OpsOf(agenda')
    <3>1. OpsOf(<<o, p>>) = {o, p}
      BY DEF OpsOf
    <3> QED BY <2>2, <3>1
  <2> QED BY <2>1, <2>2
<1> QED BY <1>1 DEF DrainDue

LEMMA ServedCommand ==
  ASSUME IsFiniteSet(Tasks), TypeOK, TypeOK', ServedInv, UserCommand, "boost" \notin Commands
  PROVE  DrainDue' \/ Settled'
<1>0. ~\E t \in Tasks : SetPriorityTask(t)
  BY DEF SetPriorityTask, Command
<1>1. Settled /\ Drain \in Op /\ Sync \in Op /\ Draining(Drain)
  <2>1. BeginStep
    BY <1>0, CommandAgenda, Zenon DEF UserCommand
  <2>2. ~DrainDue
    BY <2>1 DEF BeginStep, Idle, DrainDue, Running, OpsOf
  <2> QED BY <2>2, OpForms, OpenForms DEF ServedInv, Draining
<1>2. /\ active \in [Tasks -> [gen : Nat, spawned : BOOLEAN]] /\ queue \in Seq(Tasks)
      /\ agenda' \in Seq(Op) /\ QueuedTasks(queue) \subseteq Tasks
  <2>1. queue \in Seq(Tasks)
    BY DEF TypeOK
  <2>2. QueuedTasks(queue) \subseteq Tasks
    BY <2>1 DEF QueuedTasks
  <2> QED BY <2>2 DEF TypeOK
<1>3. ASSUME NEW S \in Batch, DeleteTasksBatch(S) PROVE DrainDue'
  <2>1. PICK G : agenda' = <<[op |-> "reapBatch", set |-> S, gens |-> G]>>
    BY <1>3 DEF DeleteTasksBatch
  <2> DEFINE o == [op |-> "reapBatch", set |-> S, gens |-> G]
  <2>2. Draining(o) /\ agenda' = <<o>>
    BY <2>1 DEF Draining
  <2> HIDE DEF o
  <2>3. o \in Op
    <3>1. Len(<<o>>) = 1 /\ <<o>>[1] = o
      OBVIOUS
    <3> QED BY <1>2, <2>2, <3>1
  <2> QED BY <2>2, <2>3, CommandDue
<1>4. ASSUME NEW q \in Queues, StartQueue(q) PROVE Settled'
  <2>1. UNCHANGED <<queue, active, maxc>>
    BY <1>4 DEF StartQueue, batch_resume, actorVars
  <2> QED BY <1>1, <2>1, SettledFramed
<1>5. ASSUME NEW q \in Queues, StopQueue(q) PROVE Settled'
  <2>1. PICK S : batch_pause(S)
    BY <1>5 DEF StopQueue
  <2>2. queue' = Without(queue, S) /\ UNCHANGED <<active, maxc>>
    BY <2>1 DEF batch_pause
  <2>3. QueuedTasks(queue') \subseteq QueuedTasks(queue)
    BY <1>2, <2>2, WithoutFacts
  <2> QED BY <1>1, <2>2, <2>3, SettledFramed
<1>6. ASSUME NEW t \in Tasks, NEW later \in BOOLEAN, CreateTask(t, later) PROVE DrainDue' \/ Settled'
  <2>1. UNCHANGED maxc
    BY <1>6 DEF CreateTask
  <2>2. CASE agenda' = <<Drain, Sync>>
    BY <1>1, <2>2, CommandDue
  <2>3. CASE UNCHANGED <<active, queue>>
    BY <1>1, <2>1, <2>3, SettledFramed
  <2>4. CASE ~HasRoom(t) /\ queue' = Append(queue, t) /\ UNCHANGED active
    <3>1. \A u \in Tasks : HasRoom(u)' = HasRoom(u)
      BY <2>1, <2>4 DEF HasRoom, has_capacity, has_queue_capacity, ActiveTasks, IsActive
    <3>2. QueuedTasks(queue') = QueuedTasks(queue) \cup {t}
      BY <1>2, <2>4, AppendFacts
    <3>3. ASSUME NEW u \in QueuedTasks(queue') PROVE ~HasRoom(u)'
      BY <1>1, <1>2, <2>4, <3>1, <3>2 DEF Settled
    <3> QED BY <3>3 DEF Settled
  <2> QED BY <1>6, <2>2, <2>3, <2>4 DEF CreateTask
<1>7. ASSUME NEW t \in Tasks, PauseTask(t) \/ ResumeTask(t) \/ RestartTask(t) PROVE Settled'
  <2>1. UNCHANGED <<queue, active, maxc>>
    BY <1>7 DEF PauseTask, ResumeTask, RestartTask, actorVars
  <2> QED BY <1>1, <2>1, SettledFramed
<1>8. ASSUME NEW t \in Tasks, CancelTask(t) PROVE DrainDue'
  <2>1. agenda' = <<Drain>>
    BY <1>8 DEF CancelTask, CancelledRow
  <2> QED BY <1>1, <2>1, CommandDue
<1>9. ASSUME NEW t \in Tasks, DeleteTask(t) PROVE DrainDue'
  <2>1. PICK o : agenda' = <<o>> /\ o.op \in {"reap", "erase"}
    <3>1. CASE active[t].spawned
      <4>1. agenda' = <<[op |-> "reap", task |-> t, gen |-> active[t].gen]>>
        BY <1>9, <3>1 DEF DeleteTask
      <4> QED BY <4>1
    <3>2. CASE ~active[t].spawned
      <4>1. agenda' = <<Do("erase", t)>>
        BY <1>9, <3>2 DEF DeleteTask
      <4> QED BY <4>1, OpenForms
    <3> QED BY <3>1, <3>2
  <2>2. o \in Op
    <3>1. Len(<<o>>) = 1 /\ <<o>>[1] = o
      OBVIOUS
    <3> QED BY <1>2, <2>1, <3>1
  <2> QED BY <2>1, <2>2, CommandDue DEF Draining
<1>10. ASSUME NEW n \in Limits, SetMaxConcurrent(n) PROVE DrainDue'
  <2>1. agenda' = <<Drain>>
    BY <1>10 DEF SetMaxConcurrent
  <2> QED BY <1>1, <2>1, CommandDue
<1> QED BY <1>0, <1>3, <1>4, <1>5, <1>6, <1>7, <1>8, <1>9, <1>10, Zenon DEF UserCommand

LEMMA ServedNext ==
  ASSUME IsFiniteSet(Tasks), "boost" \notin Commands, IInv, Plain, ServedInv, [Next]_vars
  PROVE  ServedInv'
<1>0. TypeOK /\ TypeOK' /\ AgendaInv(agenda)
  BY TypeNext DEF IInv
<1>1. LineInv' /\ QueuesWithin' /\ KeptFull'
  BY LineNext, QueuesWithinNext, KeptFullNext DEF ServedInv
<1>2. CASE HandlerStep
  BY <1>0, <1>1, <1>2, ServedHandler DEF ServedInv
<1>3. CASE UserCommand
  BY <1>0, <1>1, <1>3, ServedCommand DEF ServedInv
<1>4. CASE Message
  <2>1. CASE OnTaskDone
    <3>1. DrainDue'
      BY <1>0, <2>1, TaskDoneAgenda DEF Draining, DrainDue
    <3> QED BY <1>1, <3>1 DEF ServedInv
  <2>2. ASSUME NEW t \in Tasks, OnRetry(t) PROVE ServedInv'
    <3>1. UNCHANGED <<active, queue, maxc>> /\ Idle
      BY <2>2 DEF OnRetry, actorVars
    <3>2. Settled
      BY <3>1 DEF Idle, ServedInv, DrainDue, Running, OpsOf
    <3>3. Settled'
      BY <1>0, <3>1, <3>2, SettledFramed
    <3> QED BY <1>1, <3>3 DEF ServedInv
  <2> QED BY <1>4, <2>1, <2>2 DEF Message, Plain
<1>5. CASE (\E s \in spawns : Download(s)) \/ UNCHANGED vars
  <2>1. UNCHANGED <<active, queue, agenda, maxc>>
    BY <1>5 DEF Download, actorVars, vars
  <2>2. DrainDue => DrainDue'
    BY <2>1 DEF DrainDue, Running
  <2>3. Settled => Settled'
    BY <1>0, <2>1, SettledFramed
  <2> QED BY <1>1, <2>2, <2>3 DEF ServedInv
<1>6. CASE Reboot
  <2>1. queue' = <<>>
    BY <1>6 DEF Reboot
  <2>2. Settled'
    BY <2>1 DEF Settled, QueuedTasks
  <2> QED BY <1>1, <2>2 DEF ServedInv
<1> QED BY <1>2, <1>3, <1>4, <1>5, <1>6 DEF Next

LEMMA ServedInit == Init => ServedInv
<1> SUFFICES ASSUME Init PROVE ServedInv
  OBVIOUS
<1>1. queue = <<>> /\ agenda = <<>> /\ ActiveTasks = {}
  BY DEF Init, ActiveTasks, IsActive, NoEntry
<1>2. QueuedTasks(<<>>) = {} /\ Line = <<>> /\ Distinct(<<>>)
  BY <1>1 DEF QueuedTasks, Line, Running, Distinct
<1>3. LineInv /\ KeptFull /\ Settled
  BY <1>1, <1>2 DEF LineInv, KeptFull, Settled, Running
<1>4. QueuesWithin
  <2> SUFFICES ASSUME NEW q \in Queues PROVE Cardinality({t \in ActiveTasks : QueueOf[t] = q}) <= QueueMax[q]
    BY DEF QueuesWithin
  <2>1. {t \in ActiveTasks : QueueOf[t] = q} = {}
    BY <1>1
  <2>2. QueueMax[q] \in Nat
    BY QueueAssumption
  <2> QED BY <2>1, <2>2, FS_EmptySet
<1> QED BY <1>3, <1>4 DEF ServedInv

(* The drain is never forgotten: whatever frees a slot, raises a limit or   *)
(* puts a task in the queue either finds no room for any queued task or has *)
(* a drain_queue still to run before the actor is idle again.               *)
THEOREM DrainNeverForgotten ==
  ASSUME IsFiniteSet(Tasks), Resolvable = {}, "boost" \notin Commands
  PROVE  Spec => []QueueServed
<1>1. Init => Plain /\ ServedInv
  <2>1. OpsOf(<<>>) = {}
    BY DEF OpsOf
  <2> QED BY <2>1, ServedInit DEF Init, Plain, Starting
<1>2. IInv /\ Plain /\ ServedInv /\ [Next]_vars => Plain' /\ ServedInv'
  BY PlainNext, ServedNext DEF IInv
<1>3. ServedInv => QueueServed
  BY DEF ServedInv, QueueServed, Settled, DrainDue, Idle, Running, OpsOf
<1> QED BY <1>1, <1>2, <1>3, Inductive, PTL DEF Spec

-----------------------------------------------------------------------------
(* The occupancy of the queues *)

(* The kinds of the operations a step puts in front of the agenda.          *)
Pushed(K) ==
    /\ agenda # <<>>
    /\ \E ops \in Seq(Op) : Continue(ops) /\ \A o \in OpsOf(ops) : o.op \in K

LEMMA KindSeqs ==
  ASSUME NEW K, NEW a \in Op, NEW b \in Op, NEW c \in Op, a.op \in K, b.op \in K, c.op \in K
  PROVE  /\ <<>> \in Seq(Op) /\ \A o \in OpsOf(<<>>) : o.op \in K
         /\ <<a>> \in Seq(Op) /\ \A o \in OpsOf(<<a>>) : o.op \in K
         /\ <<a, b>> \in Seq(Op) /\ \A o \in OpsOf(<<a, b>>) : o.op \in K
         /\ <<a, b, c>> \in Seq(Op) /\ \A o \in OpsOf(<<a, b, c>>) : o.op \in K
         /\ \A p : /\ Opt(p, a) \in Seq(Op) /\ \A o \in OpsOf(Opt(p, a)) : o.op \in K
                   /\ Opt(p, a) \o <<b>> \in Seq(Op)
                   /\ \A o \in OpsOf(Opt(p, a) \o <<b>>) : o.op \in K
                   /\ Opt(p, a) \o <<b, c>> \in Seq(Op)
                   /\ \A o \in OpsOf(Opt(p, a) \o <<b, c>>) : o.op \in K
                   /\ <<b>> \o Opt(p, a) \in Seq(Op)
                   /\ \A o \in OpsOf(<<b>> \o Opt(p, a)) : o.op \in K
<1>1. /\ <<>> \in Seq(Op) /\ OpsOf(<<>>) = {} /\ <<a>> \in Seq(Op) /\ OpsOf(<<a>>) = {a}
      /\ <<b>> \in Seq(Op) /\ OpsOf(<<b>>) = {b}
      /\ <<a, b>> \in Seq(Op) /\ OpsOf(<<a, b>>) = {a, b}
      /\ <<b, c>> \in Seq(Op) /\ OpsOf(<<b, c>>) = {b, c}
  <2>1. ASSUME NEW x \in Op, NEW y \in Op
        PROVE  <<x, y>> \in Seq(Op) /\ OpsOf(<<x, y>>) = {x, y}
    BY DEF OpsOf
  <2> QED BY <2>1, ShortSeqs
<1>2. <<a, b, c>> \in Seq(Op) /\ OpsOf(<<a, b, c>>) = {a, b, c}
  BY DEF OpsOf
<1>3. ASSUME NEW p PROVE Opt(p, a) \in Seq(Op) /\ \A o \in OpsOf(Opt(p, a)) : o.op \in K
  <2>1. Opt(p, a) \in Seq(Op) /\ OpsOf(Opt(p, a)) = IF p THEN {a} ELSE {}
    BY ShortSeqs
  <2> QED BY <2>1
<1>4. ASSUME NEW x \in Seq(Op), NEW y \in Seq(Op), \A o \in OpsOf(x) : o.op \in K,
             \A o \in OpsOf(y) : o.op \in K
      PROVE  x \o y \in Seq(Op) /\ \A o \in OpsOf(x \o y) : o.op \in K
  BY <1>4, CatFacts
<1>5. /\ \A o \in OpsOf(<<b>>) : o.op \in K
      /\ \A o \in OpsOf(<<b, c>>) : o.op \in K
  BY <1>1
<1>6. ASSUME NEW p
      PROVE /\ Opt(p, a) \o <<b>> \in Seq(Op)
            /\ \A o \in OpsOf(Opt(p, a) \o <<b>>) : o.op \in K
            /\ Opt(p, a) \o <<b, c>> \in Seq(Op)
            /\ \A o \in OpsOf(Opt(p, a) \o <<b, c>>) : o.op \in K
            /\ <<b>> \o Opt(p, a) \in Seq(Op)
            /\ \A o \in OpsOf(<<b>> \o Opt(p, a)) : o.op \in K
  BY <1>1, <1>3, <1>4, <1>5
<1> QED BY <1>1, <1>2, <1>3, <1>6

LEMMA PushKinds ==
  ASSUME NEW K, agenda # <<>>, NEW ops \in Seq(Op), Continue(ops), \A o \in OpsOf(ops) : o.op \in K
  PROVE  Pushed(K)
BY DEF Pushed

(* The handlers that run after a TaskDone, and the operations they end in.  *)
Tame == {"finish", "drain", "drainLoop", "resumeAuto", "resume", "sync", "clearBoost", "unboost"}

LEMMA TameSteps ==
  ASSUME TypeOK, AgendaInv(agenda),
         \/ DrainQueue \/ DrainItem \/ DrainEnd \/ sync_queue_occupancy \/ ClearPriority \/ EndSet
         \/ \E t \in Tasks : \/ ResumeTaskInner(t) \/ FinishPendingPause(t) \/ AutoRetry(t)
                              \/ ResumeBoosted(t)
  PROVE  Pushed(Tame)
<1>0. /\ Drain \in Op /\ Drain.op \in Tame /\ Sync \in Op /\ Sync.op \in Tame
      /\ \A t \in Tasks, n \in {"resume", "resumeAuto"} : Do(n, t) \in Op /\ Do(n, t).op \in Tame
  BY OpForms, OpenForms DEF Tame
<1>1. /\ <<>> \in Seq(Op) /\ \A o \in OpsOf(<<>>) : o.op \in Tame
      /\ <<Sync>> \in Seq(Op) /\ \A o \in OpsOf(<<Sync>>) : o.op \in Tame
      /\ <<Drain, Sync>> \in Seq(Op) /\ \A o \in OpsOf(<<Drain, Sync>>) : o.op \in Tame
  BY <1>0, KindSeqs
<1>2. CASE DrainQueue \/ DrainItem
  <2>1. agenda' # <<>> /\ Head(agenda') \in Op /\ Head(agenda').op \in Tame /\ agenda # <<>>
    BY <1>2, LoudDrain DEF Tame, DrainQueue, DrainItem, Running
  <2>2. PICK o : Continue(<<o>>)
    BY <1>2, Zenon DEF DrainQueue, DrainItem
  <2>3. Head(agenda') = o
    <3>1. agenda \in Seq(Op)
      BY DEF TypeOK
    <3>2. Tail(agenda) \in Seq(Op)
      BY <2>1, <3>1
    <3>3. Head(<<o>> \o Tail(agenda)) = o
      BY <3>2
    <3> QED BY <2>2, <3>3 DEF Continue
  <2> QED BY <2>1, <2>2, <2>3, KindSeqs, PushKinds
<1>3. CASE DrainEnd \/ sync_queue_occupancy \/ EndSet
  <2>1. agenda # <<>> /\ Continue(<<>>)
    BY <1>3 DEF DrainEnd, sync_queue_occupancy, EndSet, Running
  <2> QED BY <1>1, <2>1, PushKinds
<1>4. CASE ClearPriority
  <2> DEFINE o == [op |-> "unboost", set |-> autoPaused]
  <2>1. agenda # <<>> /\ Continue(<<o>>)
    BY <1>4 DEF ClearPriority, Running
  <2>2. o \in Op /\ o.op \in Tame
    <3>1. autoPaused \in SUBSET Tasks
      BY DEF TypeOK
    <3> QED BY <3>1, OpForms DEF Tame
  <2> HIDE DEF o
  <2> QED BY <2>1, <2>2, KindSeqs, PushKinds
<1>5. ASSUME NEW t \in Tasks, ResumeTaskInner(t) PROVE Pushed(Tame)
  <2>1. agenda # <<>> /\ (Continue(<<>>) \/ Continue(<<Drain, Sync>>) \/ Continue(<<Sync>>))
    BY <1>5, Zenon DEF ResumeTaskInner, TryResume, Running
  <2> QED BY <1>1, <2>1, PushKinds
<1>6. ASSUME NEW t \in Tasks, FinishPendingPause(t) PROVE Pushed(Tame)
  <2>1. PICK p : Continue(<<Drain>> \o Opt(p, Do("resumeAuto", t)))
    BY <1>6, Zenon DEF FinishPendingPause
  <2> DEFINE r == Do("resumeAuto", t)
  <2>2. r \in Op /\ r.op \in Tame /\ agenda # <<>>
    BY <1>0, <1>6 DEF FinishPendingPause, Running
  <2> HIDE DEF r
  <2>3. <<Drain>> \o Opt(p, r) \in Seq(Op) /\ \A o \in OpsOf(<<Drain>> \o Opt(p, r)) : o.op \in Tame
    BY <1>0, <2>2, KindSeqs
  <2>4. Continue(<<Drain>> \o Opt(p, r))
    BY <2>1 DEF r
  <2> QED BY <2>2, <2>3, <2>4, PushKinds
<1>7. ASSUME NEW t \in Tasks, AutoRetry(t) PROVE Pushed(Tame)
  <2>1. agenda # <<>> /\ Continue(<<>>)
    BY <1>7 DEF AutoRetry, Running
  <2> QED BY <1>1, <2>1, PushKinds
<1>8. ASSUME NEW t \in Tasks, ResumeBoosted(t) PROVE Pushed(Tame)
  <2> DEFINE rest == [Head(agenda) EXCEPT !.set = @ \ {t}]
             r == Do("resume", t)
  <2>1. agenda # <<>> /\ Head(agenda) \in Op /\ Head(agenda).op = "unboost"
    BY <1>8, RunningFacts DEF ResumeBoosted
  <2>2. rest \in Op /\ rest.op \in Tame
    BY <2>1, OpEdits DEF Tame
  <2>3. PICK p : Continue(Opt(p, r) \o <<rest>>)
    BY <1>8, Zenon DEF ResumeBoosted
  <2>4. r \in Op /\ r.op \in Tame
    BY <1>0
  <2> HIDE DEF rest, r
  <2>5. Opt(p, r) \o <<rest>> \in Seq(Op) /\ \A o \in OpsOf(Opt(p, r) \o <<rest>>) : o.op \in Tame
    BY <2>2, <2>4, KindSeqs
  <2> QED BY <2>1, <2>3, <2>5, PushKinds
<1> QED BY <1>2, <1>3, <1>4, <1>5, <1>6, <1>7, <1>8

(* The other handlers that delete nothing. *)
Wide == Tame \cup {"guardBoost", "autoPause", "pause", "pauseBatch"}

LEMMA WideSteps ==
  ASSUME TypeOK, AgendaInv(agenda), NEW t \in Tasks,
         \/ PauseTaskInner(t) \/ GuardBoost(t) \/ BoostCheck(t) \/ BoostCollect(t)
         \/ AutoPause(t) \/ PauseBatchItem(t) \/ ResetTask(t) \/ EraseTask(t)
  PROVE  Pushed(Wide)
<1>0. /\ Drain \in Op /\ Drain.op \in Wide /\ Sync \in Op /\ Sync.op \in Wide
      /\ ClearBoost \in Op /\ ClearBoost.op \in Wide
      /\ \A n \in {"resume", "guardBoost", "pause"} : Do(n, t) \in Op /\ Do(n, t).op \in Wide
  BY OpForms, OpenForms DEF Wide, Tame
<1>1. agenda # <<>>
  BY DEF PauseTaskInner, GuardBoost, BoostCheck, BoostCollect, AutoPause, PauseBatchItem, ResetTask,
         EraseTask, Running
<1>2. Head(agenda) \in Op
  BY <1>1, HeadInOps
<1>3. CASE PauseTaskInner(t)
  <2> DEFINE g == Do("guardBoost", t)
  <2>1. g \in Op /\ g.op \in Wide
    BY <1>0
  <2>2. Continue(<<Sync>>) \/ Continue(<<Drain, g, Sync>>)
    BY <1>3, Zenon DEF PauseTaskInner
  <2> HIDE DEF g
  <2>3. /\ <<Sync>> \in Seq(Op) /\ \A o \in OpsOf(<<Sync>>) : o.op \in Wide
        /\ <<Drain, g, Sync>> \in Seq(Op) /\ \A o \in OpsOf(<<Drain, g, Sync>>) : o.op \in Wide
    BY <1>0, <2>1, KindSeqs
  <2> QED BY <1>1, <2>2, <2>3, PushKinds
<1>4. CASE GuardBoost(t) \/ BoostCheck(t)
  <2>1. PICK p : Continue(Opt(p, ClearBoost))
    BY <1>4, Zenon DEF GuardBoost, BoostCheck
  <2>2. Opt(p, ClearBoost) \in Seq(Op) /\ \A o \in OpsOf(Opt(p, ClearBoost)) : o.op \in Wide
    BY <1>0, KindSeqs
  <2> QED BY <1>1, <2>1, <2>2, PushKinds
<1>5. CASE BoostCollect(t)
  <2>1. PICK S : Continue(<<[op |-> "autoPause", set |-> S]>>) /\ S \in SUBSET Tasks
    <3>1. ActiveTasks \in SUBSET Tasks /\ QueuedTasks(queue) \in SUBSET Tasks
      <4>1. queue \in Seq(Tasks)
        BY DEF TypeOK
      <4> QED BY <4>1 DEF ActiveTasks, QueuedTasks
    <3>2. CASE Running("boostActive")
      BY <1>5, <3>1, <3>2 DEF BoostCollect
    <3>3. CASE Running("boostQueued")
      <4>1. ~Running("boostActive")
        BY <3>3 DEF Running
      <4> QED BY <1>5, <3>1, <3>3, <4>1 DEF BoostCollect
    <3>4. CASE Running("boostStray")
      <4>1. ~Running("boostActive") /\ ~Running("boostQueued")
        BY <3>4 DEF Running
      <4> QED BY <1>5, <3>1, <3>4, <4>1 DEF BoostCollect
    <3> QED BY <1>5, <3>2, <3>3, <3>4 DEF BoostCollect
  <2> DEFINE o == [op |-> "autoPause", set |-> S]
  <2>2. o \in Op /\ o.op \in Wide /\ Continue(<<o>>)
    BY <2>1, OpForms DEF Wide
  <2> HIDE DEF o
  <2> QED BY <1>1, <2>2, KindSeqs, PushKinds
<1>6. CASE AutoPause(t) \/ PauseBatchItem(t)
  <2> DEFINE rest == [Head(agenda) EXCEPT !.set = @ \ {t}]
             r == Do("pause", t)
  <2>1. Head(agenda).op \in {"autoPause", "pauseBatch"} /\ Continue(<<r, rest>>)
    BY <1>6 DEF AutoPause, PauseBatchItem, Running
  <2>2. rest \in Op /\ rest.op \in Wide
    BY <1>2, <2>1, OpEdits DEF Wide
  <2>3. r \in Op /\ r.op \in Wide
    BY <1>0
  <2> HIDE DEF rest, r
  <2> QED BY <1>1, <2>1, <2>2, <2>3, KindSeqs, PushKinds
<1>7. CASE ResetTask(t)
  <2> DEFINE r == Do("resume", t)
  <2>1. r \in Op /\ r.op \in Wide /\ Continue(<<r>>)
    BY <1>0, <1>7 DEF ResetTask
  <2> HIDE DEF r
  <2> QED BY <1>1, <2>1, KindSeqs, PushKinds
<1>8. CASE EraseTask(t)
  <2>1. PICK p : Continue(Opt(p, ClearBoost) \o <<Drain, Sync>>)
    BY <1>8, Zenon DEF EraseTask
  <2>2. /\ Opt(p, ClearBoost) \o <<Drain, Sync>> \in Seq(Op)
        /\ \A o \in OpsOf(Opt(p, ClearBoost) \o <<Drain, Sync>>) : o.op \in Wide
    BY <1>0, KindSeqs
  <2> QED BY <1>1, <2>1, <2>2, PushKinds
<1> QED BY <1>3, <1>4, <1>5, <1>6, <1>7, <1>8

LEMMA ForgetSteps ==
  ASSUME TypeOK, NEW t \in Tasks, ForgetDeleted(t)
  PROVE  Pushed({"clearBoost", "forget"})
<1> DEFINE rest == [Head(agenda) EXCEPT !.set = @ \ {t}]
<1>1. agenda # <<>> /\ Head(agenda) \in Op /\ Head(agenda).op = "forget"
  BY RunningFacts DEF ForgetDeleted
<1>2. rest \in Op /\ rest.op = "forget" /\ ClearBoost \in Op /\ ClearBoost.op = "clearBoost"
  BY <1>1, OpEdits, OpForms, OpenForms
<1>3. PICK p : Continue(Opt(p, ClearBoost) \o <<rest>>)
  BY Zenon DEF ForgetDeleted
<1> HIDE DEF rest
<1> DEFINE K == {"clearBoost", "forget"}
<1>4. rest.op \in K /\ ClearBoost.op \in K
  BY <1>2
<1> HIDE DEF K
<1>5. /\ Opt(p, ClearBoost) \o <<rest>> \in Seq(Op)
      /\ \A o \in OpsOf(Opt(p, ClearBoost) \o <<rest>>) : o.op \in K
  BY <1>2, <1>4, KindSeqs
<1>6. Pushed(K)
  BY <1>1, <1>3, <1>5, PushKinds
<1> QED BY <1>6 DEF K

(* The tasks and queues sync_queue_occupancy looks at, also in the middle   *)
(* of a drain.                                                              *)
Waiting == QueuedTasks(Line)
Held == ActiveTasks \cup Waiting \cup retrySched
Clean == occupied = {QueueOf[t] : t \in Held}

Erasing == {"reap", "erase", "reapBatch", "eraseBatch"}
Batched == {"loadBatch", "resumeBatch"}
Syncing == {"sync", "pause"} \cup Erasing

(* How the agenda looks without batch_resume: a deletion has it for itself, *)
(* only tame operations run beside a retry, and a retry or the forgetting   *)
(* of deleted tasks still has a sync at the end.                            *)
EraseAlone == \A o \in OpsOf(agenda) : o.op \in Erasing => agenda = <<o>>
RetryTame == \A o, p \in OpsOf(agenda) : o.op = "retry" => p.op \in Tame \cup {"retry"}
LastSync == \A o \in OpsOf(agenda) : o.op \in {"retry", "forget"} => agenda[Len(agenda)] = Sync
Unbatched == \A o \in OpsOf(agenda) : o.op \notin Batched
AgendaOcc == EraseAlone /\ RetryTame /\ LastSync /\ Unbatched

(* Whoever waits has a row, until it is unqueued and then deleted.          *)
WaitRows ==
    /\ \A t \in Waiting : HasRow(t)
    /\ \A o \in OpsOf(agenda) : /\ o.op \in {"reap", "erase"} => o.task \notin Waiting
                                /\ o.op \in {"reapBatch", "eraseBatch"} => o.set \cap Waiting = {}

(* A task whose pause is outstanding waits for no automatic retry, and the  *)
(* task about to be scheduled for one has no pause outstanding.             *)
RetryQuiet ==
    /\ \A t \in Tasks : Flushing(t) => t \notin retrySched
    /\ \A o \in OpsOf(agenda) : o.op = "retry" => ~Flushing(o.task)

(* A sync is to come: one is on the agenda, or what ends in one is, or the  *)
(* handler is about to resume a task it has to start or to queue.           *)
SyncDue == \/ \E o \in OpsOf(agenda) : o.op \in Syncing
           \/ /\ Running("resume")
              /\ LET t == Head(agenda).task IN ~Flushing(t) /\ ~IsActive(t) /\ ~AlreadyQueued(t)

OccInv == AgendaOcc /\ WaitRows /\ RetryQuiet /\ (SyncDue \/ Clean)

LEMMA PushedOps ==
  ASSUME TypeOK, NEW K, Pushed(K)
  PROVE  /\ agenda \in Seq(Op) /\ agenda # <<>> /\ Head(agenda) \in OpsOf(agenda)
         /\ OpsOf(Tail(agenda)) \subseteq OpsOf(agenda)
         /\ OpsOf(Tail(agenda)) \subseteq OpsOf(agenda')
         /\ \A o \in OpsOf(agenda') : o.op \in K \/ o \in OpsOf(Tail(agenda))
         /\ \A o : agenda = <<o>> => OpsOf(Tail(agenda)) = {} /\ Head(agenda) = o
         /\ Len(agenda) = 1 => OpsOf(Tail(agenda)) = {} /\ agenda[Len(agenda)] = Head(agenda)
         /\ Len(agenda) # 1 => agenda'[Len(agenda')] = agenda[Len(agenda)]
<1>1. PICK ops \in Seq(Op) : Continue(ops) /\ \A o \in OpsOf(ops) : o.op \in K
  BY DEF Pushed
<1>2. agenda \in Seq(Op) /\ agenda # <<>>
  BY DEF Pushed, TypeOK
<1>3. /\ OpsOf(agenda) = {Head(agenda)} \cup OpsOf(Tail(agenda))
      /\ OpsOf(agenda') = OpsOf(ops) \cup OpsOf(Tail(agenda))
  BY <1>1, <1>2, ContinueFacts DEF Continue
<1>4. ASSUME NEW o, agenda = <<o>> PROVE OpsOf(Tail(agenda)) = {} /\ Head(agenda) = o
  <2>1. Tail(<<o>>) = <<>> /\ Head(<<o>>) = o
    OBVIOUS
  <2> QED BY <1>4, <2>1 DEF OpsOf
<1>6. ASSUME Len(agenda) = 1 PROVE OpsOf(Tail(agenda)) = {} /\ agenda[Len(agenda)] = Head(agenda)
  <2>1. Tail(agenda) = <<>> /\ agenda[1] = Head(agenda)
    BY <1>2, <1>6, EmptyTail
  <2>2. OpsOf(<<>>) = {}
    BY DEF OpsOf
  <2> QED BY <1>6, <2>1, <2>2
<1>5. ASSUME Len(agenda) # 1 PROVE agenda'[Len(agenda')] = agenda[Len(agenda)]
  <2> DEFINE n == Len(agenda)
             m == Len(ops)
             c == ops \o Tail(agenda)
  <2>0. Len(agenda) # 0
    BY <1>2, EmptySeq
  <2>1. n \in Nat /\ n > 1 /\ m \in Nat
    <3>1. n \in Nat /\ m \in Nat /\ n # 0 /\ n # 1
      BY <1>1, <1>2, <1>5, <2>0, LenProperties
    <3> HIDE DEF n, m
    <3> QED BY <3>1
  <2>2. Tail(agenda) \in Seq(Op) /\ Len(Tail(agenda)) = n - 1 /\ Tail(agenda)[n - 1] = agenda[n]
    BY <1>2, <2>1
  <2>3. Len(c) = m + (n - 1) /\ c[m + (n - 1)] = Tail(agenda)[n - 1]
    BY <2>1, <2>2
  <2> QED BY <1>1, <2>2, <2>3 DEF Continue
<1> QED BY <1>1, <1>2, <1>3, <1>4, <1>5, <1>6

(* What handlers may put on the agenda freely. *)
LEMMA AgendaOccFree ==
  ASSUME TypeOK, AgendaOcc, NEW K, Pushed(K),
         K \cap ({"retry", "forget"} \cup Batched \cup Erasing) = {},
         (\E o \in OpsOf(agenda) : o.op = "retry") => K \subseteq Tame
  PROVE  AgendaOcc'
<1>1. /\ \A o \in OpsOf(agenda') : o.op \in K \/ o \in OpsOf(Tail(agenda))
      /\ OpsOf(Tail(agenda)) \subseteq OpsOf(agenda)
      /\ \A o : agenda = <<o>> => OpsOf(Tail(agenda)) = {} /\ Head(agenda) = o
      /\ Len(agenda) = 1 => OpsOf(Tail(agenda)) = {}
      /\ Len(agenda) # 1 => agenda'[Len(agenda')] = agenda[Len(agenda)]
      /\ agenda \in Seq(Op) /\ agenda # <<>>
  BY PushedOps
<1>2. EraseAlone'
  BY <1>1 DEF AgendaOcc, EraseAlone
<1>3. RetryTame'
  BY <1>1 DEF AgendaOcc, RetryTame
<1>4. Unbatched'
  BY <1>1 DEF AgendaOcc, Unbatched
<1>5. LastSync'
  <2> SUFFICES ASSUME NEW o \in OpsOf(agenda'), o.op \in {"retry", "forget"}
               PROVE  agenda'[Len(agenda')] = Sync
    BY DEF LastSync
  <2>1. o \in OpsOf(Tail(agenda)) /\ agenda[Len(agenda)] = Sync
    BY <1>1 DEF AgendaOcc, LastSync
  <2> QED BY <1>1, <2>1
<1> QED BY <1>2, <1>3, <1>4, <1>5 DEF AgendaOcc

LEMMA TrioLast ==
  ASSUME NEW a, NEW b, NEW c
  PROVE  <<a, b, c>>[Len(<<a, b, c>>)] = c
OBVIOUS

(* A deletion goes on by itself. *)
LEMMA AgendaOccErase ==
  ASSUME TypeOK, TypeOK', AgendaOcc,
         ReapBatch \/ EraseBatch \/ (\E t \in Tasks : ReapHandle(t) \/ EraseTask(t))
  PROVE  AgendaOcc'
<1>1. agenda # <<>> /\ agenda \in Seq(Op) /\ Head(agenda).op \in Erasing
  BY DEF ReapBatch, EraseBatch, ReapHandle, EraseTask, Running, Erasing, TypeOK
<1>2. agenda = <<Head(agenda)>>
  BY <1>1, HeadInOps DEF AgendaOcc, EraseAlone
<1>3. Tail(agenda) = <<>>
  <2>1. Len(agenda) = 1
    BY <1>2, TupleFacts
  <2> QED BY <1>1, <2>1, EmptyTail
<1>4. ASSUME NEW ops \in Seq(Op), Continue(ops) PROVE agenda' = ops
  <2>1. ops \o <<>> = ops
    OBVIOUS
  <2> QED BY <1>3, <1>4, <2>1 DEF Continue
<1>5. ASSUME NEW o \in Op, Continue(<<o>>), o.op \in Erasing PROVE AgendaOcc'
  <2>1. agenda' = <<o>>
    <3>1. <<o>> \in Seq(Op)
      BY <1>5
    <3> QED BY <1>4, <1>5, <3>1
  <2>2. OpsOf(<<o>>) = {o} /\ OpsOf(agenda') = OpsOf(<<o>>)
    BY <2>1 DEF OpsOf
  <2>3. \A p \in OpsOf(agenda') : p = o
    BY <2>2
  <2> QED BY <1>5, <2>1, <2>3 DEF AgendaOcc, EraseAlone, RetryTame, LastSync, Unbatched, Erasing, Batched
<1>6. Head(agenda) \in Op /\ Drain \in Op /\ Sync \in Op /\ ClearBoost \in Op
      /\ Drain.op = "drain" /\ Sync.op = "sync" /\ ClearBoost.op = "clearBoost"
  BY <1>1, HeadInOps, OpForms, OpenForms
<1>7. CASE ReapBatch
  <2> DEFINE e == [op |-> "eraseBatch", set |-> Head(agenda).set]
  <2>1. Head(agenda).set \in SUBSET Tasks
    BY <1>6, <1>7, OpFields DEF ReapBatch, Running
  <2>2. e \in Op /\ e.op \in Erasing /\ Continue(<<e>>)
    BY <1>7, <2>1, OpForms DEF ReapBatch, Erasing
  <2> HIDE DEF e
  <2> QED BY <1>5, <2>2
<1>8. ASSUME NEW t \in Tasks, ReapHandle(t) PROVE AgendaOcc'
  <2> DEFINE e == Do("erase", t)
  <2>1. e \in Op /\ e.op \in Erasing /\ Continue(<<e>>)
    BY <1>8, OpForms, OpenForms DEF ReapHandle, Erasing
  <2> HIDE DEF e
  <2> QED BY <1>5, <2>1
<1>9. CASE EraseBatch
  <2> DEFINE f == [op |-> "forget", set |-> Head(agenda).set]
  <2>1. Head(agenda).set \in SUBSET Tasks
    BY <1>6, <1>9, OpFields DEF EraseBatch, Running
  <2>2. f \in Op /\ f.op = "forget" /\ Continue(<<f, Drain, Sync>>)
    BY <1>9, <2>1, OpForms DEF EraseBatch
  <2> HIDE DEF f
  <2>3. <<f, Drain, Sync>> \in Seq(Op) /\ OpsOf(<<f, Drain, Sync>>) = {f, Drain, Sync}
    BY <1>6, <2>2 DEF OpsOf
  <2>4. agenda' = <<f, Drain, Sync>>
    BY <1>4, <2>2, <2>3
  <2>5. agenda'[Len(agenda')] = Sync
    BY <2>4, TrioLast
  <2>6. \A p \in OpsOf(agenda') : p \in {f, Drain, Sync}
    BY <2>3, <2>4
  <2> QED BY <1>6, <2>2, <2>5, <2>6 DEF AgendaOcc, EraseAlone, RetryTame, LastSync, Unbatched, Erasing, Batched
<1>10. ASSUME NEW t \in Tasks, EraseTask(t) PROVE AgendaOcc'
  <2>1. PICK p : Continue(Opt(p, ClearBoost) \o <<Drain, Sync>>)
    BY <1>10, Zenon DEF EraseTask
  <2> DEFINE K == {"clearBoost", "drain", "sync"}
             c == Opt(p, ClearBoost) \o <<Drain, Sync>>
  <2>2. ClearBoost.op \in K /\ Drain.op \in K /\ Sync.op \in K
    BY <1>6
  <2> HIDE DEF K
  <2>3. c \in Seq(Op) /\ \A o \in OpsOf(c) : o.op \in K
    BY <1>6, <2>2, KindSeqs
  <2>4. agenda' = c
    BY <1>4, <2>1, <2>3
  <2>5. \A o \in OpsOf(agenda') : o.op \in K
    BY <2>3, <2>4
  <2> QED BY <2>5 DEF AgendaOcc, EraseAlone, RetryTame, LastSync, Unbatched, Erasing, Batched, K
<1> QED BY <1>7, <1>8, <1>9, <1>10

(* The handler steps left without Boost and batch_resume.                   *)
Tamed == \/ DrainQueue \/ DrainItem \/ DrainEnd \/ sync_queue_occupancy \/ ClearPriority \/ EndSet
         \/ \E t \in Tasks : \/ ResumeTaskInner(t) \/ FinishPendingPause(t) \/ AutoRetry(t)
                              \/ ResumeBoosted(t)
Widened == \E t \in Tasks : \/ PauseTaskInner(t) \/ GuardBoost(t) \/ BoostCheck(t) \/ BoostCollect(t)
                            \/ AutoPause(t) \/ PauseBatchItem(t) \/ ResetTask(t)
Erased == ReapBatch \/ EraseBatch \/ (\E t \in Tasks : ReapHandle(t) \/ EraseTask(t))
Forgotten == \E t \in Tasks : ForgetDeleted(t)

LEMMA OccSteps ==
  ASSUME TypeOK, Plain, AgendaOcc, HandlerStep
  PROVE  Tamed \/ Widened \/ Erased \/ Forgotten
<1>1. ASSUME agenda # <<>>, Head(agenda).op \in Batched \cup {"boostStart"} PROVE FALSE
  BY <1>1, HeadInOps DEF Plain, Starting, AgendaOcc, Unbatched
<1>2. ~LoadBatch /\ ~BatchResumed /\ ~\E t \in Tasks : ResumeWithRow(t)
  BY <1>1 DEF LoadBatch, BatchResumed, ResumeWithRow, Running, Batched
<1>3. ~\E t \in Tasks : BoostStart(t)
  BY <1>1 DEF BoostStart, Running
<1> QED BY <1>2, <1>3, Zenon DEF HandlerStep, Tamed, Widened, Erased, Forgotten

LEMMA AgendaOccHandler ==
  ASSUME TypeOK, TypeOK', AgendaInv(agenda), Plain, AgendaOcc, HandlerStep
  PROVE  AgendaOcc'
<1>1. CASE Tamed
  <2>1. Pushed(Tame)
    BY <1>1, TameSteps, Zenon DEF Tamed
  <2>2. Tame \cap ({"retry", "forget"} \cup Batched \cup Erasing) = {}
    BY DEF Tame, Batched, Erasing
  <2> QED BY <2>1, <2>2, AgendaOccFree
<1>2. CASE Widened
  <2>1. PICK t \in Tasks : \/ PauseTaskInner(t) \/ GuardBoost(t) \/ BoostCheck(t) \/ BoostCollect(t)
                            \/ AutoPause(t) \/ PauseBatchItem(t) \/ ResetTask(t)
    BY <1>2 DEF Widened
  <2>2. Pushed(Wide)
    BY <2>1, WideSteps, Zenon
  <2>3. Wide \cap ({"retry", "forget"} \cup Batched \cup Erasing) = {}
    BY DEF Wide, Tame, Batched, Erasing
  <2>4. agenda # <<>> /\ Head(agenda).op \notin Tame \cup {"retry"}
    BY <2>1 DEF PauseTaskInner, GuardBoost, BoostCheck, BoostCollect, AutoPause, PauseBatchItem,
                ResetTask, Running, Tame
  <2>5. ~\E o \in OpsOf(agenda) : o.op = "retry"
    BY <2>4, HeadInOps DEF AgendaOcc, RetryTame
  <2> QED BY <2>2, <2>3, <2>5, AgendaOccFree
<1>3. CASE Erased
  BY <1>3, AgendaOccErase DEF Erased
<1>4. CASE Forgotten
  <2>1. PICK t \in Tasks : ForgetDeleted(t)
    BY <1>4 DEF Forgotten
  <2>2. Pushed({"clearBoost", "forget"})
    BY <2>1, ForgetSteps
  <2>3. /\ \A o \in OpsOf(agenda') : o.op \in {"clearBoost", "forget"} \/ o \in OpsOf(Tail(agenda))
        /\ OpsOf(Tail(agenda)) \subseteq OpsOf(agenda)
        /\ \A o : agenda = <<o>> => OpsOf(Tail(agenda)) = {}
        /\ Len(agenda) = 1 => agenda[Len(agenda)] = Head(agenda)
        /\ Len(agenda) # 1 => agenda'[Len(agenda')] = agenda[Len(agenda)]
        /\ Head(agenda) \in OpsOf(agenda)
    BY <2>2, PushedOps
  <2>4. Head(agenda).op = "forget" /\ Sync.op = "sync"
    BY <2>1, OpenForms DEF ForgetDeleted, Running
  <2>5. agenda[Len(agenda)] = Sync
    BY <2>3, <2>4 DEF AgendaOcc, LastSync
  <2>6. agenda'[Len(agenda')] = Sync
    BY <2>3, <2>4, <2>5
  <2>7. \A o \in OpsOf(agenda) : o.op # "retry"
    BY <2>3, <2>4 DEF AgendaOcc, RetryTame, Tame
  <2>8. EraseAlone'
    BY <2>3 DEF AgendaOcc, EraseAlone, Erasing
  <2> QED BY <2>3, <2>6, <2>7, <2>8 DEF AgendaOcc, RetryTame, LastSync, Unbatched, Batched
<1> QED BY <1>1, <1>2, <1>3, <1>4, OccSteps

(* What the other steps put on an empty agenda. *)
LEMMA AgendaOccPlain ==
  ASSUME \A o \in OpsOf(agenda') : o.op \notin {"retry", "forget"} \cup Batched \cup Erasing
  PROVE  AgendaOcc'
BY DEF AgendaOcc, EraseAlone, RetryTame, LastSync, Unbatched

(* A deletion has the agenda for itself; the other commands start nothing   *)
(* else than these operations.                                              *)
Commanded == {"drain", "sync", "pause", "resume", "reset"}
Alone(o) == agenda' = <<o>> /\ OpsOf(agenda') = {o}

LEMMA AloneFacts ==
  ASSUME NEW o, agenda' = <<o>>
  PROVE  Alone(o)
<1>1. OpsOf(<<o>>) = {o}
  BY DEF OpsOf
<1> QED BY <1>1 DEF Alone

LEMMA CommandOps ==
  ASSUME TypeOK, TypeOK', UserCommand, Commands \cap {"cancel", "boost", "queue"} = {}
  PROVE  \/ \A o \in OpsOf(agenda') : o.op \in Commanded
         \/ \E t \in Tasks : \E o : DeleteTask(t) /\ Alone(o) /\ o.op \in {"reap", "erase"} /\ o.task = t
         \/ \E S \in Batch : \E o : DeleteTasksBatch(S) /\ Alone(o) /\ o.op = "reapBatch" /\ o.set = S
<1>0. /\ ~\E t \in Tasks : SetPriorityTask(t) \/ CancelTask(t)
      /\ ~\E q \in Queues : StartQueue(q) \/ StopQueue(q)
  BY DEF SetPriorityTask, CancelTask, StartQueue, StopQueue, Command
<1>1. /\ Drain \in Op /\ Drain.op \in Commanded /\ Sync \in Op /\ Sync.op \in Commanded
      /\ \A t \in Tasks, n \in {"pause", "resume", "reset"} : Do(n, t) \in Op /\ Do(n, t).op \in Commanded
  BY OpForms, OpenForms DEF Commanded
<1>2. ASSUME NEW S \in Batch, DeleteTasksBatch(S)
      PROVE  \E o : Alone(o) /\ o.op = "reapBatch" /\ o.set = S
  <2>1. PICK o : agenda' = <<o>> /\ o.op = "reapBatch" /\ o.set = S
    BY <1>2 DEF DeleteTasksBatch
  <2> QED BY <2>1, AloneFacts
<1>3. ASSUME NEW t \in Tasks, DeleteTask(t)
      PROVE  \E o : Alone(o) /\ o.op \in {"reap", "erase"} /\ o.task = t
  <2>1. PICK o : agenda' = <<o>> /\ o.op \in {"reap", "erase"} /\ o.task = t
    <3>1. CASE active[t].spawned
      <4>1. agenda' = <<[op |-> "reap", task |-> t, gen |-> active[t].gen]>>
        BY <1>3, <3>1 DEF DeleteTask
      <4> QED BY <4>1
    <3>2. CASE ~active[t].spawned
      <4>1. agenda' = <<Do("erase", t)>>
        BY <1>3, <3>2 DEF DeleteTask
      <4> QED BY <4>1, OpenForms
    <3> QED BY <3>1, <3>2
  <2> QED BY <2>1, AloneFacts
<1>4. ASSUME NEW t \in Tasks, NEW later \in BOOLEAN, CreateTask(t, later)
      PROVE  \A o \in OpsOf(agenda') : o.op \in Commanded
  <2>1. agenda' = <<>> \/ agenda' = <<Drain, Sync>> \/ agenda' = <<Sync>>
    BY <1>4, Zenon DEF CreateTask
  <2> QED BY <1>1, <2>1, KindSeqs
<1>5. ASSUME NEW t \in Tasks, PauseTask(t) \/ ResumeTask(t)
      PROVE  \A o \in OpsOf(agenda') : o.op \in Commanded
  <2>1. PICK n \in {"pause", "resume"} : agenda' = <<Do(n, t)>>
    BY <1>5 DEF PauseTask, ResumeTask
  <2> DEFINE r == Do(n, t)
  <2>2. r \in Op /\ r.op \in Commanded
    BY <1>1
  <2> HIDE DEF r
  <2>3. \A o \in OpsOf(<<r>>) : o.op \in Commanded
    BY <2>2, KindSeqs
  <2> QED BY <2>1, <2>3 DEF r
<1>6. ASSUME NEW t \in Tasks, RestartTask(t) PROVE \A o \in OpsOf(agenda') : o.op \in Commanded
  <2>1. PICK p : agenda' = Opt(p, Do("pause", t)) \o <<Do("reset", t)>>
    BY <1>6, Zenon DEF RestartTask
  <2> DEFINE u == Do("pause", t)
             r == Do("reset", t)
  <2>2. r \in Op /\ r.op \in Commanded /\ u \in Op /\ u.op \in Commanded
    BY <1>1
  <2> HIDE DEF r, u
  <2>3. \A o \in OpsOf(Opt(p, u) \o <<r>>) : o.op \in Commanded
    BY <2>2, KindSeqs
  <2> QED BY <2>1, <2>3 DEF r, u
<1>7. ASSUME NEW n \in Limits, SetMaxConcurrent(n) PROVE \A o \in OpsOf(agenda') : o.op \in Commanded
  <2>1. agenda' = <<Drain>>
    BY <1>7 DEF SetMaxConcurrent
  <2>2. \A o \in OpsOf(<<Drain>>) : o.op \in Commanded
    BY <1>1, KindSeqs
  <2> QED BY <2>1, <2>2
<1>8. CASE \E S \in Batch : DeleteTasksBatch(S)
  BY <1>2, <1>8
<1>9. CASE \E t \in Tasks : DeleteTask(t)
  BY <1>3, <1>9
<1>10. ASSUME ~\E S \in Batch : DeleteTasksBatch(S), ~\E t \in Tasks : DeleteTask(t)
       PROVE  \A o \in OpsOf(agenda') : o.op \in Commanded
  BY <1>0, <1>4, <1>5, <1>6, <1>7, <1>10, Zenon DEF UserCommand
<1> QED BY <1>8, <1>9, <1>10

LEMMA AgendaOccCommand ==
  ASSUME TypeOK, TypeOK', UserCommand, Commands \cap {"cancel", "boost", "queue"} = {}
  PROVE  AgendaOcc'
<1>1. CASE \A o \in OpsOf(agenda') : o.op \in Commanded
  BY <1>1, AgendaOccPlain DEF Batched, Erasing, Commanded
<1>2. ASSUME NEW o, Alone(o), o.op \in {"reap", "erase", "reapBatch"} PROVE AgendaOcc'
  BY <1>2 DEF Alone, AgendaOcc, EraseAlone, RetryTame, LastSync, Unbatched, Batched
<1> QED BY <1>1, <1>2, CommandOps

(* on_task_done schedules a retry of a task without an outstanding pause,   *)
(* and announces the queues at its end.                                     *)
LEMMA TaskDoneRetry ==
  ASSUME TypeOK, TypeOK', PauseInv, GenInv, OnTaskDone
  PROVE  /\ AgendaOcc' /\ Sync \in OpsOf(agenda')
         /\ \A o \in OpsOf(agenda') : /\ o.op \notin Erasing
                                      /\ o.op = "retry" => ~Flushing(o.task)
<1> DEFINE t == Head(doneCh).task
           g == Head(doneCh).gen
           m == GenerationMatched(t, g)
           b == m /\ boost = t
           f == [op |-> "finish", task |-> t, gen |-> g]
           r == Do("retry", t)
<1>1. /\ agenda' = Opt(b, ClearBoost) \o <<f>> \o Opt(m, r) \o <<Sync>>
      /\ doneCh # <<>> /\ doneCh \in Seq([task : Tasks, gen : Nat])
  BY DEF OnTaskDone, TypeOK
<1>2. t \in Tasks /\ g \in Nat /\ g # 0
  <2> DEFINE T == [task : Tasks, gen : Nat]
  <2>1. doneCh \in Seq(T) /\ doneCh # <<>> /\ Head(doneCh) \in T
    BY <1>1, SeqFacts
  <2>2. Head(doneCh) \in OpsOf(doneCh)
    <3> HIDE DEF T
    <3> QED BY <2>1 DEF OpsOf
  <2>3. g \in 1..gen
    BY <2>2 DEF GenInv
  <2>4. gen \in Nat
    BY DEF TypeOK
  <2> QED BY <2>1, <2>3, <2>4
<1>3. m => ~Flushing(t)
  BY <1>2 DEF GenerationMatched, PauseInv, PauseExclusive, Flushing, IsActive
<1>4. /\ f \in Op /\ f.op = "finish" /\ r \in Op /\ r.op = "retry" /\ r.task = t
      /\ ClearBoost \in Op /\ ClearBoost.op = "clearBoost" /\ Sync \in Op /\ Sync.op = "sync"
  BY <1>2, OpForms, OpenForms
<1> HIDE DEF f, r, m, b
<1> DEFINE c1 == Opt(b, ClearBoost) \o <<f>>
           c2 == c1 \o Opt(m, r)
           c3 == c2 \o <<Sync>>
<1>5. /\ Opt(b, ClearBoost) \in Seq(Op) /\ OpsOf(Opt(b, ClearBoost)) \subseteq {ClearBoost}
      /\ Opt(m, r) \in Seq(Op) /\ OpsOf(Opt(m, r)) = (IF m THEN {r} ELSE {})
      /\ <<f>> \in Seq(Op) /\ OpsOf(<<f>>) = {f} /\ <<Sync>> \in Seq(Op) /\ OpsOf(<<Sync>>) = {Sync}
  BY <1>4, ShortSeqs
<1>6. c1 \in Seq(Op) /\ OpsOf(c1) \subseteq {ClearBoost, f}
  <2>1. c1 \in Seq(Op) /\ OpsOf(c1) = OpsOf(Opt(b, ClearBoost)) \cup OpsOf(<<f>>)
    BY <1>5, CatFacts
  <2> QED BY <1>5, <2>1
<1> HIDE DEF c1
<1>7. c2 \in Seq(Op) /\ OpsOf(c2) \subseteq {ClearBoost, f} \cup (IF m THEN {r} ELSE {})
  BY <1>5, <1>6, CatFacts
<1> HIDE DEF c2
<1>8. /\ c3 \in Seq(Op) /\ OpsOf(c3) \subseteq {ClearBoost, f, Sync} \cup (IF m THEN {r} ELSE {})
      /\ Sync \in OpsOf(c3)
  <2>1. c3 \in Seq(Op) /\ OpsOf(c3) = OpsOf(c2) \cup OpsOf(<<Sync>>)
    BY <1>5, <1>7, CatFacts
  <2> QED BY <1>5, <1>7, <2>1
<1>9. c3[Len(c3)] = Sync
  BY <1>7
<1>10. agenda' = c3
  BY <1>1 DEF c1, c2
<1> HIDE DEF c3
<1>11. \A o \in OpsOf(agenda') : /\ o.op \in Tame \cup {"retry"}
                                 /\ o.op = "retry" => m /\ o.task = t
  <2>1. \A o \in OpsOf(c3) : o \in {ClearBoost, f, Sync} \/ (m /\ o = r)
    BY <1>8
  <2> QED BY <1>4, <1>10, <2>1 DEF Tame
<1>12. AgendaOcc'
  <2>1. (Tame \cup {"retry"}) \cap (Batched \cup Erasing) = {}
    BY DEF Tame, Batched, Erasing
  <2> QED BY <1>9, <1>10, <1>11, <2>1 DEF AgendaOcc, EraseAlone, RetryTame, LastSync, Unbatched
<1> QED BY <1>3, <1>8, <1>10, <1>11, <1>12 DEF Tame, Erasing

LEMMA LiveUpdate ==
  ASSUME TypeOK, NEW t \in Tasks, NEW s \in Live, NEW e \in {"", "cancelled", "retriable", "fatal"}
  PROVE  \A u \in Tasks : HasRow(u) => UpdateStatus(t, s, e)[u].status \in Live
<1>1. db \in [Tasks -> Row]
  BY DEF TypeOK
<1> QED BY <1>1 DEF UpdateStatus, HasRow

(* Only a deletion takes a row away. *)
RowsKept == \A u \in Tasks : HasRow(u) => HasRow(u)'

LEMMA RowsHandler ==
  ASSUME TypeOK, Tamed \/ Widened \/ Forgotten
  PROVE  RowsKept
<1>0. UNCHANGED db => RowsKept
  BY DEF RowsKept, HasRow
<1>1. ASSUME NEW t \in Tasks, NEW s \in Live, db' = UpdateStatus(t, s, "") PROVE RowsKept
  BY <1>1, LiveUpdate DEF RowsKept, HasRow
<1>2. "paused" \in Live /\ "pending" \in Live
  BY DEF Live
<1>3. CASE DrainQueue \/ DrainItem \/ DrainEnd \/ sync_queue_occupancy \/ ClearPriority \/ EndSet
  <2>1. UNCHANGED db
    BY <1>3, Zenon DEF DrainQueue, DrainItem, DrainEnd, sync_queue_occupancy, ClearPriority, EndSet
  <2> QED BY <1>0, <2>1
<1>4. ASSUME NEW t \in Tasks, ResumeTaskInner(t) PROVE RowsKept
  <2>1. UNCHANGED db \/ db' = UpdateStatus(t, "pending", "")
    BY <1>4, Zenon DEF ResumeTaskInner, TryResume
  <2> QED BY <1>0, <1>1, <1>2, <2>1
<1>5. ASSUME NEW t \in Tasks, PauseTaskInner(t) \/ ResetTask(t) PROVE RowsKept
  <2>1. UNCHANGED db \/ db' = UpdateStatus(t, "pending", "") \/ db' = UpdateStatus(t, "paused", "")
    BY <1>5, Zenon DEF PauseTaskInner, ResetTask
  <2> QED BY <1>0, <1>1, <1>2, <2>1
<1>6. ASSUME NEW t \in Tasks,
             \/ FinishPendingPause(t) \/ AutoRetry(t) \/ ResumeBoosted(t) \/ GuardBoost(t)
             \/ BoostCheck(t) \/ BoostCollect(t) \/ AutoPause(t) \/ PauseBatchItem(t) \/ ForgetDeleted(t)
      PROVE  RowsKept
  <2>1. UNCHANGED db
    BY <1>6, Zenon DEF FinishPendingPause, AutoRetry, ResumeBoosted, GuardBoost, BoostCheck, BoostCollect,
                       AutoPause, PauseBatchItem, ForgetDeleted
  <2> QED BY <1>0, <2>1
<1> QED BY <1>3, <1>4, <1>5, <1>6, Zenon DEF Tamed, Widened, Forgotten

(* Steps that do not delete leave no deletion on the agenda. *)
LEMMA NoErase ==
  ASSUME TypeOK, AgendaInv(agenda), AgendaOcc, Tamed \/ Widened \/ Forgotten
  PROVE  \A o \in OpsOf(agenda') : o.op \notin Erasing
<1>1. ASSUME NEW K, Pushed(K), K \cap Erasing = {} PROVE \A o \in OpsOf(agenda') : o.op \notin Erasing
  <2>1. /\ \A o \in OpsOf(agenda') : o.op \in K \/ o \in OpsOf(Tail(agenda))
        /\ OpsOf(Tail(agenda)) \subseteq OpsOf(agenda)
        /\ \A o : agenda = <<o>> => OpsOf(Tail(agenda)) = {}
    BY <1>1, PushedOps
  <2> QED BY <1>1, <2>1 DEF AgendaOcc, EraseAlone
<1>2. CASE Tamed
  <2>1. Pushed(Tame)
    BY <1>2, TameSteps, Zenon DEF Tamed
  <2> QED BY <1>1, <2>1 DEF Tame, Erasing
<1>3. CASE Widened
  <2>1. Pushed(Wide)
    BY <1>3, WideSteps, Zenon DEF Widened
  <2> QED BY <1>1, <2>1 DEF Wide, Tame, Erasing
<1>4. CASE Forgotten
  <2>1. Pushed({"clearBoost", "forget"})
    BY <1>4, ForgetSteps DEF Forgotten
  <2> QED BY <1>1, <2>1 DEF Erasing
<1> QED BY <1>2, <1>3, <1>4

(* Nobody without a row joins the line. *)
LEMMA LineHandlerMoves ==
  ASSUME TypeOK, TypeOK', AgendaInv(agenda), LineInv, Plain, AgendaOcc, HandlerStep
  PROVE  \A u \in Waiting' : u \in Waiting \/ HasRow(u)
<1>1. CASE DrainQueue \/ DrainEnd \/ DrainItem
  BY <1>1, DrainMoves DEF Waiting
<1> SUFFICES ASSUME ~DrainQueue, ~DrainEnd, ~DrainItem
             PROVE  \A u \in Waiting' : u \in Waiting \/ HasRow(u)
  BY <1>1
<1>2. Line = queue /\ Line' = queue'
  BY LoopSteps, HandlerAgenda DEF Line
<1>3. queue \in Seq(Tasks)
  BY DEF TypeOK
<1>4. CASE UNCHANGED queue
  BY <1>2, <1>4 DEF Waiting
<1>5. ASSUME NEW t \in Tasks, ResumeTaskInner(t) PROVE \A u \in Waiting' : u \in Waiting \/ HasRow(u)
  <2>1. UNCHANGED queue \/ (HasRow(t) /\ queue' = Append(queue, t))
    BY <1>5, Zenon DEF ResumeTaskInner, TryResume
  <2>2. QueuedTasks(Append(queue, t)) = QueuedTasks(queue) \cup {t}
    BY <1>3, AppendFacts
  <2> QED BY <1>2, <2>1, <2>2 DEF Waiting
<1>6. ASSUME NEW t \in Tasks, PauseTaskInner(t) PROVE \A u \in Waiting' : u \in Waiting \/ HasRow(u)
  <2>1. UNCHANGED queue \/ queue' = Without(queue, {t})
    BY <1>6, Zenon DEF PauseTaskInner, Unqueue
  <2>2. QueuedTasks(Without(queue, {t})) \subseteq QueuedTasks(queue)
    BY <1>3, WithoutFacts
  <2> QED BY <1>2, <2>1, <2>2 DEF Waiting
<1>7. ASSUME NEW t \in Tasks, FinishPendingPause(t) PROVE UNCHANGED queue
  BY <1>7 DEF FinishPendingPause
<1>8. CalmStep => UNCHANGED queue
  BY CalmFacts DEF Calm
<1> QED BY <1>4, <1>5, <1>6, <1>7, <1>8, OccSteps, Zenon DEF Tamed, Widened, Erased, Forgotten, CalmStep

LEMMA WaitingTasks ==
  ASSUME TypeOK
  PROVE  Waiting \subseteq Tasks
<1>1. Line \in Seq(Tasks)
  <2>1. CASE Running("drainLoop")
    <3>1. Head(agenda).kept \in Seq(Tasks) /\ Head(agenda).rest \in Seq(Tasks)
      BY <2>1, RunningFacts, OpFields
    <3> QED BY <2>1, <3>1, LineFacts DEF Line
  <2>2. CASE ~Running("drainLoop")
    BY <2>2 DEF Line, TypeOK
  <2> QED BY <2>1, <2>2
<1> QED BY <1>1 DEF Waiting, QueuedTasks

(* How a deletion ends. *)
LEMMA EraseEnds ==
  ASSUME TypeOK, AgendaOcc, EraseBatch \/ \E t \in Tasks : EraseTask(t)
  PROVE  \A o \in OpsOf(agenda') : o.op \notin Erasing
<1>1. agenda # <<>> /\ Head(agenda) \in Op /\ Head(agenda) \in OpsOf(agenda)
      /\ Head(agenda).op \in {"eraseBatch", "erase"}
  BY HeadInOps DEF EraseBatch, EraseTask, Running
<1>2. OpsOf(Tail(agenda)) = {}
  <2>1. agenda = <<Head(agenda)>>
    BY <1>1 DEF AgendaOcc, EraseAlone, Erasing
  <2>2. Len(agenda) = 1 /\ agenda \in Seq(Op)
    BY <2>1, TupleFacts DEF TypeOK
  <2>3. Tail(agenda) = <<>> /\ OpsOf(<<>>) = {}
    BY <2>2, EmptyTail DEF OpsOf
  <2> QED BY <2>3
<1> DEFINE K == {"forget", "clearBoost", "drain", "sync"}
<1>3. ASSUME Pushed(K) PROVE \A o \in OpsOf(agenda') : o.op \notin Erasing
  <2> HIDE DEF K
  <2>1. \A o \in OpsOf(agenda') : o.op \in K
    BY <1>2, <1>3, PushedOps
  <2> QED BY <2>1 DEF K, Erasing
<1>4. /\ Drain \in Op /\ Drain.op \in K /\ Sync \in Op /\ Sync.op \in K
      /\ ClearBoost \in Op /\ ClearBoost.op \in K
  BY OpForms, OpenForms
<1>5. CASE EraseBatch
  <2> DEFINE f == [op |-> "forget", set |-> Head(agenda).set]
  <2>1. Head(agenda).set \in SUBSET Tasks
    BY <1>1, <1>5, OpFields DEF EraseBatch, Running
  <2>2. f \in Op /\ f.op \in K /\ Continue(<<f, Drain, Sync>>)
    BY <1>5, <2>1, OpForms DEF EraseBatch
  <2> HIDE DEF f, K
  <2>3. <<f, Drain, Sync>> \in Seq(Op) /\ \A o \in OpsOf(<<f, Drain, Sync>>) : o.op \in K
    BY <1>4, <2>2, KindSeqs
  <2>4. Pushed(K)
    BY <1>1, <2>2, <2>3, PushKinds
  <2> QED BY <1>3, <2>4
<1>6. ASSUME NEW t \in Tasks, EraseTask(t) PROVE \A o \in OpsOf(agenda') : o.op \notin Erasing
  <2>1. PICK p : Continue(Opt(p, ClearBoost) \o <<Drain, Sync>>)
    BY <1>6, Zenon DEF EraseTask
  <2> HIDE DEF K
  <2>2. /\ Opt(p, ClearBoost) \o <<Drain, Sync>> \in Seq(Op)
        /\ \A o \in OpsOf(Opt(p, ClearBoost) \o <<Drain, Sync>>) : o.op \in K
    BY <1>4, KindSeqs
  <2>3. Pushed(K)
    BY <1>1, <2>1, <2>2, PushKinds
  <2> QED BY <1>3, <2>3
<1> QED BY <1>5, <1>6

LEMMA RowsHandlerKept ==
  ASSUME TypeOK, TypeOK', AgendaInv(agenda), LineInv, Plain, AgendaOcc, WaitRows, HandlerStep
  PROVE  WaitRows'
<1>0. \A u \in Waiting' : u \in Waiting \/ HasRow(u)
  BY LineHandlerMoves
<1>1. Waiting' \subseteq Tasks
  <2>1. CASE DrainQueue \/ DrainEnd \/ DrainItem
    BY <2>1, DrainMoves, WaitingTasks DEF Waiting
  <2>2. CASE ~DrainQueue /\ ~DrainEnd /\ ~DrainItem
    <3>1. Line' = queue'
      BY <2>2, LoopSteps, HandlerAgenda DEF Line
    <3>2. queue' \in Seq(Tasks)
      BY DEF TypeOK
    <3> QED BY <3>1, <3>2 DEF Waiting, QueuedTasks
  <2> QED BY <2>1, <2>2
<1>2. CASE Tamed \/ Widened \/ Forgotten
  <2>1. RowsKept /\ \A o \in OpsOf(agenda') : o.op \notin Erasing
    BY <1>2, RowsHandler, NoErase
  <2> QED BY <1>0, <1>1, <2>1 DEF RowsKept, WaitRows, Erasing
<1>3. CASE Erased
  <2>1. UNCHANGED queue
    BY <1>3, CalmFacts, Zenon DEF Erased, CalmStep, Calm
  <2>2. ~Running("drainLoop") /\ ~Running("drainLoop")'
    <3>1. ~DrainQueue /\ ~DrainEnd /\ ~DrainItem /\ ~Running("drainLoop")
      BY <1>3 DEF Erased, ReapBatch, EraseBatch, ReapHandle, EraseTask, DrainQueue, DrainEnd, DrainItem, Running
    <3> QED BY <3>1, HandlerAgenda
  <2>3. Line' = Line
    BY <2>1, <2>2 DEF Line
  <2>4. Head(agenda) \in OpsOf(agenda) /\ Head(agenda) \in Op
    BY <1>3, HeadInOps DEF Erased, ReapBatch, EraseBatch, ReapHandle, EraseTask, Running
  <2>5. ASSUME NEW o \in Op, Continue(<<o>>), o.op \in Erasing
        PROVE  \A p \in OpsOf(agenda') : p = o
    <3>1. agenda = <<Head(agenda)>> 
      BY <1>3, <2>4 DEF AgendaOcc, EraseAlone, Erased, ReapBatch, EraseBatch, ReapHandle, EraseTask, Running, Erasing
    <3>2. Tail(agenda) = <<>>
      <4>1. Len(agenda) = 1 /\ agenda \in Seq(Op)
        BY <3>1, TupleFacts DEF TypeOK
      <4> QED BY <4>1, EmptyTail
    <3>3. agenda' = <<o>>
      <4>1. <<o>> \o <<>> = <<o>>
        OBVIOUS
      <4> QED BY <2>5, <3>2, <4>1 DEF Continue
    <3>4. OpsOf(<<o>>) = {o}
      BY DEF OpsOf
    <3> QED BY <3>3, <3>4
  <2>6. CASE ReapBatch
    <3> DEFINE e == [op |-> "eraseBatch", set |-> Head(agenda).set]
    <3>1. Head(agenda).set \in SUBSET Tasks
      BY <2>4, <2>6, OpFields DEF ReapBatch, Running
    <3>2. e \in Op /\ e.op = "eraseBatch" /\ Continue(<<e>>) /\ e.set = Head(agenda).set
      BY <2>6, <3>1, OpForms DEF ReapBatch
    <3>3. e.set \cap Waiting = {} /\ UNCHANGED db
      BY <2>4, <2>6, <3>2 DEF ReapBatch, WaitRows, Running
    <3> HIDE DEF e
    <3>4. \A p \in OpsOf(agenda') : p = e
      BY <2>5, <3>2 DEF Erasing
    <3> QED BY <2>3, <3>2, <3>3, <3>4 DEF WaitRows, Waiting, HasRow
  <2>7. ASSUME NEW t \in Tasks, ReapHandle(t) PROVE WaitRows'
    <3> DEFINE e == Do("erase", t)
    <3>1. e \in Op /\ e.op = "erase" /\ e.task = t /\ Continue(<<e>>)
      BY <2>7, OpForms, OpenForms DEF ReapHandle
    <3>2. t \notin Waiting /\ UNCHANGED db
      BY <2>4, <2>7 DEF ReapHandle, WaitRows, Running
    <3> HIDE DEF e
    <3>3. \A p \in OpsOf(agenda') : p = e
      BY <2>5, <3>1 DEF Erasing
    <3> QED BY <2>3, <3>1, <3>2, <3>3 DEF WaitRows, Waiting, HasRow
  <2>8. CASE EraseBatch
    <3>1. Head(agenda).set \cap Waiting = {} /\ Waiting \subseteq Tasks
      BY <2>4, <2>8, WaitingTasks DEF EraseBatch, WaitRows, Running
    <3>2. \A u \in Tasks : u \notin Head(agenda).set => db'[u] = db[u]
      BY <2>8 DEF EraseBatch
    <3>3. \A o \in OpsOf(agenda') : o.op \notin Erasing
      BY <2>8, EraseEnds
    <3> QED BY <2>3, <3>1, <3>2, <3>3 DEF WaitRows, Waiting, HasRow, Erasing
  <2>9. ASSUME NEW t \in Tasks, EraseTask(t) PROVE WaitRows'
    <3>1. t \notin Waiting /\ Waiting \subseteq Tasks
      BY <2>4, <2>9, WaitingTasks DEF EraseTask, WaitRows, Running
    <3>2. \A u \in Tasks : u # t => db'[u] = db[u]
      BY <2>9 DEF EraseTask, UpdateStatus, TypeOK
    <3>3. \A o \in OpsOf(agenda') : o.op \notin Erasing
      BY <2>9, EraseEnds
    <3> QED BY <2>3, <3>1, <3>2, <3>3 DEF WaitRows, Waiting, HasRow, Erasing
  <2> QED BY <1>3, <2>6, <2>7, <2>8, <2>9 DEF Erased
<1> QED BY <1>2, <1>3, OccSteps

LEMMA EraseSteps ==
  ASSUME TypeOK, Erased
  PROVE  Pushed({"erase", "eraseBatch", "forget", "clearBoost", "drain", "sync"})
<1> DEFINE K == {"erase", "eraseBatch", "forget", "clearBoost", "drain", "sync"}
<1>1. agenda # <<>> /\ Head(agenda) \in Op
  BY HeadInOps DEF Erased, ReapBatch, EraseBatch, ReapHandle, EraseTask, Running
<1>2. /\ Drain \in Op /\ Drain.op \in K /\ Sync \in Op /\ Sync.op \in K
      /\ ClearBoost \in Op /\ ClearBoost.op \in K
  BY OpForms, OpenForms
<1>3. CASE ReapBatch
  <2> DEFINE e == [op |-> "eraseBatch", set |-> Head(agenda).set]
  <2>1. Head(agenda).set \in SUBSET Tasks
    BY <1>1, <1>3, OpFields DEF ReapBatch, Running
  <2>2. e \in Op /\ e.op \in K /\ Continue(<<e>>)
    BY <1>3, <2>1, OpForms DEF ReapBatch
  <2> HIDE DEF e, K
  <2>3. Pushed(K)
    BY <1>1, <2>2, KindSeqs, PushKinds
  <2> QED BY <2>3 DEF K
<1>4. ASSUME NEW t \in Tasks, ReapHandle(t) PROVE Pushed(K)
  <2> DEFINE e == Do("erase", t)
  <2>1. e \in Op /\ e.op \in K /\ Continue(<<e>>)
    BY <1>4, OpForms, OpenForms DEF ReapHandle
  <2> HIDE DEF e, K
  <2> QED BY <1>1, <2>1, KindSeqs, PushKinds
<1>5. CASE EraseBatch
  <2> DEFINE f == [op |-> "forget", set |-> Head(agenda).set]
  <2>1. Head(agenda).set \in SUBSET Tasks
    BY <1>1, <1>5, OpFields DEF EraseBatch, Running
  <2>2. f \in Op /\ f.op \in K /\ Continue(<<f, Drain, Sync>>)
    BY <1>5, <2>1, OpForms DEF EraseBatch
  <2> HIDE DEF f, K
  <2>3. <<f, Drain, Sync>> \in Seq(Op) /\ \A o \in OpsOf(<<f, Drain, Sync>>) : o.op \in K
    BY <1>2, <2>2, KindSeqs
  <2>4. Pushed(K)
    BY <1>1, <2>2, <2>3, PushKinds
  <2> QED BY <2>4 DEF K
<1>6. ASSUME NEW t \in Tasks, EraseTask(t) PROVE Pushed(K)
  <2>1. PICK p : Continue(Opt(p, ClearBoost) \o <<Drain, Sync>>)
    BY <1>6, Zenon DEF EraseTask
  <2> HIDE DEF K
  <2>2. /\ Opt(p, ClearBoost) \o <<Drain, Sync>> \in Seq(Op)
        /\ \A o \in OpsOf(Opt(p, ClearBoost) \o <<Drain, Sync>>) : o.op \in K
    BY <1>2, KindSeqs
  <2> QED BY <1>1, <2>1, <2>2, PushKinds
<1> QED BY <1>3, <1>4, <1>5, <1>6 DEF Erased

(* Only on_task_done puts an automatic retry on the agenda. *)
LEMMA NoRetryPush ==
  ASSUME TypeOK, AgendaInv(agenda), Plain, AgendaOcc, HandlerStep
  PROVE  /\ Head(agenda) \in OpsOf(agenda)
         /\ \A o \in OpsOf(agenda') : o.op = "retry" => o \in OpsOf(agenda)
<1>1. ASSUME NEW K, Pushed(K), "retry" \notin K
      PROVE  /\ Head(agenda) \in OpsOf(agenda)
             /\ \A o \in OpsOf(agenda') : o.op = "retry" => o \in OpsOf(agenda)
  BY <1>1, PushedOps
<1>2. CASE Tamed
  <2>1. Pushed(Tame)
    BY <1>2, TameSteps, Zenon DEF Tamed
  <2> QED BY <1>1, <2>1 DEF Tame
<1>3. CASE Widened
  <2>1. Pushed(Wide)
    BY <1>3, WideSteps, Zenon DEF Widened
  <2> QED BY <1>1, <2>1 DEF Wide, Tame
<1>4. CASE Forgotten
  <2>1. Pushed({"clearBoost", "forget"})
    BY <1>4, ForgetSteps DEF Forgotten
  <2> QED BY <1>1, <2>1
<1>5. CASE Erased
  BY <1>1, <1>5, EraseSteps
<1> QED BY <1>2, <1>3, <1>4, <1>5, OccSteps

(* What handlers do to the tasks waiting for an automatic retry. *)
LEMMA RetrySteps ==
  ASSUME HandlerStep
  PROVE  \/ \A u \in Tasks : u \in retrySched' => u \in retrySched
         \/ \E t \in Tasks : AutoRetry(t)
<1>1. LoadBatch \/ BatchResumed \/ ReapBatch \/ EraseBatch \/ EndSet => UNCHANGED retrySched
  BY DEF LoadBatch, BatchResumed, ReapBatch, EraseBatch, EndSet, actorVars
<1>2. DrainQueue \/ DrainEnd \/ DrainItem \/ sync_queue_occupancy \/ ClearPriority => UNCHANGED retrySched
  BY DEF DrainQueue, DrainEnd, DrainItem, sync_queue_occupancy, ClearPriority
<1>3. ASSUME NEW t \in Tasks,
             \/ FinishPendingPause(t) \/ AutoPause(t) \/ BoostStart(t) \/ EraseTask(t)
             \/ ResumeWithRow(t)
      PROVE  UNCHANGED retrySched
  BY <1>3, Zenon DEF FinishPendingPause, AutoPause, BoostStart, EraseTask, ResumeWithRow
<1>4. ASSUME NEW t \in Tasks,
             \/ GuardBoost(t) \/ ResumeBoosted(t) \/ BoostCollect(t) \/ BoostCheck(t)
             \/ ReapHandle(t) \/ PauseBatchItem(t)
      PROVE  UNCHANGED retrySched
  BY <1>4 DEF GuardBoost, ResumeBoosted, BoostCollect, BoostCheck, ReapHandle, PauseBatchItem, actorVars
<1>5. ASSUME NEW t \in Tasks,
             PauseTaskInner(t) \/ ResumeTaskInner(t) \/ ResetTask(t) \/ ForgetDeleted(t)
      PROVE  retrySched' = retrySched \ {t}
  BY <1>5, Zenon DEF PauseTaskInner, ResumeTaskInner, ResetTask, ForgetDeleted
<1> QED BY <1>1, <1>2, <1>3, <1>4, <1>5, Zenon DEF HandlerStep

(* Only a pause records an outstanding pause. *)
LEMMA PauseSteps ==
  ASSUME TypeOK, Plain, HandlerStep
  PROVE  \/ \A u \in Tasks : Flushing(u)' => Flushing(u)
         \/ \E t \in Tasks : /\ PauseTaskInner(t) /\ retrySched' = retrySched \ {t}
                             /\ \A u \in Tasks : u # t => pauses'[u] = pauses[u]
<1>0. pauses \in [Tasks -> [gen : Nat, resume : BOOLEAN]]
  BY DEF TypeOK
<1>1. CASE CalmStep \/ DrainQueue \/ DrainItem \/ DrainEnd
  <2>1. UNCHANGED pauses
    BY <1>1, CalmFacts DEF Calm, DrainQueue, DrainItem, DrainEnd
  <2> QED BY <2>1 DEF Flushing
<1>2. ASSUME NEW t \in Tasks, PauseTaskInner(t)
      PROVE  retrySched' = retrySched \ {t} /\ \A u \in Tasks : u # t => pauses'[u] = pauses[u]
  <2>1. retrySched' = retrySched \ {t}
    BY <1>2 DEF PauseTaskInner
  <2>2. UNCHANGED pauses \/ \E x : pauses' = [pauses EXCEPT ![t] = x]
    BY <1>2, Zenon DEF PauseTaskInner
  <2> QED BY <1>0, <2>1, <2>2
<1>3. ASSUME NEW t \in Tasks, ResumeTaskInner(t) \/ ResumeWithRow(t)
      PROVE  \A u \in Tasks : Flushing(u)' => Flushing(u)
  <2>1. UNCHANGED pauses \/ pauses' = [pauses EXCEPT ![t].resume = TRUE]
    <3>1. PICK s, o1, o2, o3, row : TryResume(t, s, o1, o2, o3, row)
      BY <1>3, Zenon DEF ResumeTaskInner, ResumeWithRow
    <3> QED BY <3>1, Zenon DEF TryResume
  <2> QED BY <1>0, <2>1 DEF Flushing
<1>4. ASSUME NEW t \in Tasks, FinishPendingPause(t) PROVE \A u \in Tasks : Flushing(u)' => Flushing(u)
  <2>1. UNCHANGED pauses \/ pauses' = [pauses EXCEPT ![t] = NoPause]
    BY <1>4, Zenon DEF FinishPendingPause
  <2> QED BY <1>0, <2>1 DEF Flushing, NoPause
<1>5. ASSUME NEW t \in Tasks, BoostStart(t) PROVE FALSE
  BY <1>5, HeadInOps DEF BoostStart, Running, Plain, Starting
<1> QED BY <1>1, <1>2, <1>3, <1>4, <1>5, Zenon DEF HandlerStep, CalmStep

LEMMA RetryHandler ==
  ASSUME TypeOK, TypeOK', AgendaInv(agenda), Plain, AgendaOcc, RetryQuiet, HandlerStep
  PROVE  RetryQuiet'
<1>1. /\ Head(agenda) \in OpsOf(agenda)
      /\ \A o \in OpsOf(agenda') : o.op = "retry" => o \in OpsOf(agenda)
  BY NoRetryPush
<1>2. \A o \in OpsOf(agenda) : o.op = "retry" => o.task \in Tasks
  <2>1. \A o \in Op : o.op = "retry" => o.task \in Tasks
    BY DEF Op
  <2>2. \A o \in OpsOf(agenda) : o \in Op
    BY DEF TypeOK, OpsOf
  <2> QED BY <2>1, <2>2
<1>3. CASE \E t \in Tasks : AutoRetry(t)
  <2>1. PICK t \in Tasks : AutoRetry(t)
    BY <1>3
  <2>2. UNCHANGED pauses /\ \A u \in Tasks : u \in retrySched' => u \in retrySched \/ u = t
    BY <2>1 DEF AutoRetry
  <2>3. ~Flushing(t)
    BY <1>1, <2>1 DEF AutoRetry, Running, RetryQuiet
  <2> QED BY <1>1, <2>2, <2>3 DEF RetryQuiet, Flushing
<1>4. CASE \A u \in Tasks : u \in retrySched' => u \in retrySched
  <2>1. CASE \A u \in Tasks : Flushing(u)' => Flushing(u)
    BY <1>1, <1>2, <1>4, <2>1 DEF RetryQuiet
  <2>2. ASSUME NEW t \in Tasks, PauseTaskInner(t), retrySched' = retrySched \ {t},
               \A u \in Tasks : u # t => pauses'[u] = pauses[u]
        PROVE  RetryQuiet'
    <3>1. \A u \in Tasks : Flushing(u)' => u \notin retrySched'
      BY <2>2 DEF RetryQuiet, Flushing
    <3>2. Head(agenda).op = "pause"
      BY <2>2 DEF PauseTaskInner, Running
    <3>3. \A o \in OpsOf(agenda') : o.op # "retry"
      BY <1>1, <3>2 DEF AgendaOcc, RetryTame, Tame
    <3> QED BY <3>1, <3>3 DEF RetryQuiet
  <2> QED BY <2>1, <2>2, PauseSteps
<1> QED BY <1>3, <1>4, RetrySteps

(* A sync behind the head stays due. *)
LEMMA SyncBehind ==
  ASSUME TypeOK, AgendaInv(agenda), HandlerStep, NEW o \in OpsOf(agenda), o.op \in Syncing,
         Head(agenda).op \notin Syncing
  PROVE  SyncDue'
<1>1. AgendaFlow
  BY HandlerAgenda
<1>2. o \in OpsOf(agenda')
  BY <1>1 DEF AgendaFlow
<1> QED BY <1>2 DEF SyncDue

(* A step that puts a sync on the agenda. *)
LEMMA SyncPushed ==
  ASSUME TypeOK, agenda # <<>>, NEW ops \in Seq(Op), Continue(ops),
         NEW o \in OpsOf(ops), o.op \in Syncing
  PROVE  SyncDue'
<1>1. agenda \in Seq(Op)
  BY DEF TypeOK
<1>2. o \in OpsOf(agenda')
  BY <1>1, ContinueFacts DEF Continue
<1> QED BY <1>2 DEF SyncDue

LEMMA SyncSeqs ==
  ASSUME NEW a \in Op
  PROVE  /\ Sync \in Op /\ Sync.op \in Syncing
         /\ \A s \in {<<Sync>>, <<Drain, Sync>>, <<Drain, a, Sync>>} : s \in Seq(Op) /\ Sync \in OpsOf(s)
         /\ \A p : LET s == Opt(p, ClearBoost) \o <<Drain, Sync>> IN s \in Seq(Op) /\ Sync \in OpsOf(s)
<1>1. Drain \in Op /\ Sync \in Op /\ ClearBoost \in Op /\ Sync.op = "sync"
  BY OpForms, OpenForms
<1>2. /\ <<Sync>> \in Seq(Op) /\ OpsOf(<<Sync>>) = {Sync}
      /\ <<Drain, Sync>> \in Seq(Op) /\ OpsOf(<<Drain, Sync>>) = {Drain, Sync}
  <2>1. ASSUME NEW x \in Op, NEW y \in Op
        PROVE  <<x, y>> \in Seq(Op) /\ OpsOf(<<x, y>>) = {x, y}
    BY DEF OpsOf
  <2> QED BY <1>1, <2>1, ShortSeqs
<1>3. <<Drain, a, Sync>> \in Seq(Op) /\ OpsOf(<<Drain, a, Sync>>) = {Drain, a, Sync}
  BY <1>1 DEF OpsOf
<1>4. ASSUME NEW p
      PROVE  LET s == Opt(p, ClearBoost) \o <<Drain, Sync>> IN s \in Seq(Op) /\ Sync \in OpsOf(s)
  <2>1. Opt(p, ClearBoost) \in Seq(Op)
    BY <1>1, ShortSeqs
  <2> QED BY <1>2, <2>1, CatFacts
<1> QED BY <1>1, <1>2, <1>3, <1>4 DEF Syncing

(* Whatever ends in a sync passes it on, down to the sync itself. *)
LEMMA SyncPassed ==
  ASSUME TypeOK, TypeOK', AgendaInv(agenda), Plain, AgendaOcc, HandlerStep, agenda # <<>>, Head(agenda).op \in Syncing
  PROVE  SyncDue' \/ Clean'
<1>1. Head(agenda) \in Op
  BY HeadInOps
<1>2. \/ sync_queue_occupancy \/ Erased \/ \E t \in Tasks : PauseTaskInner(t)
  <2>1. ~DrainQueue /\ ~DrainItem /\ ~DrainEnd /\ ~ClearPriority /\ ~EndSet
    BY DEF DrainQueue, DrainItem, DrainEnd, ClearPriority, EndSet, Running, Syncing, Erasing
  <2>2. ASSUME NEW t \in Tasks,
               \/ ResumeTaskInner(t) \/ FinishPendingPause(t) \/ AutoRetry(t) \/ ResumeBoosted(t)
        PROVE  FALSE
    BY <2>2 DEF ResumeTaskInner, FinishPendingPause, AutoRetry, ResumeBoosted, Running, Syncing, Erasing
  <2>3. ASSUME NEW t \in Tasks,
               \/ GuardBoost(t) \/ BoostCheck(t) \/ BoostCollect(t)
               \/ AutoPause(t) \/ PauseBatchItem(t) \/ ResetTask(t)
        PROVE  FALSE
    BY <2>3 DEF GuardBoost, BoostCheck, BoostCollect, AutoPause, PauseBatchItem, ResetTask, Running,
                Syncing, Erasing
  <2>4. ~Forgotten
    BY DEF Forgotten, ForgetDeleted, Running, Syncing, Erasing
  <2> QED BY <2>1, <2>2, <2>3, <2>4, OccSteps, Zenon DEF Tamed, Widened
<1>3. CASE sync_queue_occupancy
  <2>1. /\ occupied' = {QueueOf[t] : t \in ActiveTasks \cup QueuedTasks(queue) \cup retrySched}
        /\ UNCHANGED <<active, queue, retrySched>> /\ Continue(<<>>)
    BY <1>3 DEF sync_queue_occupancy, OccupiedQueues, Occupying
  <2>2. ~Running("drainLoop")'
    <3>1. ~DrainQueue /\ ~DrainItem
      BY <1>3 DEF sync_queue_occupancy, DrainQueue, DrainItem, Running
    <3> QED BY <3>1, HandlerAgenda
  <2>3. ActiveTasks' = ActiveTasks
    BY <2>1 DEF ActiveTasks, IsActive
  <2>4. Held' = ActiveTasks \cup QueuedTasks(queue) \cup retrySched
    BY <2>1, <2>2, <2>3 DEF Held, Waiting, Line
  <2> QED BY <2>1, <2>4 DEF Clean
<1>4. Sync \in Op /\ Sync.op \in Syncing
  BY OpForms, OpenForms DEF Syncing
<1>5. ASSUME NEW t \in Tasks, PauseTaskInner(t) PROVE SyncDue'
  <2> DEFINE g == Do("guardBoost", t)
  <2>1. g \in Op
    BY OpForms
  <2>2. Continue(<<Sync>>) \/ Continue(<<Drain, g, Sync>>)
    BY <1>5, Zenon DEF PauseTaskInner
  <2> HIDE DEF g
  <2> QED BY <1>4, <2>1, <2>2, SyncSeqs, SyncPushed
<1>6. ASSUME NEW e \in Op, Continue(<<e>>), e.op \in Syncing PROVE SyncDue'
  <2>1. <<e>> \in Seq(Op) /\ e \in OpsOf(<<e>>)
    BY <1>6, ShortSeqs
  <2> QED BY <1>6, <2>1, SyncPushed
<1>7. CASE ReapBatch
  <2> DEFINE e == [op |-> "eraseBatch", set |-> Head(agenda).set]
  <2>1. Head(agenda).set \in SUBSET Tasks
    BY <1>1, <1>7, OpFields DEF ReapBatch, Running
  <2>2. e \in Op /\ e.op \in Syncing /\ Continue(<<e>>)
    BY <1>7, <2>1, OpForms DEF ReapBatch, Syncing, Erasing
  <2> HIDE DEF e
  <2> QED BY <1>6, <2>2
<1>8. ASSUME NEW t \in Tasks, ReapHandle(t) PROVE SyncDue'
  <2> DEFINE e == Do("erase", t)
  <2>1. e \in Op /\ e.op \in Syncing /\ Continue(<<e>>)
    BY <1>8, OpForms, OpenForms DEF ReapHandle, Syncing, Erasing
  <2> HIDE DEF e
  <2> QED BY <1>6, <2>1
<1>9. CASE EraseBatch
  <2> DEFINE f == [op |-> "forget", set |-> Head(agenda).set]
  <2>1. Head(agenda).set \in SUBSET Tasks
    BY <1>1, <1>9, OpFields DEF EraseBatch, Running
  <2>2. f \in Op /\ Continue(<<f, Drain, Sync>>)
    BY <1>9, <2>1, OpForms DEF EraseBatch
  <2>3. Drain \in Op
    BY OpForms, OpenForms
  <2> HIDE DEF f
  <2>4. <<f, Drain, Sync>> \in Seq(Op) /\ OpsOf(<<f, Drain, Sync>>) = {f, Drain, Sync}
    BY <1>4, <2>2, <2>3 DEF OpsOf
  <2>5. Sync \in OpsOf(<<f, Drain, Sync>>)
    BY <2>4
  <2> QED BY <1>4, <2>2, <2>4, <2>5, SyncPushed
<1>10. ASSUME NEW t \in Tasks, EraseTask(t) PROVE SyncDue'
  <2>1. PICK p : Continue(Opt(p, ClearBoost) \o <<Drain, Sync>>)
    BY <1>10, Zenon DEF EraseTask
  <2> QED BY <1>4, <2>1, SyncSeqs, SyncPushed
<1> QED BY <1>2, <1>3, <1>5, <1>7, <1>8, <1>9, <1>10 DEF Erased

(* Outside a drain the tasks held are in plain sight. *)
LEMMA HeldPlain ==
  ASSUME ~Running("drainLoop"), ~Running("drainLoop")'
  PROVE  /\ Held = ActiveTasks \cup QueuedTasks(queue) \cup retrySched
         /\ Held' = ActiveTasks' \cup QueuedTasks(queue') \cup retrySched'
BY DEF Held, Waiting, Line

LEMMA CleanKept ==
  ASSUME ~Running("drainLoop"), ~Running("drainLoop")', Clean, UNCHANGED <<active, queue, retrySched, occupied>>
  PROVE  Clean'
<1>1. ActiveTasks' = ActiveTasks
  BY DEF ActiveTasks, IsActive
<1> QED BY <1>1, HeldPlain DEF Clean

(* A drain moves a task from the queue to the active tasks. *)
LEMMA CleanDrain ==
  ASSUME Resolvable = {}, TypeOK, AgendaInv(agenda), LineInv, WaitRows, Clean,
         DrainQueue \/ DrainEnd \/ DrainItem
  PROVE  Clean'
<1>1. UNCHANGED <<retrySched, occupied>>
  BY DEF DrainQueue, DrainEnd, DrainItem
<1>2. CASE Line' = Line /\ UNCHANGED active
  <2>1. ActiveTasks' = ActiveTasks
    BY <1>2 DEF ActiveTasks, IsActive
  <2>2. Held' = Held
    BY <1>1, <1>2, <2>1 DEF Held, Waiting
  <2> QED BY <1>1, <2>2 DEF Clean
<1>3. ASSUME NEW x \in Tasks, do_resume_task(x), QueuedTasks(Line) = {x} \cup QueuedTasks(Line')
      PROVE  Clean'
  <2>1. active \in [Tasks -> [gen : Nat, spawned : BOOLEAN]] /\ gen \in Nat
    BY DEF TypeOK
  <2>2. HasRow(x)
    BY <1>3 DEF WaitRows, Waiting
  <2>3. active' = [active EXCEPT ![x] = [gen |-> gen + 1, spawned |-> TRUE]]
    BY <1>3, <2>2 DEF do_resume_task, SpawnDownload
  <2>4. ActiveTasks' = ActiveTasks \cup {x}
    <3>1. active'[x].gen = gen + 1 /\ \A u \in Tasks : u # x => active'[u] = active[u]
      BY <2>1, <2>3
    <3>2. active'[x].gen # 0
      BY <2>1, <3>1
    <3> QED BY <3>1, <3>2 DEF ActiveTasks, IsActive
  <2>5. Held' = Held
    BY <1>1, <1>3, <2>4 DEF Held, Waiting
  <2> QED BY <1>1, <2>5 DEF Clean
<1> QED BY <1>2, <1>3, DrainMoves

(* A resume that neither starts nor queues its task leaves it where it is.  *)
LEMMA CleanResume ==
  ASSUME TypeOK, LineInv, RetryQuiet, ~Running("drainLoop")', NEW t \in Tasks, ResumeTaskInner(t),
         SyncDue \/ Clean, \A o \in OpsOf(agenda) : o.op \notin Syncing
  PROVE  SyncDue' \/ Clean'
<1>0. /\ active \in [Tasks -> [gen : Nat, spawned : BOOLEAN]] /\ agenda # <<>>
      /\ Head(agenda).task = t /\ ~Running("drainLoop")
      /\ retrySched' = retrySched \ {t} /\ UNCHANGED occupied
  BY DEF TypeOK, ResumeTaskInner, Running
<1>1. PICK s, row : TryResume(t, s, <<>>, <<Drain, Sync>>, <<Sync>>, row)
  BY Zenon DEF ResumeTaskInner
<1>2. Drain \in Op /\ Sync \in Op /\ Sync.op \in Syncing
  BY OpForms, OpenForms DEF Syncing
<1>3. CASE Continue(<<Drain, Sync>>) \/ Continue(<<Sync>>)
  BY <1>0, <1>2, <1>3, SyncSeqs, SyncPushed
<1>4. CASE Flushing(t) /\ UNCHANGED <<active, queue>>
  <2>1. Clean /\ retrySched' = retrySched
    BY <1>0, <1>4 DEF SyncDue, RetryQuiet
  <2> QED BY <1>0, <1>4, <2>1, CleanKept
<1>5. CASE IsActive(t) /\ UNCHANGED <<active, queue>>
  <2>1. Clean
    BY <1>0, <1>5 DEF SyncDue
  <2>2. ActiveTasks' = ActiveTasks /\ t \in ActiveTasks
    BY <1>5 DEF ActiveTasks, IsActive
  <2>3. Held' = Held
    BY <1>0, <1>5, <2>2, HeldPlain
  <2> QED BY <1>0, <2>1, <2>3 DEF Clean
<1>6. CASE AlreadyQueued(t) /\ active' = [active EXCEPT ![t] = NoEntry] /\ UNCHANGED queue
  <2>1. Clean
    BY <1>0, <1>6 DEF SyncDue
  <2>2. t \in QueuedTasks(queue) /\ ~IsActive(t)
    BY <1>0, <1>6 DEF AlreadyQueued, LineInv, Line
  <2>3. ActiveTasks' = ActiveTasks
    BY <1>0, <1>6, <2>2 DEF ActiveTasks, IsActive, NoEntry
  <2>4. Held' = Held
    BY <1>0, <1>6, <2>2, <2>3, HeldPlain
  <2> QED BY <1>0, <2>1, <2>4 DEF Clean
<1> QED BY <1>1, <1>3, <1>4, <1>5, <1>6 DEF TryResume

(* A restart that takes a task out of the retries is about to resume it. *)
LEMMA CleanReset ==
  ASSUME TypeOK, RetryQuiet, ~Running("drainLoop")', NEW t \in Tasks, ResetTask(t),
         SyncDue \/ Clean, \A o \in OpsOf(agenda) : o.op \notin Syncing
  PROVE  SyncDue' \/ Clean'
<1>0. /\ agenda # <<>> /\ ~Running("drainLoop") /\ ~Running("resume")
      /\ retrySched' = retrySched \ {t} /\ UNCHANGED <<active, queue, pauses, occupied>>
      /\ Continue(<<Do("resume", t)>>)
  BY DEF ResetTask, Running
<1>1. Clean
  BY <1>0 DEF SyncDue
<1>2. ActiveTasks' = ActiveTasks
  BY <1>0 DEF ActiveTasks, IsActive
<1>3. CASE Flushing(t)
  <2>1. retrySched' = retrySched
    BY <1>0, <1>3 DEF RetryQuiet
  <2> QED BY <1>0, <1>1, <2>1, CleanKept
<1>4. CASE IsActive(t) \/ AlreadyQueued(t)
  <2>1. t \in ActiveTasks \/ t \in QueuedTasks(queue)
    BY <1>4 DEF ActiveTasks, AlreadyQueued
  <2>2. Held' = Held
    BY <1>0, <1>2, <2>1, HeldPlain
  <2> QED BY <1>0, <1>1, <2>2 DEF Clean
<1>5. CASE ~Flushing(t) /\ ~IsActive(t) /\ ~AlreadyQueued(t)
  <2> DEFINE r == Do("resume", t)
  <2>1. r \in Op /\ r.op = "resume" /\ r.task = t
    BY OpForms, OpenForms
  <2>2. Continue(<<r>>)
    BY <1>0
  <2> HIDE DEF r
  <2>3. agenda' # <<>> /\ Head(agenda') = r
    <3>1. agenda \in Seq(Op)
      BY DEF TypeOK
    <3>2. Tail(agenda) \in Seq(Op)
      BY <1>0, <3>1
    <3>3. <<r>> \o Tail(agenda) # <<>> /\ Head(<<r>> \o Tail(agenda)) = r
      BY <3>2
    <3> QED BY <2>2, <3>3 DEF Continue
  <2>4. Running("resume")'
    BY <2>1, <2>3 DEF Running
  <2>5. ~Flushing(t)' /\ ~IsActive(t)' /\ ~AlreadyQueued(t)'
    BY <1>0, <1>5 DEF Flushing, IsActive, AlreadyQueued
  <2> QED BY <2>1, <2>3, <2>4, <2>5 DEF SyncDue
<1> QED BY <1>3, <1>4, <1>5

LEMMA SyncHandler ==
  ASSUME Resolvable = {}, TypeOK, TypeOK', AgendaInv(agenda), LineInv, Plain, OccInv, HandlerStep
  PROVE  SyncDue' \/ Clean'
<1>0. AgendaFlow /\ agenda # <<>> /\ agenda \in Seq(Op) /\ Head(agenda) \in OpsOf(agenda)
  BY HandlerAgenda, HeadInOps DEF AgendaFlow, TypeOK
<1>1. CASE Head(agenda).op \in Syncing
  BY <1>0, <1>1, SyncPassed DEF OccInv
<1>2. ASSUME NEW o \in OpsOf(agenda), o.op \in Syncing, Head(agenda).op \notin Syncing PROVE SyncDue'
  BY <1>2, SyncBehind
<1> SUFFICES ASSUME \A o \in OpsOf(agenda) : o.op \notin Syncing PROVE SyncDue' \/ Clean'
  BY <1>1, <1>2
<1>3. AgendaOcc /\ WaitRows /\ RetryQuiet /\ (SyncDue \/ Clean)
  BY DEF OccInv
<1>4. CASE DrainQueue \/ DrainEnd \/ DrainItem
  <2>1. ~Running("resume")
    BY <1>4 DEF DrainQueue, DrainEnd, DrainItem, Running
  <2>2. Clean
    BY <1>3, <2>1 DEF SyncDue
  <2> QED BY <1>3, <1>4, <2>2, CleanDrain
<1> SUFFICES ASSUME ~DrainQueue, ~DrainEnd, ~DrainItem PROVE SyncDue' \/ Clean'
  BY <1>4
<1>5. ~Running("drainLoop") /\ ~Running("drainLoop")'
  BY LoopSteps, HandlerAgenda
<1>6. ASSUME NEW t \in Tasks, ResumeTaskInner(t) PROVE SyncDue' \/ Clean'
  BY <1>3, <1>5, <1>6, CleanResume
<1>7. ASSUME NEW t \in Tasks, ResetTask(t) PROVE SyncDue' \/ Clean'
  BY <1>3, <1>5, <1>7, CleanReset
<1>8. ASSUME NEW t \in Tasks, AutoRetry(t) \/ ForgetDeleted(t) PROVE FALSE
  <2>1. Head(agenda).op \in {"retry", "forget"}
    BY <1>8 DEF AutoRetry, ForgetDeleted, Running
  <2>2. agenda[Len(agenda)] = Sync
    BY <1>0, <1>3, <2>1 DEF AgendaOcc, LastSync
  <2>3. Len(agenda) \in Nat /\ Len(agenda) # 0
    BY <1>0, EmptySeq, LenProperties
  <2>4. Sync \in OpsOf(agenda)
    BY <2>2, <2>3 DEF OpsOf
  <2> QED BY <2>4, OpenForms DEF Syncing
<1>9. ASSUME UNCHANGED <<active, queue, retrySched, occupied>>, ~Running("resume") PROVE Clean'
  BY <1>3, <1>5, <1>9, CleanKept DEF SyncDue
<1>10. CASE ClearPriority \/ EndSet
  BY <1>9, <1>10 DEF ClearPriority, EndSet, actorVars, Running
<1>11. ASSUME NEW t \in Tasks,
              \/ FinishPendingPause(t) \/ ResumeBoosted(t) \/ GuardBoost(t) \/ BoostCheck(t)
       PROVE  Clean'
  BY <1>9, <1>11 DEF FinishPendingPause, ResumeBoosted, GuardBoost, BoostCheck, actorVars, Running
<1>12. ASSUME NEW t \in Tasks, BoostCollect(t) \/ AutoPause(t) \/ PauseBatchItem(t)
       PROVE  Clean'
  BY <1>9, <1>12 DEF BoostCollect, AutoPause, PauseBatchItem, actorVars, Running
<1>13. ASSUME \/ sync_queue_occupancy \/ Erased \/ \E t \in Tasks : PauseTaskInner(t)
       PROVE  FALSE
  <2>1. Head(agenda).op \in Syncing
    BY <1>13 DEF sync_queue_occupancy, Erased, ReapBatch, EraseBatch, ReapHandle, EraseTask,
                 PauseTaskInner, Running, Syncing, Erasing
  <2> QED BY <1>0, <2>1
<1> QED BY <1>3, <1>6, <1>7, <1>8, <1>10, <1>11, <1>12, <1>13, OccSteps, Zenon
        DEF Tamed, Widened, Forgotten

(* A command leaves the queue of tasks with rows, and the agenda it begins  *)
(* with announces what it changed.                                          *)
LEMMA OccCommand ==
  ASSUME TypeOK, TypeOK', PauseInv, OccInv, UserCommand, Commands \cap {"cancel", "boost", "queue"} = {}
  PROVE  OccInv'
<1>0. /\ ~\E t \in Tasks : SetPriorityTask(t) \/ CancelTask(t)
      /\ ~\E q \in Queues : StartQueue(q) \/ StopQueue(q)
  BY DEF SetPriorityTask, CancelTask, StartQueue, StopQueue, Command
<1>1. /\ ~Running("drainLoop") /\ ~Running("drainLoop")' /\ agenda = <<>>
  <2>1. BeginStep
    BY <1>0, CommandAgenda, Zenon DEF UserCommand
  <2> QED BY <2>1, BeginFacts DEF BeginStep, Idle, Running
<1>2. Clean /\ (\A u \in QueuedTasks(queue) : HasRow(u)) /\ \A u \in Tasks : Flushing(u) => u \notin retrySched
  <2>1. OpsOf(<<>>) = {}
    BY DEF OpsOf
  <2>2. ~SyncDue
    BY <1>1, <2>1 DEF SyncDue, Running
  <2> QED BY <1>1, <2>2 DEF OccInv, WaitRows, Waiting, Line, RetryQuiet
<1>3. queue \in Seq(Tasks) /\ queue' \in Seq(Tasks) /\ db \in [Tasks -> Row]
  BY DEF TypeOK
<1>4. AgendaOcc'
  BY AgendaOccCommand
<1>5. /\ UNCHANGED pauses /\ retrySched' \subseteq retrySched
      /\ \A o \in OpsOf(agenda') : o.op # "retry"
  <2>1. ASSUME NEW S \in Batch, DeleteTasksBatch(S) PROVE UNCHANGED <<pauses, retrySched>>
    BY <2>1 DEF DeleteTasksBatch
  <2>2. ASSUME NEW t \in Tasks, NEW later \in BOOLEAN, CreateTask(t, later) PROVE UNCHANGED <<pauses, retrySched>>
    BY <2>2, Zenon DEF CreateTask
  <2>3. ASSUME NEW t \in Tasks, DeleteTask(t) PROVE UNCHANGED pauses /\ retrySched' \subseteq retrySched
    BY <2>3 DEF DeleteTask
  <2>4. ASSUME NEW t \in Tasks, PauseTask(t) \/ ResumeTask(t) \/ RestartTask(t)
        PROVE  UNCHANGED <<pauses, retrySched>>
    BY <2>4 DEF PauseTask, ResumeTask, RestartTask, actorVars
  <2>5. ASSUME NEW n \in Limits, SetMaxConcurrent(n) PROVE UNCHANGED <<pauses, retrySched>>
    BY <2>5 DEF SetMaxConcurrent
  <2>6. UNCHANGED pauses /\ retrySched' \subseteq retrySched
    BY <1>0, <2>1, <2>2, <2>3, <2>4, <2>5, Zenon DEF UserCommand
  <2>7. \A o \in OpsOf(agenda') : o.op # "retry"
    BY CommandOps DEF Alone, Commanded
  <2> QED BY <2>6, <2>7
<1>6. RetryQuiet'
  BY <1>2, <1>5 DEF RetryQuiet, Flushing
<1>7. Waiting' = QueuedTasks(queue') /\ QueuedTasks(queue') \subseteq Tasks
  BY <1>1, <1>3 DEF Waiting, Line, QueuedTasks
<1>8. ASSUME NEW S, queue' = Without(queue, S), UNCHANGED db
      PROVE  (\A u \in QueuedTasks(queue') : HasRow(u)') /\ S \cap QueuedTasks(queue') = {}
  <2>1. QueuedTasks(Without(queue, S)) = QueuedTasks(queue) \ S
    BY <1>3, WithoutFacts
  <2> QED BY <1>2, <1>8, <2>1 DEF HasRow
<1>9. ASSUME UNCHANGED <<queue, db>> PROVE \A u \in QueuedTasks(queue') : HasRow(u)'
  BY <1>2, <1>9 DEF HasRow
<1>10. ASSUME \A u \in QueuedTasks(queue') : HasRow(u)', \A o \in OpsOf(agenda') : o.op \in Commanded
       PROVE  WaitRows'
  BY <1>7, <1>10 DEF WaitRows, Commanded
<1>11. ASSUME NEW S \in Batch, DeleteTasksBatch(S) PROVE WaitRows' /\ SyncDue'
  <2>1. PICK o : agenda' = <<o>> /\ o.op = "reapBatch" /\ o.set = S
    BY <1>11 DEF DeleteTasksBatch
  <2>2. OpsOf(agenda') = {o}
    BY <2>1, AloneFacts DEF Alone
  <2>3. (\A u \in QueuedTasks(queue') : HasRow(u)') /\ S \cap QueuedTasks(queue') = {}
    BY <1>8, <1>11 DEF DeleteTasksBatch
  <2> QED BY <1>7, <2>1, <2>2, <2>3 DEF WaitRows, SyncDue, Syncing, Erasing
<1>12. ASSUME NEW t \in Tasks, DeleteTask(t) PROVE WaitRows' /\ SyncDue'
  <2>1. PICK o : agenda' = <<o>> /\ o.op \in {"reap", "erase"} /\ o.task = t
    <3>1. CASE active[t].spawned
      <4>1. agenda' = <<[op |-> "reap", task |-> t, gen |-> active[t].gen]>>
        BY <1>12, <3>1 DEF DeleteTask
      <4> QED BY <4>1
    <3>2. CASE ~active[t].spawned
      <4>1. agenda' = <<Do("erase", t)>>
        BY <1>12, <3>2 DEF DeleteTask
      <4> QED BY <4>1, OpenForms
    <3> QED BY <3>1, <3>2
  <2>2. OpsOf(agenda') = {o}
    BY <2>1, AloneFacts DEF Alone
  <2>3. (\A u \in QueuedTasks(queue') : HasRow(u)') /\ {t} \cap QueuedTasks(queue') = {}
    BY <1>8, <1>12 DEF DeleteTask, Unqueue
  <2> QED BY <1>7, <2>1, <2>2, <2>3 DEF WaitRows, SyncDue, Syncing, Erasing
<1>13. \A o \in OpsOf(agenda') : \/ o.op \in Commanded
                                 \/ \E S \in Batch : DeleteTasksBatch(S)
                                 \/ \E t \in Tasks : DeleteTask(t)
  BY CommandOps
<1>14. ASSUME UNCHANGED <<actorVars>> PROVE Clean'
  BY <1>1, <1>2, <1>14, CleanKept DEF actorVars
<1>15. ASSUME NEW t \in Tasks, PauseTask(t) \/ ResumeTask(t) \/ RestartTask(t)
       PROVE  (\A u \in QueuedTasks(queue') : HasRow(u)') /\ Clean'
  <2>1. UNCHANGED <<actorVars, db>>
    BY <1>15 DEF PauseTask, ResumeTask, RestartTask
  <2> QED BY <1>9, <1>14, <2>1 DEF actorVars
<1>16. ASSUME NEW n \in Limits, SetMaxConcurrent(n)
       PROVE  (\A u \in QueuedTasks(queue') : HasRow(u)') /\ Clean'
  <2>1. UNCHANGED <<active, queue, retrySched, occupied, db>>
    BY <1>16 DEF SetMaxConcurrent
  <2> QED BY <1>1, <1>2, <1>9, <2>1, CleanKept
<1>17. ASSUME NEW t \in Tasks, NEW later \in BOOLEAN, CreateTask(t, later)
       PROVE  (\A u \in QueuedTasks(queue') : HasRow(u)') /\ (SyncDue' \/ Clean')
  <2>1. HasRow(t)' /\ \A u \in Tasks : u # t => db'[u] = db[u]
    <3>1. db' = [db EXCEPT ![t] = [status |-> IF later THEN "paused" ELSE "pending", err |-> ""]]
      BY <1>17 DEF CreateTask
    <3> QED BY <1>3, <3>1 DEF HasRow, Live
  <2>2. \A u \in Tasks : HasRow(u) => HasRow(u)'
    BY <2>1 DEF HasRow
  <2>3. UNCHANGED queue \/ queue' = Append(queue, t)
    BY <1>17, Zenon DEF CreateTask
  <2>4. QueuedTasks(queue') \subseteq QueuedTasks(queue) \cup {t}
    BY <1>3, <2>3, AppendFacts
  <2>5. \A u \in QueuedTasks(queue') : HasRow(u)'
    BY <1>2, <1>7, <2>1, <2>2, <2>4
  <2>6. CASE agenda' = <<>> /\ UNCHANGED <<active, queue>>
    <3>1. UNCHANGED <<retrySched, occupied>>
      BY <1>17, Zenon DEF CreateTask
    <3>2. Clean'
      BY <1>1, <1>2, <2>6, <3>1, CleanKept
    <3> QED BY <2>5, <3>2
  <2>7. CASE agenda' = <<Drain, Sync>> \/ agenda' = <<Sync>>
    <3>1. Drain \in Op
      BY OpForms, OpenForms
    <3>2. Sync \in OpsOf(agenda') /\ Sync.op \in Syncing
      BY <2>7, <3>1, SyncSeqs
    <3>3. SyncDue'
      BY <3>2 DEF SyncDue
    <3> QED BY <2>5, <3>3
  <2> QED BY <1>17, <2>6, <2>7, Zenon DEF CreateTask
<1>18. CASE (\E S \in Batch : DeleteTasksBatch(S)) \/ \E t \in Tasks : DeleteTask(t)
  BY <1>4, <1>6, <1>11, <1>12, <1>18 DEF OccInv
<1>19. CASE ~((\E S \in Batch : DeleteTasksBatch(S)) \/ \E t \in Tasks : DeleteTask(t))
  <2>1. (\A u \in QueuedTasks(queue') : HasRow(u)') /\ (SyncDue' \/ Clean')
    BY <1>0, <1>15, <1>16, <1>17, <1>19, Zenon DEF UserCommand
  <2>2. WaitRows'
    BY <1>10, <1>13, <1>19, <2>1
  <2> QED BY <1>4, <1>6, <2>1, <2>2 DEF OccInv
<1> QED BY <1>18, <1>19

LEMMA OccMessage ==
  ASSUME TypeOK, TypeOK', PauseInv, GenInv, Plain, OccInv, Message
  PROVE  OccInv'
<1>1. ~Running("drainLoop") /\ ~Running("drainLoop")' /\ agenda = <<>>
  BY MessageAgenda, BeginFacts DEF BeginStep, Idle, Running
<1>2. OpsOf(<<>>) = {}
  BY DEF OpsOf
<1>3. Clean
  BY <1>1, <1>2 DEF SyncDue, Running, OccInv
<1>4. UNCHANGED <<queue, db, pauses, retrySched>>
  BY DEF Message, OnTaskDone, OnRetry, actorVars, Plain
<1>5. Waiting' = Waiting
  BY <1>1, <1>4 DEF Waiting, Line
<1>6. (\A u \in Waiting' : HasRow(u)') /\ \A u \in Tasks : Flushing(u)' => u \notin retrySched'
  BY <1>4, <1>5 DEF OccInv, WaitRows, RetryQuiet, HasRow, Flushing
<1>7. CASE OnTaskDone
  <2>1. /\ AgendaOcc' /\ Sync \in OpsOf(agenda')
        /\ \A o \in OpsOf(agenda') : o.op \notin Erasing /\ (o.op = "retry" => ~Flushing(o.task))
    BY <1>7, TaskDoneRetry
  <2>2. WaitRows'
    BY <1>6, <2>1 DEF WaitRows, Erasing
  <2>3. RetryQuiet'
    BY <1>4, <1>6, <2>1 DEF RetryQuiet, Flushing
  <2>4. SyncDue'
    BY <2>1, OpenForms DEF SyncDue, Syncing
  <2> QED BY <2>1, <2>2, <2>3, <2>4 DEF OccInv
<1>8. ASSUME NEW t \in Tasks, OnRetry(t) PROVE OccInv'
  <2> DEFINE r == Do("resumeAuto", t)
  <2>1. /\ r \in Op /\ r.op = "resumeAuto" /\ UNCHANGED <<active, occupied>>
        /\ agenda' = Opt(is_task_in_error(t), r)
    BY <1>8, OpForms, OpenForms DEF OnRetry, actorVars
  <2> HIDE DEF r
  <2>2. \A o \in OpsOf(agenda') : o.op = "resumeAuto"
    BY <2>1, ShortSeqs, ZenonT(30)
  <2>3. AgendaOcc'
    BY <2>2, AgendaOccPlain DEF Batched, Erasing
  <2>4. WaitRows' /\ RetryQuiet'
    BY <1>6, <2>2 DEF WaitRows, RetryQuiet
  <2>5. Clean'
    BY <1>1, <1>3, <1>4, <2>1, CleanKept
  <2> QED BY <2>3, <2>4, <2>5 DEF OccInv
<1> QED BY <1>7, <1>8 DEF Message, Plain

LEMMA OccDownload ==
  ASSUME TypeOK, OccInv, NEW s \in spawns, Download(s)
  PROVE  OccInv'
<1>1. UNCHANGED <<actorVars, agenda>>
  BY DownloadRows
<1>2. UNCHANGED <<active, queue, pauses, retrySched, occupied, agenda>>
  BY <1>1 DEF actorVars
<1>3. \A u \in Tasks : HasRow(u) => HasRow(u)'
  <2>1. s.task \in Tasks
    BY DEF TypeOK, Spawn
  <2>2. UNCHANGED db \/ \E st \in Live, e \in {"", "retriable", "fatal"} : db' = UpdateStatus(s.task, st, e)
    BY DownloadRows
  <2>3. ASSUME NEW st \in Live, NEW e \in {"", "retriable", "fatal"}, db' = UpdateStatus(s.task, st, e)
        PROVE  \A u \in Tasks : HasRow(u) => HasRow(u)'
    <3>1. e \in {"", "cancelled", "retriable", "fatal"}
      OBVIOUS
    <3>2. \A u \in Tasks : HasRow(u) => UpdateStatus(s.task, st, e)[u].status \in Live
      BY <2>1, <3>1, LiveUpdate
    <3> QED BY <2>3, <3>2 DEF HasRow
  <2> QED BY <2>2, <2>3 DEF HasRow
<1>4. Waiting' = Waiting /\ Waiting \subseteq Tasks
  BY <1>2, WaitingTasks DEF Waiting, Line, Running
<1>5. AgendaOcc'
  BY <1>2 DEF OccInv, AgendaOcc, EraseAlone, RetryTame, LastSync, Unbatched
<1>6. WaitRows'
  BY <1>2, <1>3, <1>4 DEF OccInv, WaitRows
<1>7. RetryQuiet'
  BY <1>2 DEF OccInv, RetryQuiet, Flushing
<1>8. SyncDue => SyncDue'
  BY <1>2 DEF SyncDue, Running, Flushing, IsActive, AlreadyQueued
<1>9. Clean => Clean'
  <2>1. ActiveTasks' = ActiveTasks
    BY <1>2 DEF ActiveTasks, IsActive
  <2> QED BY <1>2, <1>4, <2>1 DEF Clean, Held
<1> QED BY <1>5, <1>6, <1>7, <1>8, <1>9 DEF OccInv

(* Nothing is held and nothing is to be done. *)
NothingHeld == /\ queue = <<>> /\ agenda = <<>>
               /\ ActiveTasks = {} /\ retrySched = {} /\ occupied = {}

LEMMA OccEmpty == NothingHeld => OccInv
<1> SUFFICES ASSUME NothingHeld PROVE OccInv
  OBVIOUS
<1>1. OpsOf(<<>>) = {} /\ QueuedTasks(<<>>) = {}
  BY DEF OpsOf, QueuedTasks
<1>2. Waiting = {} /\ Held = {}
  BY <1>1 DEF NothingHeld, Waiting, Held, Line, Running
<1>3. Clean
  BY <1>2 DEF NothingHeld, Clean
<1> QED BY <1>1, <1>2, <1>3
        DEF NothingHeld, OccInv, AgendaOcc, EraseAlone, RetryTame, LastSync, Unbatched, WaitRows, RetryQuiet

LEMMA OccEmptied == NothingHeld' => OccInv'
BY OccEmpty, PTL

LEMMA OccNext ==
  ASSUME Commands \cap {"cancel", "boost", "queue"} = {}, Resolvable = {},
         IInv, Plain, LineInv, OccInv, [Next]_vars
  PROVE  OccInv'
<1>1. TypeOK /\ TypeOK' /\ AgendaInv(agenda) /\ PauseInv /\ GenInv
  BY TypeNext DEF IInv
<1>2. CASE HandlerStep
  <2>1. AgendaOcc /\ WaitRows /\ RetryQuiet
    BY DEF OccInv
  <2>2. AgendaOcc'
    BY <1>1, <1>2, <2>1, AgendaOccHandler
  <2>3. WaitRows'
    BY <1>1, <1>2, <2>1, RowsHandlerKept
  <2>4. RetryQuiet'
    BY <1>1, <1>2, <2>1, RetryHandler
  <2>5. SyncDue' \/ Clean'
    BY <1>1, <1>2, SyncHandler
  <2> QED BY <2>2, <2>3, <2>4, <2>5 DEF OccInv
<1>3. CASE UserCommand
  BY <1>1, <1>3, OccCommand
<1>4. CASE Message
  BY <1>1, <1>4, OccMessage
<1>5. CASE \E s \in spawns : Download(s)
  BY <1>1, <1>5, OccDownload
<1>6. CASE Reboot
  <2>1. NothingHeld'
    BY <1>6 DEF Reboot, NothingHeld, ActiveTasks, IsActive, NoEntry
  <2> QED BY <2>1, OccEmptied
<1>7. CASE UNCHANGED vars
  BY <1>7 DEF vars, OccInv, AgendaOcc, EraseAlone, RetryTame, LastSync, Unbatched, WaitRows, RetryQuiet,
              SyncDue, Clean, Held, Waiting, Line, ActiveTasks, IsActive, Running, HasRow, Flushing,
              AlreadyQueued
<1> QED BY <1>2, <1>3, <1>4, <1>5, <1>6, <1>7 DEF Next

(* Every step of pause, resume, restart, delete, create, a report of a      *)
(* download, a retry and a deleted batch that changes who runs, waits or is *)
(* due for a retry has a sync_queue_occupancy still to run before the actor *)
(* is idle again: occupied_queues is then what the tables say.              *)
THEOREM QueuesAnnounced ==
  ASSUME Commands \cap {"cancel", "boost", "queue"} = {}, Resolvable = {}
  PROVE  Spec => []OccupancyCurrent
<1>0. "boost" \notin Commands
  OBVIOUS
<1>1. Init => Plain /\ LineInv /\ OccInv
  <2>1. OpsOf(<<>>) = {} /\ QueuedTasks(<<>>) = {}
    BY DEF OpsOf, QueuedTasks
  <2>2. Init => NothingHeld /\ Line = <<>> /\ ~Running("drainLoop")
    <3> SUFFICES ASSUME Init PROVE NothingHeld /\ Line = <<>> /\ ~Running("drainLoop")
      OBVIOUS
    <3>1. queue = <<>> /\ agenda = <<>> /\ retrySched = {} /\ occupied = {} /\ active = [t \in Tasks |-> NoEntry]
      BY DEF Init
    <3>2. ActiveTasks = {} /\ ~Running("drainLoop")
      BY <3>1 DEF ActiveTasks, IsActive, NoEntry, Running
    <3> QED BY <3>1, <3>2 DEF NothingHeld, Line
  <2>3. Init => Plain
    BY <2>1 DEF Init, Plain, Starting
  <2>4. Init => LineInv
    BY <2>1, <2>2 DEF LineInv, Distinct
  <2> QED BY <2>2, <2>3, <2>4, OccEmpty
<1>2. IInv /\ Plain /\ LineInv /\ OccInv /\ [Next]_vars => Plain' /\ LineInv' /\ OccInv'
  BY <1>0, PlainNext, LineNext, OccNext DEF IInv
<1>3. OccInv => OccupancyCurrent
  <2> SUFFICES ASSUME OccInv, Idle PROVE OccupancyCurrent
    BY DEF OccupancyCurrent
  <2>1. OpsOf(<<>>) = {}
    BY DEF OpsOf
  <2>2. Clean /\ ~Running("drainLoop")
    BY <2>1 DEF OccInv, SyncDue, Idle, Running
  <2> QED BY <2>2 DEF OccupancyCurrent, Clean, Held, Waiting, Line
<1> QED BY <1>1, <1>2, <1>3, Inductive, PTL DEF Spec

-----------------------------------------------------------------------------
(* The target of a Boost runs *)

(* While a Boost is on, what runs is within the limits. This is a           *)
(* hypothesis and no invariant: resume_task_inner lets a Boost target whose *)
(* stale entry it has dropped wait when there is no room, with Boost still  *)
(* on, and a lowered limit or a third task can take the room away.          *)
BoostWithin ==
    boost # NoTask =>
      /\ maxc = 0 \/ Cardinality(ActiveTasks) <= maxc
      /\ \A q \in Queues :
           QueueMax[q] = 0 \/ Cardinality({t \in ActiveTasks : QueueOf[t] = q}) <= QueueMax[q]

(* What a handler still does before it starts a Boost target.               *)
Prelude == Boosting \cup {"autoPause", "pause", "drain", "drainLoop", "guardBoost", "sync"}

(* While a Boost target waits for its start, no Boost is on, nothing that   *)
(* could put it back into the queue is on the agenda, and it is not there.  *)
Readying ==
    \A b \in OpsOf(agenda) : b.op = "boostStart" =>
      /\ boost = NoTask
      /\ b.queued => b.task \notin Waiting
      /\ \A o \in OpsOf(agenda) : o.op \in Prelude \cup {"boostStart"}

(* The steps of that handler. *)
Preluding(t) == PauseTaskInner(t) \/ GuardBoost(t) \/ BoostCollect(t) \/ AutoPause(t)

LEMMA PreludeForms ==
  ASSUME HandlerStep, Head(agenda).op \in Prelude
  PROVE  \/ DrainQueue \/ DrainEnd \/ DrainItem \/ sync_queue_occupancy \/ EndSet
         \/ \E t \in Tasks : Preluding(t)
<1>1. ~(LoadBatch \/ BatchResumed \/ ReapBatch \/ EraseBatch \/ ClearPriority)
  BY DEF LoadBatch, BatchResumed, ReapBatch, EraseBatch, ClearPriority, Running, Prelude, Boosting
<1>2. ASSUME NEW t \in Tasks,
             \/ ResumeTaskInner(t) \/ FinishPendingPause(t) \/ AutoRetry(t) \/ ResumeBoosted(t)
             \/ BoostStart(t) \/ BoostCheck(t)
      PROVE  FALSE
  BY <1>2 DEF ResumeTaskInner, FinishPendingPause, AutoRetry, ResumeBoosted, BoostStart, BoostCheck,
              Running, Prelude, Boosting
<1>3. ASSUME NEW t \in Tasks,
             \/ ReapHandle(t) \/ EraseTask(t) \/ ResetTask(t)
             \/ PauseBatchItem(t) \/ ResumeWithRow(t) \/ ForgetDeleted(t)
      PROVE  FALSE
  BY <1>3 DEF ReapHandle, EraseTask, ResetTask, PauseBatchItem, ResumeWithRow, ForgetDeleted,
              Running, Prelude, Boosting
<1> QED BY <1>1, <1>2, <1>3, Zenon DEF HandlerStep, Preluding

LEMMA PreludeSteps ==
  ASSUME TypeOK, AgendaInv(agenda), HandlerStep, Head(agenda).op \in Prelude, boost = NoTask
  PROVE  Pushed(Prelude) /\ UNCHANGED boost
<1>0. /\ Drain \in Op /\ Drain.op \in Prelude /\ Sync \in Op /\ Sync.op \in Prelude
      /\ \A t \in Tasks, n \in {"guardBoost", "pause"} : Do(n, t) \in Op /\ Do(n, t).op \in Prelude
  BY OpForms, OpenForms DEF Prelude
<1>1. <<>> \in Seq(Op) /\ \A o \in OpsOf(<<>>) : o.op \in Prelude
  BY <1>0, KindSeqs
<1>2. CASE DrainQueue \/ DrainItem
  <2>1. /\ AgendaFlow /\ agenda' # <<>> /\ Head(agenda') \in Op /\ Head(agenda').op = "drainLoop"
    BY <1>2, LoudDrain
  <2>2. PICK o : Continue(<<o>>)
    BY <1>2, Zenon DEF DrainQueue, DrainItem
  <2>3. Head(agenda') = o
    BY <2>2 DEF Continue, TypeOK
  <2>4. o \in Op /\ o.op \in Prelude /\ agenda # <<>>
    BY <2>1, <2>3 DEF Prelude, AgendaFlow
  <2>5. UNCHANGED boost
    BY <1>2 DEF DrainQueue, DrainItem
  <2> QED BY <2>2, <2>4, <2>5, KindSeqs, PushKinds
<1>3. CASE DrainEnd \/ sync_queue_occupancy \/ EndSet
  <2>1. agenda # <<>> /\ Continue(<<>>) /\ UNCHANGED boost
    BY <1>3 DEF DrainEnd, sync_queue_occupancy, EndSet, Running, actorVars
  <2> QED BY <1>1, <2>1, PushKinds
<1>4. ASSUME NEW t \in Tasks, PauseTaskInner(t) PROVE Pushed(Prelude) /\ UNCHANGED boost
  <2> DEFINE g == Do("guardBoost", t)
  <2>1. g \in Op /\ g.op \in Prelude
    BY <1>0
  <2>2. Continue(<<Sync>>) \/ Continue(<<Drain, g, Sync>>)
    BY <1>4, Zenon DEF PauseTaskInner
  <2>3. agenda # <<>> /\ UNCHANGED boost
    BY <1>4 DEF PauseTaskInner, Running
  <2> HIDE DEF g
  <2>4. /\ <<Sync>> \in Seq(Op) /\ \A o \in OpsOf(<<Sync>>) : o.op \in Prelude
        /\ <<Drain, g, Sync>> \in Seq(Op) /\ \A o \in OpsOf(<<Drain, g, Sync>>) : o.op \in Prelude
    BY <1>0, <2>1, KindSeqs
  <2> QED BY <2>2, <2>3, <2>4, PushKinds
<1>5. ASSUME NEW t \in Tasks, GuardBoost(t) PROVE Pushed(Prelude) /\ UNCHANGED boost
  <2>1. boost # t
    BY TasksAssumption
  <2>2. Continue(<<>>) /\ agenda # <<>> /\ UNCHANGED boost
    BY <1>5, <2>1 DEF GuardBoost, Opt, Running, actorVars
  <2> QED BY <1>1, <2>2, PushKinds
<1>6. ASSUME NEW t \in Tasks, BoostCollect(t) PROVE Pushed(Prelude) /\ UNCHANGED boost
  <2>1. PICK S : Continue(<<[op |-> "autoPause", set |-> S]>>) /\ S \in SUBSET Tasks
    <3>1. ActiveTasks \in SUBSET Tasks /\ QueuedTasks(queue) \in SUBSET Tasks
      <4>1. queue \in Seq(Tasks)
        BY DEF TypeOK
      <4> QED BY <4>1 DEF ActiveTasks, QueuedTasks
    <3>2. CASE Running("boostActive")
      BY <1>6, <3>1, <3>2 DEF BoostCollect
    <3>3. CASE Running("boostQueued")
      <4>1. ~Running("boostActive")
        BY <3>3 DEF Running
      <4> QED BY <1>6, <3>1, <3>3, <4>1 DEF BoostCollect
    <3>4. CASE Running("boostStray")
      <4>1. ~Running("boostActive") /\ ~Running("boostQueued")
        BY <3>4 DEF Running
      <4> QED BY <1>6, <3>1, <3>4, <4>1 DEF BoostCollect
    <3> QED BY <1>6, <3>2, <3>3, <3>4 DEF BoostCollect
  <2> DEFINE o == [op |-> "autoPause", set |-> S]
  <2>2. o \in Op /\ o.op \in Prelude /\ Continue(<<o>>)
    BY <2>1, OpForms DEF Prelude
  <2>3. agenda # <<>> /\ UNCHANGED boost
    BY <1>6 DEF BoostCollect, Running, actorVars
  <2> HIDE DEF o
  <2> QED BY <2>2, <2>3, KindSeqs, PushKinds
<1>7. ASSUME NEW t \in Tasks, AutoPause(t) PROVE Pushed(Prelude) /\ UNCHANGED boost
  <2> DEFINE rest == [Head(agenda) EXCEPT !.set = @ \ {t}]
             r == Do("pause", t)
  <2>1. /\ Head(agenda).op = "autoPause" /\ Continue(<<r, rest>>) /\ agenda # <<>>
        /\ UNCHANGED boost
    BY <1>7 DEF AutoPause, Running
  <2>2. rest \in Op /\ rest.op \in Prelude
    BY <2>1, HeadInOps, OpEdits DEF Prelude
  <2>3. r \in Op /\ r.op \in Prelude
    BY <1>0
  <2> HIDE DEF rest, r
  <2> QED BY <2>1, <2>2, <2>3, KindSeqs, PushKinds
<1> QED BY <1>2, <1>3, <1>4, <1>5, <1>6, <1>7, PreludeForms, Zenon DEF Preluding

(* Nobody joins the line meanwhile. *)
LEMMA PreludeWaits ==
  ASSUME TypeOK, AgendaInv(agenda), LineInv, HandlerStep, Head(agenda).op \in Prelude
  PROVE  Waiting' \subseteq Waiting
<1>1. CASE DrainQueue \/ DrainEnd \/ DrainItem
  BY <1>1, DrainMoves DEF Waiting
<1> SUFFICES ASSUME ~DrainQueue, ~DrainEnd, ~DrainItem
             PROVE  Waiting' \subseteq Waiting
  BY <1>1
<1>2. Line = queue /\ Line' = queue'
  BY LoopSteps, HandlerAgenda DEF Line
<1>3. UNCHANGED queue \/ \E t : queue' = Without(queue, {t})
  <2>1. CASE sync_queue_occupancy \/ EndSet
    BY <2>1 DEF sync_queue_occupancy, EndSet, actorVars
  <2>2. ASSUME NEW t \in Tasks, PauseTaskInner(t)
        PROVE  UNCHANGED queue \/ queue' = Without(queue, {t})
    BY <2>2, Zenon DEF PauseTaskInner, Unqueue
  <2>3. ASSUME NEW t \in Tasks, GuardBoost(t) \/ BoostCollect(t) \/ AutoPause(t)
        PROVE  UNCHANGED queue
    BY <2>3 DEF GuardBoost, BoostCollect, AutoPause, actorVars
  <2> QED BY <2>1, <2>2, <2>3, PreludeForms, Zenon DEF Preluding
<1>4. queue \in Seq(Tasks)
  BY DEF TypeOK
<1>5. ASSUME NEW t, queue' = Without(queue, {t}) PROVE QueuedTasks(queue') \subseteq QueuedTasks(queue)
  BY <1>4, <1>5, WithoutFacts
<1> QED BY <1>2, <1>3, <1>5 DEF Waiting

(* After the start nothing of the handler is left but its check. *)
LEMMA StartLast ==
  ASSUME TypeOK, AgendaInv(agenda), NEW t \in Tasks, BoostStart(t)
  PROVE  /\ ~Starting(agenda') /\ ~Running("drainLoop") /\ ~Running("drainLoop")'
         /\ Do("boostCheck", t) \in OpsOf(agenda')
<1> DEFINE p == ~IsActive(t) /\ ~(~IsActive(t) /\ Head(agenda).queued)
           c == Do("boostCheck", t)
           r == Do("resume", t)
           K == {"resume", "boostCheck"}
<1>1. agenda \in Seq(Op) /\ agenda # <<>> /\ Head(agenda).op = "boostStart"
  BY RunningFacts DEF BoostStart
<1>2. agenda[1] = Head(agenda) /\ 1 \in 1..Len(agenda)
  BY <1>1
<1>3. Len(agenda) = 1
  BY <1>1, <1>2 DEF AgendaInv, Placed
<1>4. Continue(Opt(p, r) \o <<c>>)
  BY DEF BoostStart
<1>5. r \in Op /\ c \in Op /\ r.op \in K /\ c.op \in K
  BY OpForms, OpenForms
<1> HIDE DEF K, r, c, p
<1>6. Opt(p, r) \o <<c>> \in Seq(Op) /\ \A o \in OpsOf(Opt(p, r) \o <<c>>) : o.op \in K
  BY <1>5, KindSeqs
<1>7. Pushed(K)
  BY <1>1, <1>4, <1>6, PushKinds
<1>8. \A o \in OpsOf(agenda') : o.op \in K
  BY <1>3, <1>7, PushedOps
<1>9. c \in OpsOf(agenda')
  <2>1. Opt(p, r) \in Seq(Op) /\ <<c>> \in Seq(Op) /\ OpsOf(<<c>>) = {c}
    BY <1>5, ShortSeqs
  <2>2. c \in OpsOf(Opt(p, r) \o <<c>>)
    BY <2>1, CatFacts
  <2>3. OpsOf(agenda') = OpsOf(Opt(p, r) \o <<c>>) \cup OpsOf(Tail(agenda))
    BY <1>1, <1>4, <1>6, ContinueFacts DEF Continue
  <2> QED BY <2>2, <2>3
<1>10. ~Running("drainLoop") /\ ~Running("drainLoop")'
  BY <1>1, LoudBoostStart DEF Running
<1> QED BY <1>8, <1>9, <1>10 DEF Starting, K, c

(* The head of the agenda says which step runs. *)
LEMMA StartForm ==
  ASSUME HandlerStep, agenda # <<>>, Head(agenda).op = "boostStart"
  PROVE  \E t \in Tasks : BoostStart(t)
<1>1. ~(LoadBatch \/ BatchResumed \/ ReapBatch \/ EraseBatch \/ ClearPriority \/ DrainQueue \/ DrainEnd
        \/ DrainItem \/ sync_queue_occupancy \/ EndSet)
  BY DEF LoadBatch, BatchResumed, ReapBatch, EraseBatch, ClearPriority, DrainQueue, DrainEnd,
         DrainItem, sync_queue_occupancy, EndSet, Running
<1>2. ASSUME NEW t \in Tasks,
             \/ PauseTaskInner(t) \/ GuardBoost(t) \/ ResumeTaskInner(t)
             \/ FinishPendingPause(t) \/ AutoRetry(t) \/ ResumeBoosted(t)
             \/ BoostCollect(t) \/ AutoPause(t)
      PROVE  FALSE
  BY <1>2 DEF PauseTaskInner, GuardBoost, ResumeTaskInner, FinishPendingPause, AutoRetry,
              ResumeBoosted, BoostCollect, AutoPause, Running
<1>3. ASSUME NEW t \in Tasks,
             \/ BoostCheck(t)
             \/ ReapHandle(t) \/ EraseTask(t) \/ ResetTask(t)
             \/ PauseBatchItem(t) \/ ResumeWithRow(t) \/ ForgetDeleted(t)
      PROVE  FALSE
  BY <1>3 DEF BoostCheck, ReapHandle, EraseTask, ResetTask, PauseBatchItem,
              ResumeWithRow, ForgetDeleted, Running
<1> QED BY <1>1, <1>2, <1>3, Zenon DEF HandlerStep

LEMMA ReadyHandler ==
  ASSUME TypeOK, AgendaInv(agenda), LineInv, Readying, HandlerStep
  PROVE  Readying'
<1> SUFFICES ASSUME NEW b \in OpsOf(agenda'), b.op = "boostStart"
             PROVE  /\ boost' = NoTask
                    /\ b.queued => b.task \notin Waiting'
                    /\ \A o \in OpsOf(agenda') : o.op \in Prelude \cup {"boostStart"}
  BY DEF Readying
<1>1. b \in OpsOf(agenda) /\ AgendaFlow
  BY HandlerAgenda DEF AgendaFlow
<1>2. /\ boost = NoTask /\ (b.queued => b.task \notin Waiting)
      /\ \A o \in OpsOf(agenda) : o.op \in Prelude \cup {"boostStart"}
  BY <1>1 DEF Readying
<1>3. agenda # <<>> /\ Head(agenda) \in OpsOf(agenda)
  BY <1>1, HeadInOps DEF AgendaFlow
<1>4. Head(agenda).op # "boostStart"
  <2> SUFFICES ASSUME Head(agenda).op = "boostStart" PROVE FALSE
    OBVIOUS
  <2>1. PICK t \in Tasks : BoostStart(t)
    BY <1>3, StartForm
  <2> QED BY <2>1, StartLast DEF Starting
<1>5. Head(agenda).op \in Prelude
  BY <1>2, <1>3, <1>4
<1>6. Pushed(Prelude) /\ UNCHANGED boost
  BY <1>2, <1>5, PreludeSteps
<1>7. Waiting' \subseteq Waiting
  BY <1>5, PreludeWaits
<1>8. \A o \in OpsOf(agenda') : o.op \in Prelude \/ o \in OpsOf(agenda)
  BY <1>6, PushedOps
<1> QED BY <1>2, <1>6, <1>7, <1>8

LEMMA ReadyNext ==
  ASSUME IInv, outcomes = {}, LineInv, Readying, [Next]_vars
  PROVE  LineInv' /\ Readying'
<1>0. TypeOK /\ TypeOK' /\ AgendaInv(agenda) /\ PauseInv
  BY TypeNext DEF IInv
<1>1. ASSUME NEW t \in Tasks, BoostStart(t) PROVE LineInv' /\ Readying'
  <2>1. ~Starting(agenda') /\ ~Running("drainLoop") /\ ~Running("drainLoop")'
    BY <1>0, <1>1, StartLast
  <2>2. queue \in Seq(Tasks) /\ QueuedTasks(queue) \subseteq Tasks /\ Distinct(queue)
    <3>1. queue \in Seq(Tasks)
      BY <1>0 DEF TypeOK
    <3>2. QueuedTasks(queue) \subseteq Tasks
      BY <3>1 DEF QueuedTasks
    <3> QED BY <2>1, <3>1, <3>2 DEF LineInv, Line
  <2>3. UNCHANGED <<queue, db>>
    BY <1>1 DEF BoostStart
  <2>4. \A u \in QueuedTasks(queue) : active'[u] = active[u]
    <3>1. CASE ~IsActive(t) /\ Head(agenda).queued
      <4>1. Head(agenda) \in OpsOf(agenda) /\ Head(agenda).op = "boostStart" /\ Head(agenda).task = t
        BY <1>0, <1>1, HeadInOps DEF BoostStart, Running
      <4>2. t \notin QueuedTasks(queue)
        BY <2>1, <3>1, <4>1 DEF Readying, Waiting, Line
      <4>3. do_resume_task(t)
        BY <1>1, <3>1 DEF BoostStart
      <4> QED BY <1>0, <2>2, <4>2, <4>3, StartsOne
    <3>2. CASE ~(~IsActive(t) /\ Head(agenda).queued)
      <4>1. UNCHANGED active
        BY <1>1, <3>2 DEF BoostStart
      <4> QED BY <4>1
    <3> QED BY <3>1, <3>2
  <2>5. LineInv'
    BY <2>1, <2>2, <2>3, <2>4, LineFramed
  <2> QED BY <2>1, <2>5 DEF Readying, Starting
<1>2. ASSUME NEW t \in Tasks, SetPriorityTask(t) PROVE LineInv' /\ Readying'
  <2>1. ~Running("drainLoop") /\ Idle
    BY <1>2 DEF SetPriorityTask, Command, Idle, Running
  <2>2. UNCHANGED <<active, db>> /\ (UNCHANGED queue \/ queue' = Without(queue, {t}))
    BY <1>2 DEF SetPriorityTask, Unqueue
  <2>3. CASE agenda' = <<ClearBoost>>
    <3>1. OpsOf(agenda') = {ClearBoost} /\ Head(agenda') = ClearBoost
      BY <2>3 DEF OpsOf
    <3>2. ~Running("drainLoop")'
      BY <3>1, OpenForms DEF Running
    <3>3. LineInv'
      BY <1>0, <2>1, <2>2, <3>2, LineShrinks DEF SameRows
    <3> QED BY <3>1, <3>3, OpenForms DEF Readying
  <2>4. CASE agenda' # <<ClearBoost>>
    <3> DEFINE n == t \in QueuedTasks(queue)
    <3>1. /\ boost' = NoTask /\ queue' = Without(queue, {t})
          /\ agenda' = <<Do("boostActive", t), Do("boostQueued", t), Do("boostStray", t),
                         [op |-> "boostStart", task |-> t, queued |-> n]>>
      BY <1>2, <2>4 DEF SetPriorityTask, Unqueue
    <3>2. n \in BOOLEAN
      OBVIOUS
    <3> HIDE DEF n
    <3>3. /\ \A o \in OpsOf(agenda') : /\ o.op \in Boosting \cup {"boostStart"}
                                       /\ o.op = "boostStart" => o.task = t
          /\ ~Running("drainLoop")'
      BY <3>1, <3>2, BoostAgenda DEF Running
    <3>4. LineInv'
      BY <1>0, <2>1, <2>2, <3>3, LineShrinks DEF SameRows
    <3>5. t \notin Waiting'
      <4>1. queue \in Seq(Tasks)
        BY <1>0 DEF TypeOK
      <4>2. t \notin QueuedTasks(Without(queue, {t}))
        BY <4>1, WithoutFacts
      <4> QED BY <3>1, <3>3, <4>2 DEF Waiting, Line
    <3> QED BY <3>1, <3>3, <3>4, <3>5 DEF Readying, Prelude
  <2> QED BY <2>3, <2>4
<1> SUFFICES ASSUME \A t \in Tasks : ~BoostStart(t) /\ ~SetPriorityTask(t)
             PROVE  LineInv' /\ Readying'
  BY <1>1, <1>2
<1>3. LineInv'
  BY LineStep
<1>4. CASE HandlerStep
  BY <1>0, <1>3, <1>4, ReadyHandler
<1>5. CASE UserCommand \/ Message
  <2>1. BeginStep
    BY <1>0, <1>5, CommandAgenda, MessageAgenda, Zenon DEF UserCommand
  <2>2. ~Starting(agenda')
    BY <2>1 DEF BeginStep, Opening, Starting
  <2> QED BY <1>3, <2>2 DEF Readying, Starting
<1>6. CASE (\E s \in spawns : Download(s)) \/ UNCHANGED vars
  <2>1. UNCHANGED <<agenda, queue, boost>>
    BY <1>6 DEF Download, actorVars, vars
  <2>2. Waiting' = Waiting
    BY <2>1 DEF Waiting, Line, Running
  <2> QED BY <1>3, <2>1, <2>2 DEF Readying
<1>7. CASE Reboot
  <2>1. OpsOf(agenda') = {}
    BY <1>7 DEF Reboot, OpsOf
  <2> QED BY <1>3, <2>1 DEF Readying
<1> QED BY <1>4, <1>5, <1>6, <1>7 DEF Next

(* What ends the Boost of task t, or deletes t and ends it then.            *)
Ends(o, t) ==
    \/ o.op = "clearBoost"
    \/ o.op \in {"guardBoost", "boostCheck", "reap", "erase"} /\ o.task = t
    \/ o.op \in {"reapBatch", "eraseBatch", "forget"} /\ t \in o.set
Ending(t) == \E o \in OpsOf(agenda) : Ends(o, t)

(* A Boost target runs, or the handler is going to end its Boost.           *)
BoostHeld == boost # NoTask => IsActive(boost) \/ Ending(boost)

LEMMA EndForms ==
  ASSUME HandlerStep, NEW t, Ends(Head(agenda), t)
  PROVE  \/ ClearPriority \/ ReapBatch \/ EraseBatch
         \/ \E u \in Tasks : GuardBoost(u) \/ BoostCheck(u) \/ ReapHandle(u) \/ EraseTask(u) \/ ForgetDeleted(u)
<1>1. ~(LoadBatch \/ BatchResumed \/ DrainQueue \/ DrainEnd \/ DrainItem \/ sync_queue_occupancy)
  BY DEF LoadBatch, BatchResumed, DrainQueue, DrainEnd, DrainItem, sync_queue_occupancy, Running, Ends
<1>2. ~EndSet
  BY DEF EndSet, Running, Ends
<1>3. ASSUME NEW u \in Tasks,
             \/ PauseTaskInner(u) \/ ResumeTaskInner(u) \/ FinishPendingPause(u) \/ AutoRetry(u)
             \/ ResumeBoosted(u) \/ BoostCollect(u) \/ AutoPause(u)
      PROVE  FALSE
  BY <1>3 DEF PauseTaskInner, ResumeTaskInner, FinishPendingPause, AutoRetry, ResumeBoosted,
              BoostCollect, AutoPause, Running, Ends
<1>4. ASSUME NEW u \in Tasks,
             BoostStart(u) \/ ResetTask(u) \/ PauseBatchItem(u) \/ ResumeWithRow(u)
      PROVE  FALSE
  BY <1>4 DEF BoostStart, ResetTask, PauseBatchItem, ResumeWithRow, Running, Ends
<1> QED BY <1>1, <1>2, <1>3, <1>4, Zenon DEF HandlerStep

(* What is put on the agenda is on it. *)
LEMMA PushedIn ==
  ASSUME TypeOK, agenda # <<>>, NEW ops \in Seq(Op), Continue(ops)
  PROVE  OpsOf(ops) \subseteq OpsOf(agenda')
BY ContinueFacts DEF TypeOK, Continue

LEMMA OptIn ==
  ASSUME NEW a \in Op, NEW b \in Seq(Op), NEW p, p
  PROVE  /\ Opt(p, a) \in Seq(Op) /\ a \in OpsOf(Opt(p, a))
         /\ Opt(p, a) \o b \in Seq(Op) /\ a \in OpsOf(Opt(p, a) \o b)
<1>1. Opt(p, a) \in Seq(Op) /\ a \in OpsOf(Opt(p, a))
  BY ShortSeqs
<1> QED BY <1>1, CatFacts

LEMMA EndingHead ==
  ASSUME TypeOK, HandlerStep, boost # NoTask, agenda # <<>>, Ends(Head(agenda), boost)
  PROVE  boost' = NoTask \/ (boost' = boost /\ (IsActive(boost)' \/ Ending(boost)'))
<1>0. /\ boost \in Tasks /\ agenda \in Seq(Op) /\ Head(agenda) \in Op
      /\ Drain \in Op /\ Sync \in Op /\ ClearBoost \in Op /\ ClearBoost.op = "clearBoost"
  BY HeadInOps, OpForms, OpenForms DEF TypeOK
<1>1. Ends(ClearBoost, boost)
  BY <1>0 DEF Ends
<1>2. ASSUME NEW o \in OpsOf(agenda'), Ends(o, boost), UNCHANGED boost PROVE boost' = boost /\ Ending(boost)'
  BY <1>2 DEF Ending
<1>3. CASE ClearPriority
  BY <1>3 DEF ClearPriority
<1>4. CASE ReapBatch
  <2> DEFINE o == [op |-> "eraseBatch", set |-> Head(agenda).set]
  <2>1. Head(agenda).op = "reapBatch" /\ Continue(<<o>>) /\ UNCHANGED boost
    BY <1>4 DEF ReapBatch, Running, actorVars
  <2>2. Head(agenda).set \in SUBSET Tasks /\ boost \in Head(agenda).set
    BY <1>0, <2>1, OpFields DEF Ends
  <2>3. o \in Op /\ Ends(o, boost)
    BY <2>2, OpForms DEF Ends
  <2> HIDE DEF o
  <2>4. o \in OpsOf(agenda')
    BY <2>1, <2>3, ShortSeqs, PushedIn
  <2> QED BY <1>2, <2>1, <2>3, <2>4
<1>5. CASE EraseBatch
  <2> DEFINE o == [op |-> "forget", set |-> Head(agenda).set]
  <2>1. Head(agenda).op = "eraseBatch" /\ Continue(<<o, Drain, Sync>>) /\ UNCHANGED boost
    BY <1>5 DEF EraseBatch, Running, actorVars
  <2>2. Head(agenda).set \in SUBSET Tasks /\ boost \in Head(agenda).set
    BY <1>0, <2>1, OpFields DEF Ends
  <2>3. o \in Op /\ Ends(o, boost)
    BY <2>2, OpForms DEF Ends
  <2> HIDE DEF o
  <2>4. <<o, Drain, Sync>> \in Seq(Op) /\ o \in OpsOf(<<o, Drain, Sync>>)
    <3>1. Drain \in Op /\ Sync \in Op /\ o \in Op
      BY <2>3, OpForms
    <3> QED BY <3>1, SMT DEF OpsOf
  <2>5. o \in OpsOf(agenda')
    BY <1>0, <2>1, <2>4, PushedIn
  <2> QED BY <1>2, <2>1, <2>3, <2>5
<1>6. ASSUME NEW t \in Tasks, GuardBoost(t)
      PROVE  boost' = boost /\ Ending(boost)'
  <2>1. /\ Head(agenda).op = "guardBoost" /\ Head(agenda).task = t
        /\ Continue(Opt(boost = t, ClearBoost)) /\ UNCHANGED boost
    BY <1>6 DEF GuardBoost, Running, actorVars
  <2>2. boost = t
    BY <2>1 DEF Ends
  <2>3. ClearBoost \in OpsOf(agenda')
    BY <1>0, <2>1, <2>2, OptIn, PushedIn
  <2> QED BY <1>1, <1>2, <2>1, <2>3
<1>7. ASSUME NEW t \in Tasks, BoostCheck(t)
      PROVE  boost' = boost /\ (IsActive(boost)' \/ Ending(boost)')
  <2>1. /\ Head(agenda).op = "boostCheck" /\ Head(agenda).task = t
        /\ Continue(Opt(~IsActive(t), ClearBoost)) /\ UNCHANGED <<boost, active>>
    BY <1>7 DEF BoostCheck, Running, actorVars
  <2>2. boost = t
    BY <2>1 DEF Ends
  <2>3. CASE IsActive(t)
    BY <2>1, <2>2, <2>3 DEF IsActive
  <2>4. CASE ~IsActive(t)
    <3>1. ClearBoost \in OpsOf(agenda')
      BY <1>0, <2>1, <2>4, OptIn, PushedIn
    <3> QED BY <1>1, <1>2, <2>1, <3>1
  <2> QED BY <2>3, <2>4
<1>8. ASSUME NEW t \in Tasks, ReapHandle(t)
      PROVE  boost' = boost /\ Ending(boost)'
  <2> DEFINE o == Do("erase", t)
  <2>1. /\ Head(agenda).op = "reap" /\ Head(agenda).task = t
        /\ Continue(<<o>>) /\ UNCHANGED boost
    BY <1>8 DEF ReapHandle, Running, actorVars
  <2>2. boost = t
    BY <2>1 DEF Ends
  <2>3. o \in Op /\ Ends(o, boost)
    BY <2>2, OpForms, OpenForms DEF Ends
  <2> HIDE DEF o
  <2>4. o \in OpsOf(agenda')
    BY <2>1, <2>3, ShortSeqs, PushedIn
  <2> QED BY <1>2, <2>1, <2>3, <2>4
<1>9. ASSUME NEW t \in Tasks, EraseTask(t)
      PROVE  boost' = boost /\ Ending(boost)'
  <2>1. /\ Head(agenda).op = "erase" /\ Head(agenda).task = t
        /\ Continue(Opt(boost = t, ClearBoost) \o <<Drain, Sync>>) /\ UNCHANGED boost
    BY <1>9 DEF EraseTask, Running
  <2>2. boost = t
    BY <2>1 DEF Ends
  <2>3. <<Drain, Sync>> \in Seq(Op)
    BY <1>0
  <2>4. ClearBoost \in OpsOf(agenda')
    BY <1>0, <2>1, <2>2, <2>3, OptIn, PushedIn
  <2> QED BY <1>1, <1>2, <2>1, <2>4
<1>10. ASSUME NEW t \in Tasks, ForgetDeleted(t)
       PROVE  boost' = boost /\ Ending(boost)'
  <2> DEFINE rest == [Head(agenda) EXCEPT !.set = @ \ {t}]
  <2>1. /\ Head(agenda).op = "forget"
        /\ Continue(Opt(boost = t, ClearBoost) \o <<rest>>) /\ UNCHANGED boost
    BY <1>10 DEF ForgetDeleted, Running
  <2>2. rest \in Op /\ rest.op = "forget" /\ rest.set = Head(agenda).set \ {t}
    BY <1>0, <2>1, OpEdits
  <2>3. boost \in Head(agenda).set
    BY <2>1 DEF Ends
  <2> HIDE DEF rest
  <2>4. <<rest>> \in Seq(Op) /\ OpsOf(<<rest>>) = {rest}
    BY <2>2, ShortSeqs
  <2>5. CASE boost = t
    <3>1. ClearBoost \in OpsOf(agenda')
      BY <1>0, <2>1, <2>4, <2>5, OptIn, PushedIn
    <3> QED BY <1>1, <1>2, <2>1, <3>1
  <2>6. CASE boost # t
    <3>1. Ends(rest, boost)
      BY <2>2, <2>3, <2>6 DEF Ends
    <3>2. Opt(boost = t, ClearBoost) \in Seq(Op)
      BY <1>0, ShortSeqs
    <3>3. /\ Opt(boost = t, ClearBoost) \o <<rest>> \in Seq(Op)
          /\ rest \in OpsOf(Opt(boost = t, ClearBoost) \o <<rest>>)
      BY <2>4, <3>2, CatFacts
    <3>4. rest \in OpsOf(agenda')
      BY <2>1, <3>3, PushedIn
    <3> QED BY <1>2, <2>1, <3>1, <3>4
  <2> QED BY <2>5, <2>6
<1> QED BY <1>3, <1>4, <1>5, <1>6, <1>7, <1>8, <1>9, <1>10, EndForms, Zenon

(* Who names a target, or drops it. *)
LEMMA BoostMoves ==
  ASSUME HandlerStep
  PROVE  boost' \in {boost, NoTask} \/ \E t \in Tasks : BoostStart(t)
<1>1. ClearPriority => boost' = NoTask
  BY DEF ClearPriority
<1>2. LoadBatch \/ BatchResumed \/ ReapBatch \/ EraseBatch \/ EndSet => UNCHANGED boost
  BY DEF LoadBatch, BatchResumed, ReapBatch, EraseBatch, EndSet, actorVars
<1>3. DrainQueue \/ DrainEnd \/ DrainItem \/ sync_queue_occupancy => UNCHANGED boost
  BY DEF DrainQueue, DrainEnd, DrainItem, sync_queue_occupancy
<1>4. ASSUME NEW t \in Tasks,
             \/ PauseTaskInner(t) \/ ResumeTaskInner(t) \/ FinishPendingPause(t) \/ AutoRetry(t)
             \/ AutoPause(t) \/ EraseTask(t) \/ ResetTask(t)
             \/ ResumeWithRow(t) \/ ForgetDeleted(t)
      PROVE  UNCHANGED boost
  BY <1>4, Zenon DEF PauseTaskInner, ResumeTaskInner, FinishPendingPause, AutoRetry, AutoPause,
              EraseTask, ResetTask, ResumeWithRow, ForgetDeleted
<1>5. ASSUME NEW t \in Tasks,
             \/ GuardBoost(t) \/ ResumeBoosted(t) \/ BoostCollect(t) \/ BoostCheck(t)
             \/ ReapHandle(t) \/ PauseBatchItem(t)
      PROVE  UNCHANGED boost
  BY <1>5 DEF GuardBoost, ResumeBoosted, BoostCollect, BoostCheck, ReapHandle, PauseBatchItem, actorVars
<1> QED BY <1>1, <1>2, <1>3, <1>4, <1>5, Zenon DEF HandlerStep

(* The target that runs beside no more than the limits allow finds room     *)
(* when its stale entry is dropped.                                         *)
LEMMA OneLess ==
  ASSUME IsFiniteSet(Tasks), NEW S \in SUBSET Tasks, NEW t \in S, NEW m \in Nat,
         Cardinality(S) <= m
  PROVE  Cardinality(S \ {t}) < m
<1>1. IsFiniteSet(S)
  BY FS_Subset
<1>2. Cardinality(S) \in Nat /\ Cardinality(S \ {t}) = Cardinality(S) - 1
  BY <1>1, FS_RemoveElement, FS_CardinalityType
<1> QED BY <1>2

LEMMA TargetRoom ==
  ASSUME IsFiniteSet(Tasks), TypeOK, BoostWithin, boost # NoTask, IsActive(boost)
  PROVE  /\ maxc = 0 \/ Cardinality(ActiveTasks \ {boost}) < maxc
         /\ \/ QueueMax[QueueOf[boost]] = 0
            \/ Cardinality({u \in ActiveTasks \ {boost} : QueueOf[u] = QueueOf[boost]})
                  < QueueMax[QueueOf[boost]]
<1>1. boost \in Tasks /\ maxc \in Nat /\ boost \in ActiveTasks /\ ActiveTasks \in SUBSET Tasks
  BY DEF TypeOK, ActiveTasks
<1>2. QueueOf[boost] \in Queues /\ QueueMax[QueueOf[boost]] \in Nat
  BY <1>1, QueueAssumption
<1> DEFINE S == {t \in ActiveTasks : QueueOf[t] = QueueOf[boost]}
<1>3. S \in SUBSET Tasks /\ boost \in S
      /\ {u \in ActiveTasks \ {boost} : QueueOf[u] = QueueOf[boost]} = S \ {boost}
  BY <1>1
<1>4. maxc = 0 \/ Cardinality(ActiveTasks \ {boost}) < maxc
  BY <1>1, OneLess DEF BoostWithin
<1>5. QueueMax[QueueOf[boost]] = 0 \/ Cardinality(S) <= QueueMax[QueueOf[boost]]
  BY <1>2 DEF BoostWithin
<1> HIDE DEF S
<1>6. QueueMax[QueueOf[boost]] = 0 \/ Cardinality(S \ {boost}) < QueueMax[QueueOf[boost]]
  BY <1>2, <1>3, <1>5, OneLess
<1> QED BY <1>3, <1>4, <1>6

LEMMA TargetResumed ==
  ASSUME IsFiniteSet(Tasks), TypeOK, AgendaInv(agenda), LineInv, BoostWithin, boost # NoTask,
         IsActive(boost), NEW t \in Tasks, ResumeTaskInner(t) \/ ResumeWithRow(t)
  PROVE  IsActive(boost)'
<1>0. boost \in Tasks /\ active \in [Tasks -> [gen : Nat, spawned : BOOLEAN]]
  BY DEF TypeOK
<1>1. PICK s, o1, o2, o3, row : TryResume(t, s, o1, o2, o3, row)
  BY Zenon DEF ResumeTaskInner, ResumeWithRow
<1>2. UNCHANGED boost
  BY Zenon DEF ResumeTaskInner, ResumeWithRow
<1>3. ASSUME do_resume_task(t) PROVE active'[boost].gen # 0
  <2>1. StartMove(t) /\ gen \in Nat
    BY <1>3, StartMoves DEF TypeOK
  <2> QED BY <1>0, <2>1 DEF StartMove, IsActive
<1>4. CASE boost # t
  <2>1. UNCHANGED active \/ active' = [active EXCEPT ![t] = NoEntry] \/ do_resume_task(t)
    BY <1>1, Zenon DEF TryResume
  <2> QED BY <1>0, <1>2, <1>3, <1>4, <2>1 DEF IsActive
<1>5. CASE boost = t
  <2>1. ~AlreadyQueued(t)
    <3>1. ~Running("drainLoop")
      BY DEF ResumeTaskInner, ResumeWithRow, Running
    <3> QED BY <1>5, <3>1 DEF LineInv, Line, AlreadyQueued
  <2>2. /\ maxc = 0 \/ Cardinality(ActiveTasks \ {t}) < maxc
        /\ \/ QueueMax[QueueOf[t]] = 0
           \/ Cardinality({u \in ActiveTasks \ {t} : QueueOf[u] = QueueOf[t]}) < QueueMax[QueueOf[t]]
    BY <1>5, TargetRoom
  <2>3. UNCHANGED active \/ do_resume_task(t)
    BY <1>1, <2>1, <2>2 DEF TryResume
  <2> QED BY <1>2, <1>3, <2>3 DEF IsActive
<1> QED BY <1>4, <1>5

LEMMA TargetKept ==
  ASSUME IsFiniteSet(Tasks), TypeOK, AgendaInv(agenda), LineInv, BoostWithin, HandlerStep,
         boost # NoTask, IsActive(boost), boost' = boost
  PROVE  IsActive(boost)' \/ Ending(boost)'
<1>0. boost \in Tasks /\ active \in [Tasks -> [gen : Nat, spawned : BOOLEAN]]
  BY DEF TypeOK
<1>1. ASSUME UNCHANGED active PROVE IsActive(boost)'
  BY <1>1 DEF IsActive
<1>2. CASE CalmStep
  BY <1>1, <1>2, CalmFacts DEF Calm
<1>3. CASE DrainQueue \/ DrainEnd
  BY <1>1, <1>3 DEF DrainQueue, DrainEnd
<1>4. CASE DrainItem
  <2>1. ASSUME NEW x \in Tasks, do_resume_task(x) PROVE IsActive(boost)'
    <3>1. StartMove(x) /\ gen \in Nat
      BY <2>1, StartMoves DEF TypeOK
    <3> QED BY <1>0, <3>1 DEF StartMove, IsActive
  <2>2. \/ UNCHANGED active
        \/ \E x \in Tasks : do_resume_task(x)
    BY <1>4, DrainMoves
  <2> QED BY <1>1, <2>1, <2>2
<1>5. ASSUME NEW t \in Tasks, ResumeTaskInner(t) \/ ResumeWithRow(t) PROVE IsActive(boost)'
  BY <1>5, TargetResumed
<1>6. ASSUME NEW t \in Tasks, FinishPendingPause(t) PROVE IsActive(boost)'
  BY <1>1, <1>6 DEF FinishPendingPause
<1>7. ASSUME NEW t \in Tasks, PauseTaskInner(t) PROVE IsActive(boost)' \/ Ending(boost)'
  <2> DEFINE g == Do("guardBoost", t)
  <2>1. \/ UNCHANGED active
        \/ active' = [active EXCEPT ![t] = NoEntry] /\ Continue(<<Drain, g, Sync>>)
    BY <1>7, Zenon DEF PauseTaskInner
  <2>2. CASE active' = [active EXCEPT ![t] = NoEntry] /\ boost # t
    BY <1>0, <2>2 DEF IsActive
  <2>3. CASE Continue(<<Drain, g, Sync>>) /\ boost = t
    <3>1. /\ Drain \in Op /\ Sync \in Op /\ g \in Op /\ g.op = "guardBoost" /\ g.task = t
          /\ agenda # <<>>
      BY <1>7, OpForms, OpenForms DEF PauseTaskInner, Running
    <3> HIDE DEF g
    <3>2. <<Drain, g, Sync>> \in Seq(Op) /\ OpsOf(<<Drain, g, Sync>>) = {Drain, g, Sync}
      <4>1. Drain \in Op /\ Sync \in Op /\ g \in Op
        BY <3>1
      <4> QED BY <4>1, SMT DEF OpsOf
    <3>3. g \in OpsOf(agenda')
      BY <2>3, <3>1, <3>2, PushedIn
    <3> QED BY <2>3, <3>1, <3>3 DEF Ending, Ends
  <2> QED BY <1>1, <2>1, <2>2, <2>3
<1>8. ASSUME NEW t \in Tasks, BoostStart(t) PROVE IsActive(boost)' \/ Ending(boost)'
  <2>1. Do("boostCheck", t) \in OpsOf(agenda') /\ boost' = t
    BY <1>8, StartLast DEF BoostStart
  <2> QED BY <2>1, OpenForms DEF Ending, Ends
<1> QED BY <1>2, <1>3, <1>4, <1>5, <1>6, <1>7, <1>8, Zenon DEF HandlerStep, CalmStep

LEMMA HeldHandler ==
  ASSUME IsFiniteSet(Tasks), TypeOK, AgendaInv(agenda), LineInv, BoostWithin, BoostHeld, HandlerStep
  PROVE  BoostHeld'
<1>1. ASSUME NEW t \in Tasks, BoostStart(t) PROVE BoostHeld'
  <2>1. Do("boostCheck", t) \in OpsOf(agenda') /\ boost' = t
    BY <1>1, StartLast DEF BoostStart
  <2> QED BY <2>1, OpenForms DEF BoostHeld, Ending, Ends
<1>2. CASE boost' = NoTask
  BY <1>2 DEF BoostHeld
<1>3. CASE boost' = boost /\ boost # NoTask
  <2>1. CASE IsActive(boost)
    BY <1>3, <2>1, TargetKept DEF BoostHeld
  <2>2. ASSUME NEW o \in OpsOf(agenda), Ends(o, boost) PROVE BoostHeld'
    <3>1. AgendaFlow
      BY HandlerAgenda
    <3>2. CASE o = Head(agenda)
      BY <1>3, <2>2, <3>1, <3>2, EndingHead DEF BoostHeld, AgendaFlow
    <3>3. CASE o \in OpsOf(agenda')
      BY <1>3, <2>2, <3>3 DEF BoostHeld, Ending
    <3> QED BY <3>1, <3>2, <3>3 DEF AgendaFlow
  <2> QED BY <1>3, <2>1, <2>2 DEF BoostHeld, Ending
<1> QED BY <1>1, <1>2, <1>3, BoostMoves

LEMMA HeldCommand ==
  ASSUME TypeOK, TypeOK', PauseInv, BoostHeld, UserCommand, "cancel" \notin Commands
  PROVE  BoostHeld'
<1>0. active \in [Tasks -> [gen : Nat, spawned : BOOLEAN]] /\ boost \in Tasks \cup {NoTask}
  BY DEF TypeOK
<1>1. Idle /\ ~\E t \in Tasks : CancelTask(t)
  <2>1. ~\E t \in Tasks : CancelTask(t)
    BY DEF CancelTask, Command
  <2>2. \/ \E S \in Batch : DeleteTasksBatch(S)
        \/ \E q \in Queues : StartQueue(q) \/ StopQueue(q)
        \/ \E t \in Tasks, later \in BOOLEAN : CreateTask(t, later)
        \/ \E t \in Tasks : PauseTask(t) \/ ResumeTask(t) \/ DeleteTask(t) \/ RestartTask(t)
                            \/ SetPriorityTask(t)
        \/ \E n \in Limits : SetMaxConcurrent(n)
    BY <2>1, Zenon DEF UserCommand
  <2>3. Idle
    BY <2>2, Zenon DEF DeleteTasksBatch, StartQueue, StopQueue, CreateTask, PauseTask, ResumeTask, DeleteTask,
              RestartTask, SetPriorityTask, SetMaxConcurrent, Command
  <2> QED BY <2>1, <2>3
<1>2. boost # NoTask => IsActive(boost)
  BY <1>1 DEF BoostHeld, Ending, Idle, OpsOf
<1>3. ASSUME UNCHANGED <<active, boost>> PROVE BoostHeld'
  BY <1>2, <1>3 DEF BoostHeld, IsActive
<1>4. ASSUME NEW S \in Batch, DeleteTasksBatch(S) PROVE BoostHeld'
  <2>1. PICK G : agenda' = <<[op |-> "reapBatch", set |-> S, gens |-> G]>>
    BY <1>4, Zenon DEF DeleteTasksBatch
  <2> DEFINE o == [op |-> "reapBatch", set |-> S, gens |-> G]
  <2>2. o \in OpsOf(agenda') /\ o.op = "reapBatch" /\ o.set = S
    BY <2>1 DEF OpsOf
  <2>3. /\ UNCHANGED boost
        /\ active' = [t \in Tasks |-> IF t \in S THEN NoEntry ELSE active[t]]
    BY <1>4 DEF DeleteTasksBatch
  <2> HIDE DEF o
  <2>4. CASE boost \in S
    BY <2>2, <2>3, <2>4 DEF BoostHeld, Ending, Ends
  <2>5. CASE boost \notin S
    BY <1>0, <1>2, <2>3, <2>5 DEF BoostHeld, IsActive
  <2> QED BY <2>4, <2>5
<1>5. ASSUME NEW q \in Queues, StartQueue(q) \/ StopQueue(q) PROVE BoostHeld'
  BY <1>3, <1>5 DEF StartQueue, StopQueue, batch_resume, batch_pause, actorVars
<1>6. ASSUME NEW t \in Tasks, NEW later \in BOOLEAN, CreateTask(t, later) PROVE BoostHeld'
  <2>1. UNCHANGED active \/ do_start_task(t)
    BY <1>6, Zenon DEF CreateTask
  <2>2. UNCHANGED boost
    BY <1>6 DEF CreateTask
  <2>3. CASE do_start_task(t)
    <3>1. StartMove(t) /\ gen \in Nat
      BY <2>3, StartMoves DEF TypeOK
    <3> QED BY <1>0, <1>2, <2>2, <3>1 DEF StartMove, IsActive, BoostHeld
  <2> QED BY <1>3, <2>1, <2>2, <2>3
<1>7. ASSUME NEW t \in Tasks, PauseTask(t) \/ ResumeTask(t) \/ RestartTask(t) PROVE BoostHeld'
  BY <1>3, <1>7 DEF PauseTask, ResumeTask, RestartTask, actorVars
<1>8. ASSUME NEW t \in Tasks, DeleteTask(t) PROVE BoostHeld'
  <2>1. UNCHANGED boost /\ active' = [active EXCEPT ![t] = NoEntry]
    BY <1>8 DEF DeleteTask
  <2>2. CASE boost # t
    BY <1>0, <1>2, <2>1, <2>2 DEF BoostHeld, IsActive
  <2>3. CASE boost = t
    <3>1. PICK o : agenda' = <<o>> /\ o.op \in {"reap", "erase"} /\ o.task = t
      <4>1. \/ agenda' = <<[op |-> "reap", task |-> t, gen |-> active[t].gen]>>
            \/ agenda' = <<Do("erase", t)>>
        BY <1>8, Zenon DEF DeleteTask
      <4> QED BY <4>1, OpenForms
    <3>2. o \in OpsOf(agenda')
      BY <3>1 DEF OpsOf
    <3> QED BY <2>1, <2>3, <3>1, <3>2 DEF BoostHeld, Ending, Ends
  <2> QED BY <2>2, <2>3
<1>9. ASSUME NEW t \in Tasks, SetPriorityTask(t) PROVE BoostHeld'
  <2>1. CASE boost = t
    <3>1. UNCHANGED <<active, boost>>
      BY <1>9, <2>1 DEF SetPriorityTask
    <3> QED BY <1>3, <3>1
  <2>2. CASE boost # t
    BY <1>9, <2>2 DEF SetPriorityTask, BoostHeld
  <2> QED BY <2>1, <2>2
<1>10. ASSUME NEW n \in Limits, SetMaxConcurrent(n) PROVE BoostHeld'
  BY <1>3, <1>10 DEF SetMaxConcurrent
<1> QED BY <1>1, <1>4, <1>5, <1>6, <1>7, <1>8, <1>9, <1>10, Zenon DEF UserCommand

LEMMA HeldMessage ==
  ASSUME TypeOK, TypeOK', outcomes = {}, BoostHeld, Message
  PROVE  BoostHeld'
<1>0. active \in [Tasks -> [gen : Nat, spawned : BOOLEAN]] /\ boost \in Tasks \cup {NoTask}
  BY DEF TypeOK
<1>1. Idle /\ UNCHANGED boost
  BY MessageAgenda DEF BeginStep
<1>2. boost # NoTask => IsActive(boost)
  BY <1>1 DEF BoostHeld, Ending, Idle, OpsOf
<1>3. ASSUME UNCHANGED active PROVE BoostHeld'
  BY <1>1, <1>2, <1>3 DEF BoostHeld, IsActive
<1>4. CASE OnTaskDone
  <2> DEFINE d == Head(doneCh)
             m == GenerationMatched(d.task, d.gen)
             f == [op |-> "finish", task |-> d.task, gen |-> d.gen]
  <2>1. /\ active' = IF m THEN [active EXCEPT ![d.task] = NoEntry] ELSE active
        /\ agenda' = Opt(m /\ boost = d.task, ClearBoost) \o <<f>>
                       \o Opt(m, Do("retry", d.task)) \o <<Sync>>
    BY <1>4 DEF OnTaskDone
  <2>2. d.task \in Tasks /\ d.gen \in Nat
    <3>1. doneCh \in Seq([task : Tasks, gen : Nat]) /\ doneCh # <<>>
      BY <1>4 DEF OnTaskDone, TypeOK
    <3>2. d \in [task : Tasks, gen : Nat]
      BY <3>1, SeqFacts
    <3> QED BY <3>2
  <2>3. /\ ClearBoost \in Op /\ ClearBoost.op = "clearBoost" /\ Sync \in Op /\ f \in Op
        /\ Do("retry", d.task) \in Op
    BY <2>2, OpForms, OpenForms
  <2> HIDE DEF f, m, d
  <2>4. CASE m /\ boost = d.task
    <3>1. Opt(m /\ boost = d.task, ClearBoost) = <<ClearBoost>>
      BY <2>4 DEF Opt
    <3>2. PICK r : r = Opt(m, Do("retry", d.task))
      OBVIOUS
    <3>3. r \in Seq(Op) /\ <<f>> \in Seq(Op) /\ <<Sync>> \in Seq(Op) /\ <<ClearBoost>> \in Seq(Op)
          /\ OpsOf(<<ClearBoost>>) = {ClearBoost}
      BY <2>3, <3>2, ShortSeqs
    <3>4. agenda' = ((<<ClearBoost>> \o <<f>>) \o r) \o <<Sync>>
      BY <2>1, <3>1, <3>2
    <3>5. ClearBoost \in OpsOf(<<ClearBoost>> \o <<f>>) /\ <<ClearBoost>> \o <<f>> \in Seq(Op)
      BY <3>3, CatFacts
    <3>6. /\ (<<ClearBoost>> \o <<f>>) \o r \in Seq(Op)
          /\ ClearBoost \in OpsOf((<<ClearBoost>> \o <<f>>) \o r)
      BY <3>3, <3>5, CatFacts, ZenonT(30)
    <3>7. ClearBoost \in OpsOf(agenda')
      <4> DEFINE x == (<<ClearBoost>> \o <<f>>) \o r
      <4>1. agenda' = x \o <<Sync>> /\ x \in Seq(Op) /\ <<Sync>> \in Seq(Op) /\ ClearBoost \in OpsOf(x)
        BY <3>3, <3>4, <3>6
      <4> HIDE DEF x
      <4>2. OpsOf(x \o <<Sync>>) = OpsOf(x) \cup OpsOf(<<Sync>>)
        BY <4>1, CatFacts
      <4> QED BY <4>1, <4>2
    <3> QED BY <2>3, <3>7 DEF BoostHeld, Ending, Ends
  <2>5. CASE m /\ boost # d.task
    BY <1>0, <1>1, <1>2, <2>1, <2>5 DEF BoostHeld, IsActive
  <2>6. CASE ~m
    BY <1>3, <2>1, <2>6
  <2> QED BY <2>4, <2>5, <2>6
<1>5. ASSUME NEW t \in Tasks, OnRetry(t) PROVE BoostHeld'
  BY <1>3, <1>5 DEF OnRetry, actorVars
<1> QED BY <1>4, <1>5 DEF Message

LEMMA HeldNext ==
  ASSUME IsFiniteSet(Tasks), "cancel" \notin Commands,
         IInv, outcomes = {}, LineInv, BoostWithin, BoostHeld, [Next]_vars
  PROVE  BoostHeld'
<1>0. TypeOK /\ TypeOK' /\ AgendaInv(agenda) /\ PauseInv
  BY TypeNext DEF IInv
<1>1. CASE HandlerStep
  BY <1>0, <1>1, HeldHandler
<1>2. CASE UserCommand
  BY <1>0, <1>2, HeldCommand
<1>3. CASE Message
  BY <1>0, <1>3, HeldMessage
<1>4. CASE (\E s \in spawns : Download(s)) \/ UNCHANGED vars
  <2>1. UNCHANGED <<agenda, boost, active>>
    BY <1>4 DEF Download, actorVars, vars
  <2> QED BY <2>1 DEF BoostHeld, IsActive, Ending
<1>5. CASE Reboot
  BY <1>5 DEF Reboot, BoostHeld
<1> QED BY <1>1, <1>2, <1>3, <1>4, <1>5 DEF Next

(* A Boost always has a target that runs: while what runs during a Boost    *)
(* stays within the limits, no pause, deletion, batch, failure, resume,     *)
(* retry or drain leaves priority_task_id set with nothing running for it.  *)
(* A target that could not start, ends or is paused or deleted ends it.     *)
THEOREM BoostAlwaysRuns ==
  ASSUME IsFiniteSet(Tasks), Resolvable = {}, "cancel" \notin Commands
  PROVE  Spec /\ []BoostWithin => []BoostTargetRuns
<1>1. Init => outcomes = {} /\ LineInv /\ Readying /\ BoostHeld
  <2>1. OpsOf(<<>>) = {}
    BY DEF OpsOf
  <2>2. ASSUME Init PROVE LineInv
    <3>1. Line = <<>> /\ ~Running("drainLoop")
      BY <2>2 DEF Init, Line, Running
    <3> QED BY <3>1 DEF LineInv, QueuedTasks, Distinct
  <2> QED BY <2>1, <2>2 DEF Init, Readying, BoostHeld
<1>2. /\ IInv /\ BoostWithin /\ outcomes = {} /\ LineInv /\ Readying /\ BoostHeld /\ [Next]_vars
      => (outcomes = {} /\ LineInv /\ Readying /\ BoostHeld)'
  BY NoOutcomes, ReadyNext, HeldNext DEF IInv
<1>3. BoostHeld => BoostTargetRuns
  BY DEF BoostHeld, BoostTargetRuns, Ending, Idle, OpsOf
<1> QED BY <1>1, <1>2, <1>3, Inductive, PTL DEF Spec
=============================================================================

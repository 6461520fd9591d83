-------------------------- MODULE DaemonLinkProofs --------------------------
(***************************************************************************)
(* DaemonLink for any number of tasks, publishers, calls and faults: there *)
(* is one daemon, what the callers see is a behaviour of RemoteCall, and   *)
(* the agent's copy of the tasks becomes the daemon's once nothing is on   *)
(* its way.                                                                *)
(***************************************************************************)
EXTENDS DaemonLink, FiniteSetTheorems, TLAPS

(* Process ids: the youngest process is the only one that may live. *)
Supervised ==
    /\ gen \in Nat
    /\ children \subseteq {gen}
    /\ children # {} => running
    /\ exited \cap children = {}
    /\ \A g \in exited : g \in Nat /\ g <= gen

(* No call is in the queue twice. *)
Once(q) == \A i, j \in DOMAIN q : q[i] \in Calls /\ q[i] = q[j] => i = j

Requests == Calls \cup {"hello", "snapshot"}

(* The queues hold what they should. *)
Typed ==
    /\ commands \in Seq(Calls)
    /\ toDaemon \in Seq(Requests)
    /\ pending \subseteq Calls /\ late \subseteq Calls
    /\ call \in [Calls -> CallState]
    /\ executed \in [Calls -> {0, 1}]
    /\ phase \in Phase

(* A call is queued, sent or abandoned, never two of these, and is not     *)
(* executed while it is on its way.                                        *)
Tracked ==
    /\ Once(commands) /\ Once(toDaemon)
    /\ phase # "up" => pending = {}
    /\ In(commands) \cap pending = {}
    /\ In(toDaemon) \cap Calls \subseteq pending
    /\ \A c \in Calls :
        /\ c \in In(commands) \cup pending => call[c] = "queued"
        /\ c \in late => call[c] = "unavailable"
        /\ c \in In(commands) \cup In(toDaemon) \cup late => executed[c] = 0
        /\ call[c] \in {"idle", "checked", "refused"} => executed[c] = 0

(* An answer on the wire is the answer to an execution. *)
Answered ==
    \E S : /\ toAgent \in Seq(S)
           /\ \A m \in S : m.kind = "answer" => m.call \in Calls /\ executed[m.call] = 1

Inv == Typed /\ Tracked /\ Answered

(* What the refinement of RemoteCall says without its fairness. *)
ContractSafety == RC!Init /\ [][RC!Next]_RC!vars

-----------------------------------------------------------------------------
(* Queues *)

(* Taking the first element. *)
LEMMA TakeFirst ==
    ASSUME NEW S, NEW q \in Seq(S), q # <<>>
    PROVE  /\ Head(q) \in S /\ Head(q) \in In(q)
           /\ Tail(q) \in Seq(S)
           /\ In(Tail(q)) \subseteq In(q)
           /\ Once(q) => Once(Tail(q)) /\ (Head(q) \in Calls => Head(q) \notin In(Tail(q)))
<1>1. /\ Len(q) \in Nat \ {0} /\ DOMAIN q = 1..Len(q)
      /\ Head(q) = q[1] /\ Tail(q) \in Seq(S)
      /\ DOMAIN Tail(q) = 1..Len(q) - 1 /\ \A i \in 1..Len(q) - 1 : Tail(q)[i] = q[i + 1]
  OBVIOUS
<1>2. \A i \in DOMAIN Tail(q) : i + 1 \in DOMAIN q /\ Tail(q)[i] = q[i + 1] /\ i + 1 # 1
  BY <1>1
<1>3. Head(q) \in S /\ Head(q) \in In(q)
  BY <1>1 DEF In
<1>4. In(Tail(q)) \subseteq In(q)
  BY <1>2 DEF In
<1>5. Once(q) => Once(Tail(q))
  BY <1>1, <1>2 DEF Once
<1>6. Once(q) /\ Head(q) \in Calls => Head(q) \notin In(Tail(q))
  BY <1>1, <1>2 DEF Once, In
<1> QED BY <1>1, <1>3, <1>4, <1>5, <1>6

(* Adding one at the end. *)
LEMMA AddLast ==
    ASSUME NEW S, NEW q \in Seq(S), NEW e \in S
    PROVE  /\ Append(q, e) \in Seq(S)
           /\ In(Append(q, e)) = In(q) \cup {e}
           /\ Once(q) /\ (e \notin Calls \/ e \notin In(q)) => Once(Append(q, e))
<1>1. /\ Len(q) \in Nat /\ DOMAIN q = 1..Len(q)
      /\ Append(q, e) \in Seq(S)
      /\ DOMAIN Append(q, e) = 1..Len(q) + 1
      /\ \A i \in 1..Len(q) : Append(q, e)[i] = q[i]
      /\ Append(q, e)[Len(q) + 1] = e
  OBVIOUS
<1>2. In(Append(q, e)) = In(q) \cup {e}
  BY <1>1 DEF In
<1>3. Once(q) /\ (e \notin Calls \/ e \notin In(q)) => Once(Append(q, e))
  BY <1>1 DEF Once, In
<1> QED BY <1>1, <1>2, <1>3

-----------------------------------------------------------------------------
(* The supervisor *)

(* Every step keeps the process ids in order. *)
LEMMA SupervisedStep ==
    ASSUME Supervised, [Next]_vars
    PROVE  Supervised'
<1> USE DEF Supervised
<1>1. CASE UNCHANGED processVars
  BY <1>1 DEF processVars
<1>2. CASE ensure_running
  BY <1>2 DEF ensure_running
<1>3. ASSUME NEW g \in Generations, Listen(g) PROVE Supervised'
  BY <1>3 DEF Listen
<1>4. ASSUME NEW g \in Generations, Die(g) PROVE Supervised'
  BY <1>4 DEF Die
<1>5. ASSUME NEW g \in Generations, Reap(g) PROVE Supervised'
  BY <1>5 DEF Reap
<1>6. ASSUME Next,
             ~ensure_running,
             \A g \in Generations : ~Listen(g) /\ ~Die(g) /\ ~Reap(g)
      PROVE  UNCHANGED processVars
  BY <1>6 DEF Next, Publish, Broadcast, Session, OnHello, OnSnapshot, OnCall, Forward, EventGap, LateCall,
              Call, Enqueue, Client, Connect, HelloReply, SnapshotReply, Transient, Fatal, TakeCommand,
              ReadEvent, ReadAnswer, Lost, Abandon, Break, Disconnect, Project
<1> QED BY <1>1, <1>2, <1>3, <1>4, <1>5, <1>6 DEF vars

(* The supervisor has at most one daemon, whatever it is asked and         *)
(* whenever the reapers run.                                               *)
THEOREM AtMostOneDaemon == Spec => []OneDaemon
<1>1. Init => Supervised
  BY DEF Init, Supervised
<1>2. Supervised /\ [Next]_vars => Supervised'
  BY SupervisedStep
<1>3. Supervised => OneDaemon
  <2> SUFFICES ASSUME Supervised PROVE Cardinality(children) <= 1
    BY DEF OneDaemon
  <2>1. CASE children = {}
    BY <2>1, FS_EmptySet
  <2>2. CASE children = {gen}
    <3>1. Cardinality({gen}) = 1
      BY FS_Singleton
    <3> QED BY <2>2, <3>1
  <2> QED BY <2>1, <2>2 DEF Supervised
<1> QED BY <1>1, <1>2, <1>3, PTL DEF Spec

-----------------------------------------------------------------------------
(* The contract *)

(* It starts as it should. *)
LEMMA InvInit == Init => Inv /\ RC!Init
<1> SUFFICES ASSUME Init PROVE Inv /\ RC!Init
  OBVIOUS
<1> USE DEF Init
<1>1. Typed
  BY DEF Typed, CallState, Phase
<1>2. Tracked
  BY DEF Tracked, Once, In
<1>3. Answered
  <2>1. toAgent \in Seq({})
    OBVIOUS
  <2> QED BY <2>1 DEF Answered
<1>4. RC!Init
  BY DEF RC!Init
<1> QED BY <1>1, <1>2, <1>3, <1>4 DEF Inv

(* A step that does not touch the calls. *)
LEMMA Elsewhere ==
    ASSUME Inv, UNCHANGED <<toDaemon, late, pending, commands, call, executed>>,
           phase' = phase \/ (phase' \in Phase /\ pending = {}) \/ phase' = "up"
    PROVE  Typed' /\ Tracked'
<1>1. Typed'
  BY DEF Inv, Typed, Phase
<1>2. Tracked'
  BY DEF Inv, Tracked, Once, In
<1> QED BY <1>1, <1>2

(* One more message of the session. *)
LEMMA SayMore ==
    ASSUME Inv, NEW m, Say(m), executed' = executed,
           m.kind = "answer" => m.call \in Calls /\ executed[m.call] = 1
    PROVE  Answered'
<1>1. PICK S : /\ toAgent \in Seq(S)
               /\ \A x \in S : x.kind = "answer" => x.call \in Calls /\ executed[x.call] = 1
  BY DEF Inv, Answered
<1>2. toAgent \in Seq(S \cup {m})
  BY <1>1
<1>3. toAgent' \in Seq(S \cup {m})
  BY <1>2 DEF Say
<1> QED BY <1>1, <1>3 DEF Answered

(* One message less. *)
LEMMA SayLess ==
    ASSUME Inv, toAgent # <<>>, toAgent' = Tail(toAgent), executed' = executed
    PROVE  Answered'
<1>1. PICK S : /\ toAgent \in Seq(S)
               /\ \A x \in S : x.kind = "answer" => x.call \in Calls /\ executed[x.call] = 1
  BY DEF Inv, Answered
<1>2. toAgent' \in Seq(S)
  BY <1>1
<1> QED BY <1>1, <1>2 DEF Answered

(* A fresh socket carries nothing. *)
LEMMA SayNothing ==
    ASSUME toAgent' = <<>>
    PROVE  Answered'
<1>1. toAgent' \in Seq({})
  OBVIOUS
<1> QED BY <1>1 DEF Answered

(* The agent's end of the wire is as it was. *)
LEMMA SaySame ==
    ASSUME Inv, UNCHANGED <<toAgent, executed>>
    PROVE  Answered'
BY DEF Inv, Answered

(* What the callers were told is as it was. *)
LEMMA Silent ==
    ASSUME UNCHANGED <<call, executed>>
    PROVE  [RC!Next]_RC!vars
BY DEF RC!vars

(* The connection goes, and the callers in C are told. *)
LEMMA Told ==
    ASSUME Inv, NEW C \in SUBSET Calls, Unavailable(C), UNCHANGED executed,
           \A c \in C : call[c] \in {"checked", "queued"}
    PROVE  /\ [RC!Next]_RC!vars
           /\ call' \in [Calls -> CallState]
           /\ \A c \in C : call'[c] = "unavailable"
           /\ \A c \in Calls \ C : call'[c] = call[c]
<1>1. /\ call' \in [Calls -> CallState]
      /\ \A c \in C : call'[c] = "unavailable"
      /\ \A c \in Calls \ C : call'[c] = call[c]
  BY DEF Inv, Typed, Unavailable, CallState
<1>2. RC!GiveUpAll(C)
  BY <1>1 DEF RC!GiveUpAll
<1>3. RC!Next
  BY <1>2 DEF RC!Next
<1> QED BY <1>1, <1>3

-----------------------------------------------------------------------------
(* The steps *)

Good == Inv' /\ [RC!Next]_RC!vars

(* Publishers, supervisor, processes that start, and the projector. *)
LEMMA BystanderStep ==
    ASSUME Inv, UNCHANGED <<wireVars, clientVars, callVars>>
    PROVE  Good
<1>1. Typed' /\ Tracked'
  BY Elsewhere DEF wireVars, clientVars, callVars
<1>2. Answered'
  BY SaySame DEF wireVars, callVars
<1>3. [RC!Next]_RC!vars
  BY Silent DEF callVars
<1> QED BY <1>1, <1>2, <1>3 DEF Good, Inv

(* The session reads a request that is no call. *)
LEMMA RequestRead ==
    ASSUME Inv, toDaemon # <<>>, toDaemon' = Tail(toDaemon),
           UNCHANGED <<late, clientVars, callVars>>
    PROVE  Typed' /\ Tracked'
<1>1. /\ Tail(toDaemon) \in Seq(Requests)
      /\ In(Tail(toDaemon)) \subseteq In(toDaemon)
      /\ Once(Tail(toDaemon))
  BY TakeFirst DEF Inv, Typed, Tracked
<1>2. Typed'
  BY <1>1 DEF Inv, Typed, clientVars, callVars
<1>3. In(toDaemon)' \subseteq In(toDaemon) /\ Once(toDaemon)' /\ In(commands)' = In(commands) /\ Once(commands)'
  BY <1>1 DEF In, Once, clientVars, Inv, Tracked
<1>4. Tracked'
  BY <1>3 DEF Inv, Tracked, clientVars, callVars
<1> QED BY <1>2, <1>4

(* The hello and the failure are no answers. *)
LEMMA OnHelloStep == Inv /\ OnHello => Good
<1> SUFFICES ASSUME Inv, OnHello PROVE Good
  OBVIOUS
<1>1. Typed' /\ Tracked'
  BY RequestRead DEF OnHello
<1>2. executed' = executed /\ (Say(Hello) \/ Say([kind |-> "failure"]))
  BY DEF OnHello, callVars
<1>3. Answered'
  BY <1>2, SayMore DEF Hello
<1>4. [RC!Next]_RC!vars
  BY Silent DEF OnHello, callVars
<1> QED BY <1>1, <1>3, <1>4 DEF Good, Inv

(* The snapshot is no answer. *)
LEMMA OnSnapshotStep == Inv /\ OnSnapshot => Good
<1> SUFFICES ASSUME Inv, OnSnapshot PROVE Good
  OBVIOUS
<1>1. Typed' /\ Tracked'
  BY RequestRead DEF OnSnapshot
<1>2. executed' = executed /\ Say([kind |-> "snapshot", body |-> proj])
  BY DEF OnSnapshot, callVars
<1>3. Answered'
  BY <1>2, SayMore
<1>4. [RC!Next]_RC!vars
  BY Silent DEF OnSnapshot, callVars
<1> QED BY <1>1, <1>3, <1>4 DEF Good, Inv

(* An execution: of a call the session reads, or an abandoned one. *)
LEMMA Executes ==
    ASSUME Inv, NEW c \in Calls, executed[c] = 0, call[c] \in {"queued", "unavailable"},
           executed' = [executed EXCEPT ![c] = @ + 1], UNCHANGED call
    PROVE  /\ [RC!Next]_RC!vars
           /\ executed' \in [Calls -> {0, 1}]
           /\ executed'[c] = 1
           /\ \A d \in Calls \ {c} : executed'[d] = executed[d]
<1>1. /\ executed' \in [Calls -> {0, 1}]
      /\ executed'[c] = 1
      /\ \A d \in Calls \ {c} : executed'[d] = executed[d]
      /\ executed' = [executed EXCEPT ![c] = 1]
  BY DEF Inv, Typed
<1>2. RC!Execute(c)
  BY <1>1 DEF RC!Execute
<1>3. RC!Next
  BY <1>2 DEF RC!Next
<1> QED BY <1>1, <1>3

(* The session executes a call that waits, for the first time, and answers it. *)
LEMMA OnCallStep == Inv /\ OnCall => Good
<1> SUFFICES ASSUME Inv, OnCall PROVE Good
  OBVIOUS
<1> DEFINE c == Head(toDaemon)
<1>0. /\ c \in Calls /\ toDaemon # <<>> /\ toDaemon' = Tail(toDaemon)
      /\ executed' = [executed EXCEPT ![c] = @ + 1]
      /\ Say([kind |-> "answer", call |-> c])
      /\ UNCHANGED <<late, phase, connected, commands, pending, call>>
  BY DEF OnCall, clientVars
<1> HIDE DEF c
<1>1. /\ Tail(toDaemon) \in Seq(Requests)
      /\ In(Tail(toDaemon)) \subseteq In(toDaemon)
      /\ Once(Tail(toDaemon)) /\ c \notin In(Tail(toDaemon)) /\ c \in In(toDaemon)
  BY <1>0, TakeFirst DEF Inv, Typed, Tracked, c
<1>2. c \in pending /\ executed[c] = 0 /\ call[c] = "queued" /\ c \notin late /\ c \notin In(commands)
  BY <1>0, <1>1 DEF Inv, Tracked
<1>3. /\ [RC!Next]_RC!vars
      /\ executed' \in [Calls -> {0, 1}]
      /\ executed'[c] = 1
      /\ \A d \in Calls \ {c} : executed'[d] = executed[d]
  BY <1>0, <1>2, Executes
<1>4. Typed'
  BY <1>0, <1>1, <1>3 DEF Inv, Typed
<1>5. /\ In(toDaemon)' \subseteq In(toDaemon) /\ c \notin In(toDaemon)' /\ Once(toDaemon)'
      /\ In(commands)' = In(commands) /\ Once(commands)'
  BY <1>0, <1>1 DEF In, Once, Inv, Tracked
<1>6. Tracked'
  BY <1>0, <1>2, <1>3, <1>5 DEF Inv, Tracked
<1>7. Answered'
  <2>1. PICK S : /\ toAgent \in Seq(S)
                 /\ \A x \in S : x.kind = "answer" => x.call \in Calls /\ executed[x.call] = 1
    BY DEF Inv, Answered
  <2> DEFINE m == [kind |-> "answer", call |-> c]
  <2>2. toAgent' \in Seq(S \cup {m})
    <3>1. toAgent \in Seq(S \cup {m})
      BY <2>1
    <3> QED BY <3>1, <1>0 DEF Say
  <2>3. \A x \in S : x.kind = "answer" => x.call \in Calls /\ executed'[x.call] = 1
    BY <2>1, <1>3
  <2>4. m.call = c
    OBVIOUS
  <2> HIDE DEF m
  <2>5. \A x \in S \cup {m} : x.kind = "answer" => x.call \in Calls /\ executed'[x.call] = 1
    BY <2>3, <2>4, <1>0, <1>3
  <2> QED BY <2>2, <2>5 DEF Answered
<1> QED BY <1>3, <1>4, <1>6, <1>7 DEF Good, Inv

(* A notification is no answer. *)
LEMMA ForwardStep == Inv /\ Forward => Good
<1> SUFFICES ASSUME Inv, Forward PROVE Good
  OBVIOUS
<1>1. Typed' /\ Tracked'
  BY Elsewhere DEF Forward, clientVars, callVars
<1>2. executed' = executed /\ Say([kind |-> "event", event |-> Head(rx)])
  BY DEF Forward, callVars
<1>3. Answered'
  BY <1>2, SayMore
<1>4. [RC!Next]_RC!vars
  BY Silent DEF Forward, callVars
<1> QED BY <1>1, <1>3, <1>4 DEF Good, Inv

(* The daemon's end forgets the requests it has not read. *)
LEMMA Unread ==
    ASSUME Inv, toDaemon' = <<>> \/ toDaemon' = <<"hello">>, late' \subseteq late,
           UNCHANGED <<phase, commands, pending, call, executed>>
    PROVE  Typed' /\ Tracked'
<1>1. "hello" \notin Calls
  BY LinkAssumption
<1>2. toDaemon' \in Seq(Requests)
  <2>1. <<>> \in Seq(Requests) /\ <<"hello">> \in Seq(Requests)
    BY DEF Requests
  <2> QED BY <2>1
<1>3. Typed'
  BY <1>2 DEF Inv, Typed
<1>4. /\ In(toDaemon)' \subseteq {"hello"} /\ Once(toDaemon)'
      /\ In(commands)' = In(commands) /\ Once(commands)'
  BY DEF In, Once, Inv, Tracked
<1>5. In(toDaemon)' \cap Calls = {}
  BY <1>1, <1>4
<1>6. Tracked'
  BY <1>4, <1>5 DEF Inv, Tracked
<1> QED BY <1>3, <1>6

(* The receiver fell behind: the session ends. *)
LEMMA EventGapStep == Inv /\ EventGap => Good
<1> SUFFICES ASSUME Inv, EventGap PROVE Good
  OBVIOUS
<1>1. Typed' /\ Tracked'
  BY Unread DEF EventGap, clientVars, callVars
<1>2. executed' = executed /\ Say(Close)
  BY DEF EventGap, callVars
<1>3. Answered'
  BY <1>2, SayMore DEF Close
<1>4. [RC!Next]_RC!vars
  BY Silent DEF EventGap, callVars
<1> QED BY <1>1, <1>3, <1>4 DEF Good, Inv

(* An abandoned call may still be executed, for the first time. *)
LEMMA LateCallStep == \A c \in Calls : Inv /\ LateCall(c) => Good
<1> SUFFICES ASSUME NEW c \in Calls, Inv, LateCall(c) PROVE Good
  OBVIOUS
<1>0. /\ c \in late /\ late' = late \ {c}
      /\ executed' = [executed EXCEPT ![c] = @ + 1]
      /\ UNCHANGED <<toDaemon, toAgent, phase, connected, commands, pending, call>>
  BY DEF LateCall, clientVars
<1>1. executed[c] = 0 /\ call[c] = "unavailable" /\ c \notin In(commands) \cup pending \cup In(toDaemon)
  BY <1>0 DEF Inv, Tracked
<1>2. /\ [RC!Next]_RC!vars
      /\ executed' \in [Calls -> {0, 1}]
      /\ executed'[c] = 1
      /\ \A d \in Calls \ {c} : executed'[d] = executed[d]
  BY <1>0, <1>1, Executes
<1>3. Typed'
  BY <1>0, <1>2 DEF Inv, Typed
<1>4. /\ In(toDaemon)' = In(toDaemon) /\ Once(toDaemon)'
      /\ In(commands)' = In(commands) /\ Once(commands)'
  BY <1>0 DEF In, Once, Inv, Tracked
<1>5. Tracked'
  BY <1>0, <1>1, <1>2, <1>4 DEF Inv, Tracked
<1>6. Answered'
  BY <1>0, <1>2 DEF Inv, Answered
<1> QED BY <1>2, <1>3, <1>5, <1>6 DEF Good, Inv

(* A new connection begins with nothing but the hello. *)
LEMMA ConnectStep == Inv /\ Connect => Good
<1> SUFFICES ASSUME Inv, Connect PROVE Good
  OBVIOUS
<1> USE DEF Connect, callVars
<1>1. "hello" \notin Calls
  BY LinkAssumption
<1>2. toDaemon' \in Seq(Requests)
  BY DEF Requests
<1>3. Typed'
  BY <1>2 DEF Inv, Typed, Phase
<1>4. /\ In(toDaemon)' \subseteq {"hello"} /\ Once(toDaemon)'
      /\ In(commands)' = In(commands) /\ Once(commands)'
  BY DEF In, Once, Inv, Tracked
<1>5. In(toDaemon)' \cap Calls = {}
  BY <1>1, <1>4
<1>6. Tracked'
  BY <1>4, <1>5 DEF Inv, Tracked
<1>7. Answered'
  BY SayNothing
<1>8. [RC!Next]_RC!vars
  BY Silent
<1> QED BY <1>3, <1>6, <1>7, <1>8 DEF Good, Inv

(* The client asks for the snapshot: no call yet. *)
LEMMA HelloReplyStep == Inv /\ HelloReply => Good
<1> SUFFICES ASSUME Inv, HelloReply PROVE Good
  OBVIOUS
<1> USE DEF HelloReply, callVars
<1>1. "snapshot" \notin Calls
  BY LinkAssumption
<1>2. /\ Append(toDaemon, "snapshot") \in Seq(Requests)
      /\ In(Append(toDaemon, "snapshot")) = In(toDaemon) \cup {"snapshot"}
      /\ Once(Append(toDaemon, "snapshot"))
  <2>1. toDaemon \in Seq(Requests) /\ "snapshot" \in Requests /\ Once(toDaemon)
    BY DEF Requests, Inv, Typed, Tracked
  <2> QED BY <1>1, <2>1, AddLast
<1>3. /\ toDaemon' \in Seq(Requests)
      /\ In(toDaemon)' \cap Calls = In(toDaemon) \cap Calls /\ Once(toDaemon)'
      /\ In(commands)' = In(commands) /\ Once(commands)'
  <2>1. CASE toDaemon' = toDaemon
    BY <2>1 DEF Inv, Typed, Tracked, In, Once
  <2>2. CASE toDaemon' = Append(toDaemon, "snapshot")
    BY <1>1, <1>2, <2>2 DEF Inv, Typed, Tracked, In, Once
  <2> QED BY <2>1, <2>2 DEF Ask
<1>4. Typed'
  BY <1>3 DEF Inv, Typed, Phase
<1>5. Tracked'
  BY <1>3 DEF Inv, Tracked
<1>6. Answered'
  BY SayLess
<1>7. [RC!Next]_RC!vars
  BY Silent
<1> QED BY <1>4, <1>5, <1>6, <1>7 DEF Good, Inv

(* The client is up. *)
LEMMA SnapshotReplyStep == Inv /\ SnapshotReply => Good
<1> SUFFICES ASSUME Inv, SnapshotReply PROVE Good
  OBVIOUS
<1>1. Typed' /\ Tracked'
  BY Elsewhere DEF SnapshotReply, callVars
<1>2. Answered'
  BY SayLess DEF SnapshotReply, callVars
<1>3. [RC!Next]_RC!vars
  BY Silent DEF SnapshotReply, callVars
<1> QED BY <1>1, <1>2, <1>3 DEF Good, Inv

(* An event goes to the projector. *)
LEMMA ReadEventStep == Inv /\ ReadEvent => Good
<1> SUFFICES ASSUME Inv, ReadEvent PROVE Good
  OBVIOUS
<1>1. Typed' /\ Tracked'
  BY Elsewhere DEF ReadEvent, clientVars, callVars
<1>2. Answered'
  BY SayLess DEF ReadEvent, callVars
<1>3. [RC!Next]_RC!vars
  BY Silent DEF ReadEvent, callVars
<1> QED BY <1>1, <1>2, <1>3 DEF Good, Inv

(* The client drops its socket while the callers in C wait for it, and     *)
(* tells them and nobody else: what it had sent is theirs.                 *)
LEMMA HungUp ==
    ASSUME Inv, Hangup, UNCHANGED executed, NEW C \in SUBSET Calls,
           pending' = {}, phase' \in Phase,
           In(toDaemon) \cap Calls \subseteq C,
           call' \in [Calls -> CallState],
           \A c \in C : call'[c] = "unavailable" /\ call[c] = "queued",
           \A c \in Calls \ C : call'[c] = call[c],
           \/ UNCHANGED commands /\ In(commands) \cap C = {}
           \/ commands' = <<>>
    PROVE  Inv'
<1>1. commands' \in Seq(Calls) /\ In(commands)' \subseteq In(commands) \ C /\ Once(commands)'
  <2>1. CASE UNCHANGED commands /\ In(commands) \cap C = {}
    BY <2>1 DEF Inv, Typed, Tracked, In, Once
  <2>2. CASE commands' = <<>>
    BY <2>2 DEF In, Once
  <2> QED BY <2>1, <2>2
<1>2. toDaemon' \in Seq(Requests) /\ In(toDaemon)' = {} /\ Once(toDaemon)'
  BY DEF Hangup, In, Once
<1>3. late' = late \cup (In(toDaemon) \cap Calls)
  BY DEF Hangup, In
<1>4. Typed'
  BY <1>1, <1>2, <1>3 DEF Inv, Typed
<1>5. \A c \in Calls :
        /\ c \in In(commands)' => call'[c] = "queued"
        /\ c \in late' => call'[c] = "unavailable"
        /\ c \in In(commands)' \cup late' => executed'[c] = 0
        /\ call'[c] \in {"idle", "checked", "refused"} => executed'[c] = 0
  BY <1>1, <1>3 DEF Inv, Tracked
<1>6. Tracked'
  BY <1>1, <1>2, <1>5 DEF Tracked
<1>7. Answered'
  BY SayNothing DEF Hangup
<1> QED BY <1>4, <1>6, <1>7 DEF Inv

(* An attempt that fails has sent no call. *)
LEMMA TransientStep == Inv /\ Transient => Good
<1> SUFFICES ASSUME Inv, Transient PROVE Good
  OBVIOUS
<1>1. /\ Hangup /\ phase' \in Phase /\ pending = {}
      /\ UNCHANGED <<commands, pending, call, executed>>
  BY DEF Transient, callVars, Phase, Inv, Tracked
<1>2. In(toDaemon) \cap Calls \subseteq {} /\ call \in [Calls -> CallState]
  BY <1>1 DEF Inv, Tracked, Typed
<1>3. Inv'
  BY <1>1, <1>2, HungUp
<1>4. [RC!Next]_RC!vars
  BY <1>1, Silent
<1> QED BY <1>3, <1>4 DEF Good

(* The client gives up for good, and whoever is queued is told. *)
LEMMA FatalStep == Inv /\ Fatal => Good
<1> SUFFICES ASSUME Inv, Fatal PROVE Good
  OBVIOUS
<1>1. /\ Hangup /\ phase' \in Phase /\ pending = {} /\ commands' = <<>>
      /\ Unavailable(In(commands)) /\ UNCHANGED <<pending, executed>>
  BY DEF Fatal, Phase, Inv, Tracked
<1>2. In(toDaemon) \cap Calls \subseteq {}
  BY <1>1 DEF Inv, Tracked
<1>3. In(commands) \in SUBSET Calls /\ \A c \in In(commands) : call[c] = "queued"
  <2>1. In(commands) \subseteq Calls
    BY DEF Inv, Typed, In
  <2> QED BY <2>1 DEF Inv, Tracked
<1>4. /\ [RC!Next]_RC!vars
      /\ call' \in [Calls -> CallState]
      /\ \A c \in In(commands) : call'[c] = "unavailable"
      /\ \A c \in Calls \ In(commands) : call'[c] = call[c]
  BY <1>1, <1>3, Told
<1>5. Inv'
  BY <1>1, <1>2, <1>3, <1>4, HungUp
<1> QED BY <1>4, <1>5 DEF Good

(* The connection is lost, and whoever waits for an answer is told. *)
LEMMA AbandonStep == Inv /\ Abandon => Good
<1> SUFFICES ASSUME Inv, Abandon PROVE Good
  OBVIOUS
<1>1. /\ Hangup /\ phase' \in Phase /\ pending' = {}
      /\ Unavailable(pending) /\ UNCHANGED <<commands, executed>>
  BY DEF Abandon, Phase
<1>2. /\ pending \in SUBSET Calls /\ \A c \in pending : call[c] = "queued"
      /\ In(toDaemon) \cap Calls \subseteq pending /\ In(commands) \cap pending = {}
  BY DEF Inv, Typed, Tracked
<1>3. /\ [RC!Next]_RC!vars
      /\ call' \in [Calls -> CallState]
      /\ \A c \in pending : call'[c] = "unavailable"
      /\ \A c \in Calls \ pending : call'[c] = call[c]
  BY <1>1, <1>2, Told
<1>4. Inv'
  BY <1>1, <1>2, <1>3, HungUp
<1> QED BY <1>3, <1>4 DEF Good

(* Whoever was queued behind a lost connection is told. *)
LEMMA DisconnectStep == Inv /\ Disconnect => Good
<1> SUFFICES ASSUME Inv, Disconnect PROVE Good
  OBVIOUS
<1>1. /\ phase = "failing" /\ phase' = "down" /\ commands' = <<>>
      /\ Unavailable(In(commands)) /\ UNCHANGED <<toDaemon, toAgent, late, pending, executed>>
  BY DEF Disconnect, wireVars
<1>2. In(commands) \in SUBSET Calls
  BY DEF Inv, Typed, In
<1>3. \A c \in In(commands) : call[c] = "queued"
  BY <1>2 DEF Inv, Tracked
<1>4. /\ [RC!Next]_RC!vars
      /\ call' \in [Calls -> CallState]
      /\ \A c \in In(commands) : call'[c] = "unavailable"
      /\ \A c \in Calls \ In(commands) : call'[c] = call[c]
  BY <1>1, <1>2, <1>3, Told
<1>5. Typed'
  BY <1>1, <1>4 DEF Inv, Typed, Phase
<1>6. /\ In(commands)' = {} /\ Once(commands)'
      /\ In(toDaemon)' = In(toDaemon) /\ Once(toDaemon)'
  BY <1>1 DEF In, Once, Inv, Tracked
<1>7. pending = {} /\ pending' = {}
  BY <1>1 DEF Inv, Tracked
<1>8. Tracked'
  BY <1>1, <1>4, <1>6, <1>7 DEF Inv, Tracked
<1>9. Answered'
  BY <1>1, SaySame
<1> QED BY <1>4, <1>5, <1>8, <1>9 DEF Good, Inv

(* A queued call is sent: it waits for its answer, and its caller does     *)
(* not see the difference.                                                 *)
LEMMA TakeCommandStep == Inv /\ TakeCommand => Good
<1> SUFFICES ASSUME Inv, TakeCommand PROVE Good
  OBVIOUS
<1> DEFINE c == Head(commands)
<1>0. /\ phase = "up" /\ commands # <<>> /\ commands' = Tail(commands)
      /\ pending' = pending \cup {c} /\ Ask(c)
      /\ UNCHANGED <<toAgent, late, phase, call, executed>>
  BY DEF TakeCommand, callVars
<1> HIDE DEF c
<1>1. /\ c \in Calls /\ c \in In(commands)
      /\ Tail(commands) \in Seq(Calls) /\ Once(Tail(commands))
      /\ In(Tail(commands)) \subseteq In(commands) /\ c \notin In(Tail(commands))
  BY <1>0, TakeFirst DEF Inv, Typed, Tracked, c
<1>2. c \notin pending /\ c \notin In(toDaemon) /\ call[c] = "queued" /\ executed[c] = 0
  BY <1>1 DEF Inv, Tracked
<1>3. /\ Append(toDaemon, c) \in Seq(Requests)
      /\ In(Append(toDaemon, c)) = In(toDaemon) \cup {c}
      /\ Once(Append(toDaemon, c))
  <2>1. toDaemon \in Seq(Requests) /\ c \in Requests /\ Once(toDaemon)
    BY <1>1 DEF Requests, Inv, Typed, Tracked
  <2> QED BY <1>2, <2>1, AddLast
<1>4. toDaemon' \in Seq(Requests) /\ In(toDaemon)' \subseteq In(toDaemon) \cup {c} /\ Once(toDaemon)'
  <2>1. CASE toDaemon' = toDaemon
    BY <2>1 DEF Inv, Typed, Tracked, In, Once
  <2>2. CASE toDaemon' = Append(toDaemon, c)
    BY <1>3, <2>2 DEF In, Once
  <2> QED BY <1>0, <2>1, <2>2 DEF Ask
<1>5. In(commands)' \subseteq In(commands) \ {c} /\ Once(commands)'
  BY <1>0, <1>1 DEF In, Once
<1>6. Typed'
  BY <1>0, <1>1, <1>4 DEF Inv, Typed
<1>7. Tracked'
  BY <1>0, <1>1, <1>2, <1>4, <1>5 DEF Inv, Tracked
<1>8. Answered'
  BY <1>0, SaySame
<1>9. [RC!Next]_RC!vars
  BY <1>0, Silent
<1> QED BY <1>6, <1>7, <1>8, <1>9 DEF Good, Inv

(* An answer reaches the caller who waits for it, if there still is one. *)
LEMMA ReadAnswerStep == Inv /\ ReadAnswer => Good
<1> SUFFICES ASSUME Inv, ReadAnswer PROVE Good
  OBVIOUS
<1> DEFINE c == Head(toAgent).call
<1>0. /\ phase = "up" /\ toAgent # <<>> /\ Head(toAgent).kind = "answer"
      /\ pending' = pending \ {c}
      /\ call' = IF c \in pending THEN [call EXCEPT ![c] = "ok"] ELSE call
      /\ toAgent' = Tail(toAgent)
      /\ UNCHANGED <<toDaemon, late, phase, commands, executed>>
  BY DEF ReadAnswer
<1>1. c \in Calls /\ executed[c] = 1
  <2>1. PICK S : /\ toAgent \in Seq(S)
                 /\ \A x \in S : x.kind = "answer" => x.call \in Calls /\ executed[x.call] = 1
    BY DEF Inv, Answered
  <2>2. Head(toAgent) \in S
    BY <1>0, <2>1
  <2> QED BY <1>0, <2>1, <2>2
<1> HIDE DEF c
<1>2. c \notin In(commands) \cup In(toDaemon) \cup late
  BY <1>1 DEF Inv, Tracked
<1>3. /\ call' \in [Calls -> CallState]
      /\ \A d \in Calls \ {c} : call'[d] = call[d]
      /\ call'[c] \in {call[c], "ok"}
  BY <1>0, <1>1 DEF Inv, Typed, CallState
<1>4. /\ In(commands)' = In(commands) /\ Once(commands)'
      /\ In(toDaemon)' = In(toDaemon) /\ Once(toDaemon)'
  BY <1>0 DEF In, Once, Inv, Tracked
<1>5. Typed'
  BY <1>0, <1>3 DEF Inv, Typed
<1>6. Tracked'
  BY <1>0, <1>1, <1>2, <1>3, <1>4 DEF Inv, Tracked
<1>7. Answered'
  BY <1>0, SayLess
<1>8. [RC!Next]_RC!vars
  <2>1. CASE c \notin pending
    BY <1>0, <2>1, Silent
  <2>2. CASE c \in pending
    <3>1. PICK d \in Calls : d = c
      BY <1>1
    <3>2. call[d] = "queued" /\ executed[d] = 1 /\ call' = [call EXCEPT ![d] = "ok"]
      BY <1>0, <1>1, <2>2, <3>1 DEF Inv, Tracked
    <3>3. RC!Answer(d)
      BY <1>0, <3>2 DEF RC!Answer, RC!Tell, Inv, Typed
    <3>4. RC!Next
      BY <3>3 DEF RC!Next
    <3> QED BY <3>4
  <2> QED BY <2>1, <2>2
<1> QED BY <1>5, <1>6, <1>7, <1>8 DEF Good, Inv

(* The caller is refused at once, or goes on and waits. *)
LEMMA CallStep == \A c \in Calls : Inv /\ Call(c) => Good
<1> SUFFICES ASSUME NEW c \in Calls, Inv, Call(c) PROVE Good
  OBVIOUS
<1>0. /\ call[c] = "idle"
      /\ call' = [call EXCEPT ![c] = IF connected THEN "checked" ELSE "refused"]
      /\ UNCHANGED <<toDaemon, toAgent, late, phase, commands, pending, executed>>
  BY DEF Call, wireVars, clientVars
<1>1. c \notin In(commands) \cup pending \cup late /\ executed[c] = 0
  BY <1>0 DEF Inv, Tracked
<1>2. /\ call' \in [Calls -> CallState]
      /\ \A d \in Calls \ {c} : call'[d] = call[d]
      /\ call'[c] \in {"checked", "refused"}
  BY <1>0 DEF Inv, Typed, CallState
<1>3. /\ In(commands)' = In(commands) /\ Once(commands)'
      /\ In(toDaemon)' = In(toDaemon) /\ Once(toDaemon)'
  BY <1>0 DEF In, Once, Inv, Tracked
<1>4. Typed'
  BY <1>0, <1>2 DEF Inv, Typed
<1>5. Tracked'
  BY <1>0, <1>1, <1>2, <1>3 DEF Inv, Tracked
<1>6. Answered'
  BY <1>0, SaySame
<1>7. RC!Next
  <2>1. RC!Refuse(c) \/ RC!Ask(c)
    BY <1>0 DEF RC!Refuse, RC!Ask, RC!Tell, Inv, Typed
  <2> QED BY <2>1 DEF RC!Next
<1> QED BY <1>4, <1>5, <1>6, <1>7 DEF Good, Inv

(* The command is queued once; without a client the caller is told.        *)
LEMMA EnqueueStep == \A c \in Calls : Inv /\ Enqueue(c) => Good
<1> SUFFICES ASSUME NEW c \in Calls, Inv, Enqueue(c) PROVE Good
  OBVIOUS
<1>0. /\ call[c] = "checked"
      /\ UNCHANGED <<toDaemon, toAgent, late, phase, pending, executed>>
  BY DEF Enqueue, wireVars
<1>1. c \notin In(commands) \cup pending \cup late /\ executed[c] = 0
  BY <1>0 DEF Inv, Tracked
<1>2. In(toDaemon)' = In(toDaemon) /\ Once(toDaemon)'
  BY <1>0 DEF In, Once, Inv, Tracked
<1>3. Answered'
  BY <1>0, SaySame
<1>4. CASE phase = "fatal"
  <2>1. call' = [call EXCEPT ![c] = "unavailable"] /\ UNCHANGED commands
    BY <1>4 DEF Enqueue
  <2>2. Unavailable({c})
    BY <2>1 DEF Unavailable, Inv, Typed
  <2>3. /\ [RC!Next]_RC!vars
        /\ call' \in [Calls -> CallState]
        /\ call'[c] = "unavailable"
        /\ \A d \in Calls \ {c} : call'[d] = call[d]
    BY <1>0, <2>2, Told
  <2>4. In(commands)' = In(commands) /\ Once(commands)'
    BY <2>1 DEF In, Once, Inv, Tracked
  <2>5. Typed'
    BY <1>0, <2>1, <2>3 DEF Inv, Typed
  <2>6. Tracked'
    BY <1>0, <1>1, <1>2, <2>3, <2>4 DEF Inv, Tracked
  <2> QED BY <1>3, <2>3, <2>5, <2>6 DEF Good, Inv
<1>5. CASE phase # "fatal"
  <2>1. call' = [call EXCEPT ![c] = "queued"] /\ commands' = Append(commands, c)
    BY <1>5 DEF Enqueue
  <2>2. /\ Append(commands, c) \in Seq(Calls)
        /\ In(Append(commands, c)) = In(commands) \cup {c}
        /\ Once(Append(commands, c))
    BY <1>1, AddLast DEF Inv, Typed, Tracked
  <2>3. /\ call' \in [Calls -> CallState]
        /\ call'[c] = "queued"
        /\ \A d \in Calls \ {c} : call'[d] = call[d]
    BY <2>1 DEF Inv, Typed, CallState
  <2>4. In(commands)' = In(commands) \cup {c} /\ Once(commands)'
    BY <2>1, <2>2 DEF In, Once
  <2>5. Typed'
    BY <1>0, <2>1, <2>2, <2>3 DEF Inv, Typed
  <2>6. Tracked'
    BY <1>0, <1>1, <1>2, <2>3, <2>4 DEF Inv, Tracked
  <2>7. [RC!Next]_RC!vars
    BY <1>0, <2>3 DEF RC!vars
  <2> QED BY <1>3, <2>5, <2>6, <2>7 DEF Good, Inv
<1> QED BY <1>4, <1>5

(* The daemon dies: the client may still read some of what was sent. *)
LEMMA DieStep == \A g : Inv /\ Die(g) => Good
<1> SUFFICES ASSUME NEW g, Inv, Die(g) PROVE Good
  OBVIOUS
<1>0. UNCHANGED <<phase, connected, commands, pending, call, executed>>
  BY DEF Die, clientVars, callVars
<1>1. CASE listener # g
  BY <1>1, BystanderStep DEF Die, wireVars
<1>2. CASE listener = g
  <2>1. Typed' /\ Tracked'
    BY <1>0, <1>2, Unread DEF Die
  <2>2. Answered'
    <3>1. PICK S : /\ toAgent \in Seq(S)
                   /\ \A x \in S : x.kind = "answer" => x.call \in Calls /\ executed[x.call] = 1
      BY DEF Inv, Answered
    <3>2. PICK n \in 0..Len(toAgent) :
            toAgent' = IF session = "none" THEN toAgent ELSE Append(SubSeq(toAgent, 1, n), Close)
      BY <1>2 DEF Die
    <3>3. CASE toAgent' = toAgent
      BY <1>0, <3>3, SaySame
    <3>4. CASE toAgent' = Append(SubSeq(toAgent, 1, n), Close)
      <4>1. toAgent \in Seq(S \cup {Close})
        BY <3>1
      <4>2. toAgent' \in Seq(S \cup {Close})
        BY <3>4, <4>1
      <4>3. \A x \in S \cup {Close} : x.kind = "answer" => x.call \in Calls /\ executed'[x.call] = 1
        BY <1>0, <3>1 DEF Close
      <4> QED BY <4>2, <4>3 DEF Answered
    <3> QED BY <3>2, <3>3, <3>4
  <2>3. [RC!Next]_RC!vars
    BY <1>0, Silent
  <2> QED BY <2>1, <2>2, <2>3 DEF Good, Inv
<1> QED BY <1>1, <1>2

-----------------------------------------------------------------------------
(* Every step of the link is a step of the contract, or none. *)
LEMMA LinkStep == Inv /\ [Next]_vars => Good
<1> SUFFICES ASSUME Inv, [Next]_vars PROVE Good
  OBVIOUS
<1>1. CASE UNCHANGED <<wireVars, clientVars, callVars>>
  BY <1>1, BystanderStep
<1>2. CASE Session
  BY <1>2, OnHelloStep, OnSnapshotStep, OnCallStep, ForwardStep, EventGapStep DEF Session
<1>3. ASSUME NEW c \in Calls, LateCall(c) \/ Call(c) \/ Enqueue(c) PROVE Good
  BY <1>3, LateCallStep, CallStep, EnqueueStep
<1>4. CASE Lost \/ Break
  BY <1>4, AbandonStep DEF Lost, Break
<1>5. CASE Client
  <2>1. CASE ensure_running
    BY <2>1, BystanderStep DEF ensure_running
  <2> QED BY <1>4, <1>5, <2>1, ConnectStep, HelloReplyStep, SnapshotReplyStep, TransientStep, FatalStep,
             TakeCommandStep, ReadEventStep, ReadAnswerStep, DisconnectStep DEF Client
<1>6. ASSUME NEW g \in Generations, Listen(g) \/ Die(g) \/ Reap(g) PROVE Good
  BY <1>6, DieStep, BystanderStep DEF Listen, Reap
<1>7. ASSUME NEW p \in Publishers, (\E e \in Event : Publish(p, e)) \/ Broadcast(p) PROVE Good
  BY <1>7, BystanderStep DEF Publish, Broadcast
<1>8. CASE Project
  BY <1>8, BystanderStep DEF Project
<1>9. CASE UNCHANGED vars
  BY <1>1, <1>9 DEF vars
<1> QED BY <1>2, <1>3, <1>4, <1>5, <1>6, <1>7, <1>8, <1>9 DEF Next

(* The safety part of CallContract: however the connection comes and goes, *)
(* each call gets one outcome, an answer only after an execution, and the  *)
(* daemon executes it at most once.                                        *)
THEOREM KeepsContract == Spec => ContractSafety
<1>1. Init => Inv /\ RC!Init
  BY InvInit
<1>2. Inv /\ [Next]_vars => Inv' /\ [RC!Next]_RC!vars
  BY LinkStep DEF Good
<1> QED BY <1>1, <1>2, PTL DEF Spec, ContractSafety

-----------------------------------------------------------------------------
(* The projection: definitions *)

(* What a task of a projection can be. *)
Value == Statuses \cup {Absent}

(* What a frame does to a task: nothing, or it says what the task is, or   *)
(* what the task is if it is there at all.  Nothing else comes about when  *)
(* frames follow one another.                                              *)
Keep == [v \in Value |-> v]
Put(s) == [v \in Value |-> s]
Report(s) == [v \in Value |-> IF v = Absent THEN Absent ELSE s]
Moves == {Keep} \cup {Put(s) : s \in Value} \cup {Report(s) : s \in Statuses}

(* First f, then g. *)
Then(f, g) == [v \in Value |-> g[f[v]]]

(* What message m does to task t. *)
Frame(m) == IF m.kind = "event" THEN m.event ELSE m

MoveOf(m, t) ==
    LET e == Frame(m) IN
    CASE e.kind \in {"snapshot", "list"}     -> Put(e.body[t])
      [] e.kind = "changed" /\ e.task = t   -> Put(e.status)
      [] e.kind = "deleted" /\ e.task = t   -> Put(Absent)
      [] e.kind = "progress" /\ e.task = t  -> Report(e.status)
      [] OTHER                              -> Keep

(* The frames of q, one after the other, do f to t. *)
Means(q, t, f) ==
    \E F \in [0..Len(q) -> Moves] :
        /\ F[0] = f /\ F[Len(q)] = Keep
        /\ \A k \in 1..Len(q) : F[k - 1] = Then(MoveOf(q[k], t), F[k])

(* What travels on the wire and through the inbox; in the receiver there   *)
(* are events.                                                             *)
Message ==
    {[kind |-> k] : k \in {"close", "hello", "failure", "stale", "fatal"}}
        \cup [kind : {"answer"}, call : Calls]
        \cup [kind : {"snapshot"}, body : Projection]
        \cup [kind : {"event"}, event : Event]

Item == Message \cup Event

(* What the publishers have applied and not broadcast yet does h to t. *)
Held(t, h) ==
    \/ h = Keep /\ \A p \in Publishers : ~Holds(p, t)
    \/ \E p \in Publishers : Holds(p, t) /\ h = MoveOf(Head(hand[p]), t)

(* The snapshot of this connection is on the wire, or has been read. *)
Synced == phase = "up" \/ \E k \in DOMAIN toAgent : toAgent[k].kind = "snapshot"

(* The variables hold what they should. *)
Sound ==
    /\ proj \in Projection
    /\ agent \in [view : Projection, online : BOOLEAN]
    /\ hand \in [Publishers -> {<<>>} \cup {<<e>> : e \in Event}] /\ crossed \subseteq Tasks
    /\ rx \in Seq(Event) /\ toAgent \in Seq(Message) /\ inbox \in Seq(Message)

(* A dead daemon has neither a session nor frames. *)
Quiet == ~alive => session = "none" /\ \A p \in Publishers : hand[p] = <<>>

(* A task that was not crossed is in one hand at most, and the projection  *)
(* has what is held.                                                       *)
Carried ==
    \A t \in Tasks \ crossed, p \in Publishers : Holds(p, t) =>
        /\ \A q \in Publishers : Holds(q, t) => q = p
        /\ MoveOf(Head(hand[p]), t)[proj[t]] = proj[t]

(* Before it has accepted the hello a session says nothing but no. *)
Opening ==
    session = "open" => /\ phase = "hello" /\ rx = <<>>
                        /\ \A k \in DOMAIN toAgent : toAgent[k].kind = "failure"

(* The projector of a client that is up is online, or about to be. *)
Founded ==
    phase = "up" =>
        \/ agent.online /\ \A k \in DOMAIN inbox : inbox[k].kind = "event"
        \/ \E j \in DOMAIN inbox :
             /\ inbox[j].kind = "snapshot"
             /\ \A k \in DOMAIN inbox : k > j => inbox[k].kind = "event"

(* What is on its way to the projector moves the agent's copy of t, and    *)
(* already the daemon's own, to where the daemon's is, unless t was        *)
(* crossed: then it moves them somewhere.                                  *)
Flow(t) ==
    \E i, w, r, h \in Moves :
        /\ Means(inbox, t, i)
        /\ session # "none" => Means(toAgent, t, w)
        /\ Means(rx, t, r)
        /\ t \notin crossed =>
             /\ Held(t, h)
             /\ session = "ready" /\ ~lagged =>
                  /\ h[r[proj[t]]] = proj[t]
                  /\ Synced => h[r[w[i[agent.view[t]]]]] = proj[t]

Followed == Sound /\ Quiet /\ Carried /\ Opening /\ Founded /\ \A t \in Tasks : Flow(t)

-----------------------------------------------------------------------------
(* Moves, and queues of them *)

(* A move leads from what a task can be to what a task can be. *)
LEMMA MoveValue == \A f \in Moves, v \in Value : f[v] \in Value
BY DEF Moves, Keep, Put, Report, Value

(* To keep is a move too, ... *)
LEMMA KeepIsMove == Keep \in Moves /\ \A v \in Value : Keep[v] = v
BY DEF Moves, Keep

(* Moves one after the other are a move. *)
LEMMA ThenMoves ==
    ASSUME NEW f \in Moves, NEW g \in Moves
    PROVE  /\ Then(f, g) \in Moves
           /\ \A v \in Value : Then(f, g)[v] = g[f[v]]
<1>1. \A v \in Value : Then(f, g)[v] = g[f[v]]
  BY DEF Then
<1>2. CASE f = Keep
  <2>1. g \in [Value -> Value]
    BY DEF Moves, Keep, Put, Report, Value
  <2>2. Then(f, g) = g
    BY <1>2, <2>1 DEF Then, Keep
  <2> QED BY <1>1, <2>2
<1>3. CASE g = Keep
  <2>1. f \in [Value -> Value]
    BY DEF Moves, Keep, Put, Report, Value
  <2>2. Then(f, g) = f
    BY <1>3, <2>1 DEF Then, Keep
  <2> QED BY <1>1, <2>2
<1>4. ASSUME NEW s \in Value, f = Put(s) PROVE Then(f, g) \in Moves
  <2>1. g[s] \in Value
    BY MoveValue
  <2>2. Then(f, g) = Put(g[s])
    BY <1>4 DEF Then, Put
  <2> QED BY <2>1, <2>2 DEF Moves
<1>5. ASSUME NEW s \in Value, g = Put(s) PROVE Then(f, g) \in Moves
  <2>1. \A v \in Value : f[v] \in Value
    BY MoveValue
  <2>2. Then(f, g) = Put(s)
    BY <1>5, <2>1 DEF Then, Put
  <2> QED BY <2>2 DEF Moves
<1>6. ASSUME NEW s \in Statuses, f = Report(s), NEW u \in Statuses, g = Report(u) PROVE Then(f, g) \in Moves
  <2>1. Then(f, g) = Report(u)
    BY <1>6, LinkAssumption DEF Then, Report, Value
  <2> QED BY <2>1 DEF Moves
<1> QED BY <1>1, <1>2, <1>3, <1>4, <1>5, <1>6 DEF Moves

(* ... and makes no difference before or after another. *)
LEMMA ThenKeep == ASSUME NEW f \in Moves PROVE Then(Keep, f) = f /\ Then(f, Keep) = f
<1>1. f \in [Value -> Value]
  BY DEF Moves, Keep, Put, Report, Value
<1> QED BY <1>1 DEF Then, Keep

(* Where a row of moves is divided makes no difference. *)
LEMMA ThenThen ==
    ASSUME NEW f \in Moves, NEW g \in Moves, NEW h \in Moves
    PROVE  Then(f, Then(g, h)) = Then(Then(f, g), h)
<1>1. \A v \in Value : f[v] \in Value
  BY MoveValue
<1> QED BY <1>1 DEF Then

(* A move made twice is made once. *)
LEMMA MoveTwice == \A f \in Moves, v \in Value : f[f[v]] = f[v]
BY LinkAssumption DEF Moves, Keep, Put, Report, Value

(* A move that has been made may be made again after moves that led to    *)
(* where it was made.                                                      *)
LEMMA MoveAgain ==
    ASSUME NEW f \in Moves, NEW g \in Moves, NEW v \in Value, f[v] = v
    PROVE  g[f[g[v]]] = g[v]
<1>1. CASE g = Keep
  BY <1>1, KeepIsMove
<1>2. ASSUME NEW s \in Value, g = Put(s) PROVE g[f[g[v]]] = g[v]
  <2>1. f[g[v]] \in Value
    BY MoveValue
  <2> QED BY <1>2, <2>1 DEF Put
<1>3. ASSUME NEW s \in Statuses, g = Report(s) PROVE g[f[g[v]]] = g[v]
  <2>1. CASE v = Absent
    BY <1>3, <2>1 DEF Report
  <2>2. CASE v # Absent
    <3>1. g[v] = s /\ s # Absent /\ s \in Value
      BY <1>3, <2>2, LinkAssumption DEF Report, Value
    <3>2. f[s] # Absent /\ f[s] \in Value
      BY <2>2, <3>1, LinkAssumption, MoveValue DEF Moves, Keep, Put, Report
    <3> QED BY <1>3, <3>1, <3>2 DEF Report
  <2> QED BY <2>1, <2>2
<1> QED BY <1>1, <1>2, <1>3 DEF Moves

(* What the frames do is a move. *)
LEMMA FrameMoves ==
    ASSUME NEW m \in Item, NEW t \in Tasks
    PROVE  MoveOf(m, t) \in Moves
<1>1. \A e \in Event : \/ e.kind \in {"changed", "deleted", "progress"} /\ e.status \in Statuses
                       \/ e.kind = "list" /\ e.body \in Projection
  BY LinkAssumption DEF Event
<1>2. ASSUME NEW e \in Event, Frame(m) = e PROVE MoveOf(m, t) \in Moves
  <2> SUFFICES ASSUME e.kind # "list" PROVE MoveOf(m, t) \in Moves
    <3>1. CASE e.kind = "list"
      <4>1. e.body[t] \in Value
        BY <1>1, <3>1 DEF Projection, Value
      <4>2. MoveOf(m, t) = Put(e.body[t])
        BY <1>2, <3>1 DEF MoveOf
      <4> QED BY <4>1, <4>2 DEF Moves
    <3> QED BY <3>1
  <2>1. e.status \in Statuses /\ e.kind \in {"changed", "deleted", "progress"}
    BY <1>1
  <2>2. Put(e.status) \in Moves /\ Put(Absent) \in Moves /\ Report(e.status) \in Moves /\ Keep \in Moves
    BY <2>1 DEF Moves, Value
  <2> QED BY <1>2, <2>1, <2>2 DEF MoveOf
<1>3. CASE m \in Event
  <2>1. Frame(m) = m
    BY <1>1, <1>3 DEF Frame
  <2> QED BY <1>2, <1>3, <2>1
<1>4. CASE m \in [kind : {"event"}, event : Event]
  <2>1. Frame(m) = m.event /\ m.event \in Event
    BY <1>4 DEF Frame
  <2> QED BY <1>2, <2>1
<1>5. CASE m \in [kind : {"snapshot"}, body : Projection]
  <2>1. Frame(m) = m /\ m.kind = "snapshot" /\ m.body[t] \in Value
    BY <1>5 DEF Frame, Projection, Value
  <2>2. MoveOf(m, t) = Put(m.body[t])
    BY <2>1 DEF MoveOf
  <2> QED BY <2>1, <2>2 DEF Moves
<1>6. CASE m.kind \in {"close", "hello", "failure", "stale", "fatal", "answer"}
  <2>1. Frame(m) = m
    BY <1>6 DEF Frame
  <2>2. MoveOf(m, t) = Keep
    BY <1>6, <2>1 DEF MoveOf
  <2> QED BY <2>2 DEF Moves
<1> QED BY <1>3, <1>4, <1>5, <1>6 DEF Item, Message

(* Nothing on its way changes nothing, and nothing else does it. *)
LEMMA NothingMeans == \A t, f : Means(<<>>, t, f) <=> f = Keep
<1>1. ASSUME NEW t, NEW f, Means(<<>>, t, f) PROVE f = Keep
  BY <1>1 DEF Means
<1>2. ASSUME NEW t PROVE Means(<<>>, t, Keep)
  <2> DEFINE F == [k \in 0..0 |-> Keep]
  <2>1. F \in [0..Len(<<>>) -> Moves]
    BY DEF Moves
  <2>2. F[0] = Keep
    OBVIOUS
  <2>3. Len(<<>>) = 0
    OBVIOUS
  <2> HIDE DEF F
  <2>4. \A k \in 1..Len(<<>>) : F[k - 1] = Then(MoveOf(<<>>[k], t), F[k])
    BY <2>3
  <2> QED BY <2>1, <2>2, <2>3, <2>4 DEF Means
<1> QED BY <1>1, <1>2

(* Frames that say nothing of t keep it. *)
LEMMA KeepMeans ==
    ASSUME NEW q \in Seq(Item), NEW t, \A k \in DOMAIN q : MoveOf(q[k], t) = Keep
    PROVE  Means(q, t, Keep)
<1> DEFINE F == [k \in 0..Len(q) |-> Keep]
<1>1. Len(q) \in Nat /\ DOMAIN q = 1..Len(q)
  OBVIOUS
<1>2. F \in [0..Len(q) -> Moves] /\ F[0] = Keep /\ F[Len(q)] = Keep
  BY <1>1, KeepIsMove
<1>3. \A k \in 1..Len(q) : F[k - 1] = Then(MoveOf(q[k], t), F[k])
  BY <1>1, KeepIsMove, ThenKeep
<1> HIDE DEF F
<1> QED BY <1>2, <1>3 DEF Means

(* One more frame. *)
LEMMA AppendMeans ==
    ASSUME NEW q \in Seq(Item), NEW m \in Item, NEW t \in Tasks, NEW f, Means(q, t, f)
    PROVE  Means(Append(q, m), t, Then(f, MoveOf(m, t)))
<1> DEFINE n == Len(q)  r == Append(q, m)  g == MoveOf(m, t)
<1>1. PICK F \in [0..n -> Moves] :
        /\ F[0] = f /\ F[n] = Keep
        /\ \A k \in 1..n : F[k - 1] = Then(MoveOf(q[k], t), F[k])
  BY DEF Means
<1> DEFINE G == [k \in 0..n + 1 |-> IF k <= n THEN Then(F[k], g) ELSE Keep]
<1>2. g \in Moves
  BY FrameMoves
<1>3. n \in Nat /\ Len(r) = n + 1 /\ (\A k \in 1..n : r[k] = q[k] /\ q[k] \in Item) /\ r[n + 1] = m
  OBVIOUS
<1> HIDE DEF r, g, n
<1>4. G \in [0..n + 1 -> Moves]
  BY <1>1, <1>2, <1>3, ThenMoves, KeepIsMove
<1>5. G[0] = Then(f, g) /\ G[n + 1] = Keep /\ G[n] = g
  BY <1>1, <1>2, <1>3, ThenKeep
<1>6. ASSUME NEW k \in 1..n + 1 PROVE G[k - 1] = Then(MoveOf(r[k], t), G[k])
  <2>1. CASE k = n + 1
    <3>1. Then(g, Keep) = g
      BY <1>2, ThenKeep
    <3>2. n + 1 - 1 = n
      BY <1>3
    <3> QED BY <1>3, <1>5, <2>1, <3>1, <3>2 DEF g
  <2>2. CASE k \in 1..n
    <3>1. F[k - 1] = Then(MoveOf(q[k], t), F[k]) /\ F[k] \in Moves /\ MoveOf(q[k], t) \in Moves
      BY <1>1, <1>3, <2>2, FrameMoves
    <3>2. G[k - 1] = Then(F[k - 1], g) /\ G[k] = Then(F[k], g)
      BY <1>3, <2>2
    <3>3. Then(MoveOf(q[k], t), Then(F[k], g)) = Then(Then(MoveOf(q[k], t), F[k]), g)
      BY <3>1, <1>2, ThenThen
    <3> QED BY <1>3, <2>2, <3>1, <3>2, <3>3
  <2> QED BY <1>3, <2>1, <2>2
<1> HIDE DEF G
<1>7. Means(r, t, Then(f, g))
  BY <1>3, <1>4, <1>5, <1>6 DEF Means
<1> QED BY <1>7 DEF r, g

(* One frame less. *)
LEMMA TailMeans ==
    ASSUME NEW q \in Seq(Item), q # <<>>, NEW t \in Tasks, NEW f, Means(q, t, f)
    PROVE  \E g \in Moves : Means(Tail(q), t, g) /\ f = Then(MoveOf(Head(q), t), g)
<1> DEFINE n == Len(q)  r == Tail(q)
<1>1. PICK F \in [0..n -> Moves] :
        /\ F[0] = f /\ F[n] = Keep
        /\ \A k \in 1..n : F[k - 1] = Then(MoveOf(q[k], t), F[k])
  BY DEF Means
<1>2. n \in Nat \ {0} /\ Len(r) = n - 1 /\ (\A k \in 1..n - 1 : r[k] = q[k + 1]) /\ Head(q) = q[1]
  OBVIOUS
<1> DEFINE G == [k \in 0..n - 1 |-> F[k + 1]]
<1> HIDE DEF n, r
<1>3. G \in [0..n - 1 -> Moves] /\ G[0] = F[1] /\ G[n - 1] = Keep
  BY <1>1, <1>2
<1>4. ASSUME NEW k \in 1..n - 1 PROVE G[k - 1] = Then(MoveOf(r[k], t), G[k])
  <2>1. k + 1 \in 1..n /\ k - 1 \in 0..n - 1 /\ k \in 0..n - 1 /\ k + 1 - 1 = k /\ k - 1 + 1 = k
    BY <1>2
  <2>2. G[k - 1] = F[k] /\ G[k] = F[k + 1]
    BY <2>1
  <2> QED BY <1>1, <1>2, <2>1, <2>2
<1>5. f = Then(MoveOf(Head(q), t), F[1]) /\ F[1] \in Moves
  <2>1. 1 \in 1..n /\ 1 - 1 = 0 /\ 1 \in 0..n
    BY <1>2
  <2> QED BY <1>1, <1>2, <2>1
<1> HIDE DEF G
<1>6. Means(r, t, F[1])
  BY <1>2, <1>3, <1>4 DEF Means
<1> QED BY <1>5, <1>6 DEF r

-----------------------------------------------------------------------------
(* The projection: its steps *)

(* Events and messages are items, and an event is its own frame. *)
LEMMA EventItems ==
    /\ Event \subseteq Item /\ Message \subseteq Item
    /\ \A e \in Event : \/ /\ e.kind \in {"changed", "deleted", "progress"}
                           /\ e.task \in Tasks /\ e.status \in Statuses
                        \/ e.kind = "list" /\ e.body \in Projection
    /\ \A e \in Event : Frame(e) = e /\ Frame([kind |-> "event", event |-> e]) = e
BY LinkAssumption DEF Event, Item, Frame

(* Both hubs do with an event what its move says. *)
LEMMA EventMoves ==
    ASSUME NEW s \in Projection, NEW e \in Event
    PROVE  /\ apply_event(s, e) \in Projection
           /\ \A t \in Tasks : apply_event(s, e)[t] = MoveOf(e, t)[s[t]]
           /\ \A t \in Tasks : t \notin About(e) => MoveOf(e, t) = Keep
<1>2. \A t \in Tasks : s[t] \in Value
  BY DEF Projection, Value
<1>6. CASE e.kind = "list"
  <2>1. e.body \in Projection /\ Frame(e) = e /\ About(e) = Tasks /\ apply_event(s, e) = e.body
    BY <1>6, EventItems DEF About, apply_event
  <2>2. \A t \in Tasks : MoveOf(e, t) = Put(e.body[t])
    BY <1>6, <2>1 DEF MoveOf
  <2> QED BY <1>2, <2>1, <2>2 DEF Put
<1> SUFFICES ASSUME e.kind # "list"
             PROVE  /\ apply_event(s, e) \in Projection
                    /\ \A t \in Tasks : apply_event(s, e)[t] = MoveOf(e, t)[s[t]]
                    /\ \A t \in Tasks : t # e.task => MoveOf(e, t) = Keep
  BY <1>6 DEF About
<1>1. /\ e.task \in Tasks /\ e.status \in Statuses /\ Frame(e) = e
      /\ e.kind \in {"changed", "deleted", "progress"}
  BY EventItems
<1>3. CASE e.kind = "changed"
  <2>1. apply_event(s, e) = [s EXCEPT ![e.task] = e.status]
    BY <1>3 DEF apply_event
  <2>2. \A t \in Tasks : MoveOf(e, t) = IF e.task = t THEN Put(e.status) ELSE Keep
    BY <1>1, <1>3 DEF MoveOf
  <2> QED BY <1>1, <1>2, <2>1, <2>2 DEF Projection, Put, Keep
<1>4. CASE e.kind = "deleted"
  <2>1. apply_event(s, e) = [s EXCEPT ![e.task] = Absent]
    BY <1>4 DEF apply_event
  <2>2. \A t \in Tasks : MoveOf(e, t) = IF e.task = t THEN Put(Absent) ELSE Keep
    BY <1>1, <1>4 DEF MoveOf
  <2> QED BY <1>1, <1>2, <2>1, <2>2 DEF Projection, Put, Keep
<1>5. CASE e.kind = "progress"
  <2>1. apply_event(s, e) = [s EXCEPT ![e.task] = IF @ = Absent THEN Absent ELSE e.status]
    BY <1>5 DEF apply_event
  <2>2. \A t \in Tasks : MoveOf(e, t) = IF e.task = t THEN Report(e.status) ELSE Keep
    BY <1>1, <1>5 DEF MoveOf
  <2> QED BY <1>1, <1>2, <2>1, <2>2 DEF Projection, Report, Keep
<1> QED BY <1>1, <1>3, <1>4, <1>5

(* An event on the wire is that event, and what is no frame keeps all. *)
LEMMA WireMoves ==
    ASSUME NEW t \in Tasks
    PROVE  /\ \A e \in Event : [kind |-> "event", event |-> e] \in Message
                                 /\ MoveOf([kind |-> "event", event |-> e], t) = MoveOf(e, t)
           /\ \A m \in Message : m.kind \in {"close", "hello", "failure", "stale", "fatal", "answer"}
                                 => MoveOf(m, t) = Keep
           /\ \A b \in Projection : [kind |-> "snapshot", body |-> b] \in Message
                                      /\ MoveOf([kind |-> "snapshot", body |-> b], t) = Put(b[t])
<1>1. \A e \in Event : Frame(e) = e /\ Frame([kind |-> "event", event |-> e]) = e
  BY EventItems
<1>2. \A e \in Event : [kind |-> "event", event |-> e] \in Message
                         /\ MoveOf([kind |-> "event", event |-> e], t) = MoveOf(e, t)
  BY <1>1 DEF Message, MoveOf
<1>3. ASSUME NEW m \in Message, m.kind \in {"close", "hello", "failure", "stale", "fatal", "answer"}
      PROVE  MoveOf(m, t) = Keep
  <2>1. Frame(m) = m
    BY <1>3 DEF Frame
  <2> QED BY <1>3, <2>1 DEF MoveOf
<1>4. ASSUME NEW b \in Projection
      PROVE  LET m == [kind |-> "snapshot", body |-> b] IN m \in Message /\ MoveOf(m, t) = Put(b[t])
  <2> DEFINE m == [kind |-> "snapshot", body |-> b]
  <2>1. Frame(m) = m /\ m.kind = "snapshot" /\ m.body = b
    BY DEF Frame
  <2>2. m \in Message
    BY DEF Message
  <2> HIDE DEF m
  <2>3. MoveOf(m, t) = Put(b[t])
    BY <2>1 DEF MoveOf
  <2> QED BY <2>2, <2>3 DEF m
<1> QED BY <1>2, <1>3, <1>4

(* The messages. *)
LEMMA Notices ==
    /\ Close \in Message /\ Hello \in Message /\ \A k \in {"failure", "stale", "fatal"} : [kind |-> k] \in Message
    /\ \A c \in Calls : [kind |-> "answer", call |-> c] \in Message
    /\ \A b \in Projection : [kind |-> "snapshot", body |-> b] \in Message
    /\ \A e \in Event : [kind |-> "event", event |-> e] \in Message
BY DEF Close, Hello, Message

(* The three queues hold items. *)
LEMMA SoundItems == Sound => rx \in Seq(Item) /\ toAgent \in Seq(Item) /\ inbox \in Seq(Item)
<1> SUFFICES ASSUME Sound PROVE rx \in Seq(Item) /\ toAgent \in Seq(Item) /\ inbox \in Seq(Item)
  OBVIOUS
<1>1. Event \subseteq Item /\ Message \subseteq Item
  BY EventItems
<1>2. rx \in Seq(Event) /\ toAgent \in Seq(Message) /\ inbox \in Seq(Message)
  BY DEF Sound
<1> QED BY <1>1, <1>2

(* What a publisher holds. *)
LEMMA HeldEvent ==
    ASSUME Sound, NEW p \in Publishers, hand[p] # <<>>
    PROVE  \E e \in Event : hand[p] = <<e>> /\ Head(hand[p]) = e
<1>1. hand[p] \in {<<>>} \cup {<<e>> : e \in Event}
  BY DEF Sound
<1>2. PICK e \in Event : hand[p] = <<e>>
  BY <1>1
<1>3. Head(<<e>>) = e
  OBVIOUS
<1> QED BY <1>2, <1>3

-----------------------------------------------------------------------------
(* Nothing the projection depends on changes. *)
LEMMA FollowedSame ==
    ASSUME Followed,
           UNCHANGED <<proj, hand, crossed, session, rx, lagged, toAgent, inbox, agent, listener>>,
           phase' = phase \/ (phase # "up" /\ phase' # "up" /\ session # "open")
    PROVE  Followed'
<1>1. Sound'
  BY DEF Followed, Sound
<1>2. Quiet' /\ Carried'
  BY DEF Followed, Quiet, alive, Carried, Holds
<1>3. Opening' /\ Founded'
  BY DEF Followed, Opening, Founded
<1>4. ASSUME NEW t \in Tasks PROVE Flow(t)'
  <2>1. \A i : /\ Means(inbox, t, i)' <=> Means(inbox, t, i)
               /\ Means(toAgent, t, i)' <=> Means(toAgent, t, i)
               /\ Means(rx, t, i)' <=> Means(rx, t, i)
               /\ Held(t, i)' <=> Held(t, i)
    BY DEF Means, Held, Holds
  <2>2. Synced' <=> Synced
    BY DEF Synced
  <2>3. Flow(t)
    BY DEF Followed
  <2>4. PICK i \in Moves, w \in Moves, r \in Moves, h \in Moves :
        /\ Means(inbox, t, i)
        /\ session # "none" => Means(toAgent, t, w)
        /\ Means(rx, t, r)
        /\ t \notin crossed =>
             /\ Held(t, h)
             /\ session = "ready" /\ ~lagged =>
                  /\ h[r[proj[t]]] = proj[t]
                  /\ Synced => h[r[w[i[agent.view[t]]]]] = proj[t]
    BY <2>3 DEF Flow
  <2> QED BY <2>1, <2>2, <2>4 DEF Flow
<1> QED BY <1>1, <1>2, <1>3, <1>4 DEF Followed

(* At first all is empty. *)
LEMMA FollowedInit == Init => Followed
<1> SUFFICES ASSUME Init PROVE Followed
  OBVIOUS
<1> USE DEF Init
<1>1. Empty \in Projection
  BY DEF Empty, Projection
<1>2. Sound
  BY <1>1 DEF Sound
<1>3. Quiet /\ Carried /\ Opening /\ Founded
  BY DEF Quiet, Carried, Holds, Opening, Founded
<1>4. ASSUME NEW t \in Tasks PROVE Flow(t)
  <2>1. Means(inbox, t, Keep) /\ Means(rx, t, Keep)
    BY NothingMeans
  <2>2. Held(t, Keep)
    BY DEF Held, Holds
  <2> QED BY <2>1, <2>2, KeepIsMove DEF Flow
<1> QED BY <1>2, <1>3, <1>4 DEF Followed

(* The session is gone: only the inbox and the hands matter. *)
LEMMA FollowedGone ==
    ASSUME Followed, session' = "none", rx' = <<>>, toAgent' \in Seq(Message),
           phase' # "up" \/ (phase' = phase /\ UNCHANGED inbox),
           inbox' = inbox \/ \E m \in Message : inbox' = Append(inbox, m),
           hand' = hand \/ hand' = [p \in Publishers |-> <<>>],
           UNCHANGED <<proj, crossed, agent>>,
           listener' = listener \/ hand' = [p \in Publishers |-> <<>>]
    PROVE  Followed'
<1>1. Sound'
  <2>1. inbox \in Seq(Message)
    BY DEF Followed, Sound
  <2>4. inbox' \in Seq(Message)
    BY <2>1
  <2>2. hand' \in [Publishers -> {<<>>} \cup {<<e>> : e \in Event}]
    BY DEF Followed, Sound
  <2>3. rx' \in Seq(Event)
    OBVIOUS
  <2> QED BY <2>2, <2>3, <2>4 DEF Followed, Sound
<1>2. Quiet' /\ Opening'
  BY DEF Followed, Quiet, alive, Opening
<1>3. Carried'
  BY DEF Followed, Carried, Holds
<1>4. Founded'
  BY DEF Followed, Founded
<1>5. ASSUME NEW t \in Tasks PROVE Flow(t)'
  <2>1. PICK i \in Moves, w \in Moves, r \in Moves, h \in Moves :
          Means(inbox, t, i) /\ (t \notin crossed => Held(t, h))
    BY DEF Followed, Flow
  <2>2. \E j \in Moves : Means(inbox', t, j)
    <3>1. CASE inbox' = inbox
      BY <2>1, <3>1
    <3>2. ASSUME NEW m \in Message, inbox' = Append(inbox, m) PROVE \E j \in Moves : Means(inbox', t, j)
      <4>1. m \in Item /\ inbox \in Seq(Item)
        BY EventItems, SoundItems DEF Followed
      <4>2. Means(inbox', t, Then(i, MoveOf(m, t)))
        BY <2>1, <3>2, <4>1, AppendMeans
      <4> QED BY <2>1, <4>1, <4>2, FrameMoves, ThenMoves
    <3> QED BY <3>1, <3>2
  <2>3. \E g \in Moves : t \notin crossed => Held(t, g)'
    <3>1. CASE hand' = hand
      BY <2>1, <3>1 DEF Held, Holds
    <3>2. CASE hand' = [p \in Publishers |-> <<>>]
      BY <3>2, KeepIsMove DEF Held, Holds
    <3> QED BY <3>1, <3>2
  <2>4. Means(rx', t, Keep)
    BY NothingMeans
  <2>5. Means(inbox, t, i)' <=> Means(inbox', t, i)
    BY DEF Means
  <2> QED BY <2>2, <2>3, <2>4, KeepIsMove DEF Flow, Means
<1> QED BY <1>1, <1>2, <1>3, <1>4, <1>5 DEF Followed

(* The projections say of every task what a task can be. *)
LEMMA Values ==
    ASSUME Sound, NEW t \in Tasks
    PROVE  proj[t] \in Value /\ agent.view[t] \in Value
BY DEF Sound, Projection, Value

(* A frame less on the wire, and nothing of it in the inbox: it said       *)
(* nothing of the tasks.                                                   *)
LEMMA FollowedTaken ==
    ASSUME Followed, toAgent # <<>>, toAgent' = Tail(toAgent),
           Head(toAgent).kind \in {"hello", "answer"},
           phase' = phase \/ phase' = "snapshot",
           UNCHANGED <<proj, hand, crossed, session, rx, lagged, inbox, agent, listener>>
    PROVE  Followed'
<1>0. /\ toAgent \in Seq(Message) /\ Head(toAgent) \in Message /\ Tail(toAgent) \in Seq(Message)
      /\ 1 \in DOMAIN toAgent /\ Head(toAgent) = toAgent[1]
      /\ \A k \in DOMAIN Tail(toAgent) : k + 1 \in DOMAIN toAgent /\ Tail(toAgent)[k] = toAgent[k + 1]
  <2>1. toAgent \in Seq(Message)
    BY DEF Followed, Sound
  <2> QED BY <2>1
<1>1. Sound'
  BY <1>0 DEF Followed, Sound
<1>2. Quiet' /\ Carried' /\ Founded'
  BY DEF Followed, Quiet, alive, Carried, Holds, Founded
<1>3. session # "open"
  BY <1>0 DEF Followed, Opening
<1>4. Opening'
  BY <1>3 DEF Opening
<1>5. Synced' => Synced
  BY <1>0 DEF Synced
<1>6. ASSUME NEW t \in Tasks PROVE Flow(t)'
  <2>1. PICK i \in Moves, w \in Moves, r \in Moves, h \in Moves :
        /\ Means(inbox, t, i)
        /\ session # "none" => Means(toAgent, t, w)
        /\ Means(rx, t, r)
        /\ t \notin crossed =>
             /\ Held(t, h)
             /\ session = "ready" /\ ~lagged =>
                  /\ h[r[proj[t]]] = proj[t]
                  /\ Synced => h[r[w[i[agent.view[t]]]]] = proj[t]
    BY DEF Followed, Flow
  <2>2. MoveOf(Head(toAgent), t) = Keep
    BY <1>0, WireMoves
  <2>3. session # "none" => Means(Tail(toAgent), t, w)
    <3> SUFFICES ASSUME session # "none" PROVE Means(Tail(toAgent), t, w)
      OBVIOUS
    <3>1. PICK g \in Moves : Means(Tail(toAgent), t, g) /\ w = Then(MoveOf(Head(toAgent), t), g)
      <4>1. toAgent \in Seq(Item)
        BY SoundItems DEF Followed
      <4> QED BY <2>1, <4>1, TailMeans
    <3> QED BY <2>2, <3>1, ThenKeep
  <2>4. \A f : /\ Means(inbox, t, f)' <=> Means(inbox, t, f)
               /\ Means(rx, t, f)' <=> Means(rx, t, f)
               /\ Means(toAgent, t, f)' <=> Means(Tail(toAgent), t, f)
               /\ Held(t, f)' <=> Held(t, f)
    BY DEF Means, Held, Holds
  <2> QED BY <1>5, <2>1, <2>3, <2>4 DEF Flow
<1> QED BY <1>1, <1>2, <1>4, <1>6 DEF Followed

(* A frame goes from the wire to the inbox. *)
LEMMA FollowedRelayed ==
    ASSUME Followed, toAgent # <<>>, toAgent' = Tail(toAgent),
           inbox' = Append(inbox, Head(toAgent)),
           \/ Head(toAgent).kind = "event" /\ phase = "up"
           \/ Head(toAgent).kind = "snapshot",
           phase' = "up",
           UNCHANGED <<proj, hand, crossed, session, rx, lagged, agent, listener>>
    PROVE  Followed'
<1>0. /\ toAgent \in Seq(Message) /\ Head(toAgent) \in Message /\ Tail(toAgent) \in Seq(Message)
      /\ 1 \in DOMAIN toAgent /\ Head(toAgent) = toAgent[1]
  <2>1. toAgent \in Seq(Message)
    BY DEF Followed, Sound
  <2> QED BY <2>1
<1>1. inbox \in Seq(Message)
  BY DEF Followed, Sound
<1>2. /\ inbox' \in Seq(Message) /\ DOMAIN inbox' = 1..Len(inbox) + 1
      /\ DOMAIN inbox = 1..Len(inbox) /\ Len(inbox) \in Nat
      /\ \A k \in DOMAIN inbox : inbox'[k] = inbox[k]
      /\ inbox'[Len(inbox) + 1] = Head(toAgent)
  BY <1>0, <1>1
<1>3. Sound'
  BY <1>0, <1>2 DEF Followed, Sound
<1>4. Quiet' /\ Carried'
  BY DEF Followed, Quiet, alive, Carried, Holds
<1>5. session # "open"
  BY <1>0 DEF Followed, Opening
<1>6. Founded'
  <2>1. CASE Head(toAgent).kind = "snapshot"
    <3>1. Len(inbox) + 1 \in DOMAIN inbox' /\ \A k \in DOMAIN inbox' : ~(k > Len(inbox) + 1)
      BY <1>2
    <3> QED BY <1>2, <2>1, <3>1 DEF Founded
  <2>2. CASE Head(toAgent).kind = "event" /\ phase = "up"
    <3>1. \/ agent.online /\ \A k \in DOMAIN inbox : inbox[k].kind = "event"
          \/ \E j \in DOMAIN inbox : /\ inbox[j].kind = "snapshot"
                                     /\ \A k \in DOMAIN inbox : k > j => inbox[k].kind = "event"
      BY <2>2 DEF Followed, Founded
    <3>2. \A k \in DOMAIN inbox' : k \in DOMAIN inbox \/ inbox'[k].kind = "event"
      BY <1>2, <2>2
    <3>3. CASE agent.online /\ \A k \in DOMAIN inbox : inbox[k].kind = "event"
      BY <1>2, <3>2, <3>3 DEF Founded
    <3>4. ASSUME NEW j \in DOMAIN inbox, inbox[j].kind = "snapshot",
                 \A k \in DOMAIN inbox : k > j => inbox[k].kind = "event"
          PROVE  Founded'
      <4>1. j \in DOMAIN inbox' /\ inbox'[j].kind = "snapshot"
        BY <1>2, <3>4
      <4>2. \A k \in DOMAIN inbox' : k > j => inbox'[k].kind = "event"
        BY <1>2, <3>2, <3>4
      <4> QED BY <4>1, <4>2 DEF Founded
    <3> QED BY <3>1, <3>3, <3>4
  <2> QED BY <2>1, <2>2
<1>7. Opening'
  BY <1>5 DEF Opening
<1>8. Synced
  BY <1>0 DEF Synced
<1>9. ASSUME NEW t \in Tasks PROVE Flow(t)'
  <2>1. PICK i \in Moves, w \in Moves, r \in Moves, h \in Moves :
        /\ Means(inbox, t, i)
        /\ session # "none" => Means(toAgent, t, w)
        /\ Means(rx, t, r)
        /\ t \notin crossed =>
             /\ Held(t, h)
             /\ session = "ready" /\ ~lagged =>
                  /\ h[r[proj[t]]] = proj[t]
                  /\ Synced => h[r[w[i[agent.view[t]]]]] = proj[t]
    BY DEF Followed, Flow
  <2> DEFINE m == MoveOf(Head(toAgent), t)
  <2>2. m \in Moves
    BY <1>0, EventItems, FrameMoves
  <2> HIDE DEF m
  <2>3. PICK g \in Moves : session # "none" => Means(Tail(toAgent), t, g) /\ w = Then(m, g)
    <3>1. CASE session = "none"
      BY <3>1, KeepIsMove
    <3>2. CASE session # "none"
      <4>1. \E g \in Moves : Means(Tail(toAgent), t, g) /\ w = Then(MoveOf(Head(toAgent), t), g)
        <5>1. toAgent \in Seq(Item)
          BY SoundItems DEF Followed
        <5> QED BY <2>1, <3>2, <5>1, TailMeans, ZenonT(30)
      <4> QED BY <4>1 DEF m
    <3> QED BY <3>1, <3>2
  <2>4. Means(inbox', t, Then(i, m)) /\ Then(i, m) \in Moves
    <3>1. Head(toAgent) \in Item /\ inbox \in Seq(Item)
      BY <1>0, EventItems, SoundItems DEF Followed
    <3>2. Means(Append(inbox, Head(toAgent)), t, Then(i, m))
      BY <2>1, <3>1, AppendMeans DEF m
    <3> QED BY <2>1, <2>2, <3>2, ThenMoves
  <2>5. \A f : /\ Means(inbox, t, f)' <=> Means(inbox', t, f)
               /\ Means(rx, t, f)' <=> Means(rx, t, f)
               /\ Means(toAgent, t, f)' <=> Means(Tail(toAgent), t, f)
               /\ Held(t, f)' <=> Held(t, f)
    BY DEF Means, Held, Holds
  <2>6. agent.view[t] \in Value
    BY Values DEF Followed
  <2>7. session # "none" => g[Then(i, m)[agent.view[t]]] = w[i[agent.view[t]]]
    <3>1. i[agent.view[t]] \in Value
      BY <2>6, MoveValue
    <3>2. Then(i, m)[agent.view[t]] = m[i[agent.view[t]]]
      BY <2>2, <2>6, ThenMoves
    <3>3. Then(m, g)[i[agent.view[t]]] = g[m[i[agent.view[t]]]]
      BY <2>2, <3>1, ThenMoves
    <3> QED BY <2>3, <3>2, <3>3
  <2> QED BY <1>8, <2>1, <2>3, <2>4, <2>5, <2>7, ZenonT(30) DEF Flow
<1> QED BY <1>3, <1>4, <1>6, <1>7, <1>9 DEF Followed

(* The projector does with a frame what the frame says. *)
LEMMA FollowedProjected == Followed /\ Project => Followed'
<1> SUFFICES ASSUME Followed, Project PROVE Followed'
  OBVIOUS
<1> DEFINE m == Head(inbox)
<1>0. /\ inbox # <<>> /\ inbox' = Tail(inbox)
      /\ agent' = CASE m.kind = "snapshot" -> [view |-> m.body, online |-> TRUE]
                    [] m.kind = "event"    -> [agent EXCEPT !.view = apply_event(@, m.event)]
                    [] OTHER               -> [agent EXCEPT !.online = FALSE]
      /\ UNCHANGED <<proj, hand, crossed, session, rx, lagged, toAgent, phase, listener>>
  BY DEF Project, hubVars, sessionVars, wireVars, clientVars, processVars
<1> HIDE DEF m
<1>1. inbox \in Seq(Message)
  BY DEF Followed, Sound
<1>2. /\ m \in Message /\ m = inbox[1] /\ 1 \in DOMAIN inbox /\ Tail(inbox) \in Seq(Message)
      /\ DOMAIN inbox = 1..Len(inbox) /\ Len(inbox) \in Nat
      /\ DOMAIN Tail(inbox) = 1..Len(inbox) - 1
      /\ \A k \in DOMAIN Tail(inbox) : k + 1 \in DOMAIN inbox /\ Tail(inbox)[k] = inbox[k + 1]
  BY <1>0, <1>1 DEF m
<1>3. agent \in [view : Projection, online : BOOLEAN]
  BY DEF Followed, Sound
<1>4. /\ agent' \in [view : Projection, online : BOOLEAN]
      /\ \A t \in Tasks : agent.view'[t] = MoveOf(m, t)[agent.view[t]]
      /\ agent.online' = (m.kind = "snapshot" \/ (m.kind = "event" /\ agent.online))
  <2>1. \A t \in Tasks : agent.view[t] \in Value
    BY <1>3 DEF Projection, Value
  <2>2. CASE m \in [kind : {"snapshot"}, body : Projection]
    <3>1. agent' = [view |-> m.body, online |-> TRUE] /\ m = [kind |-> "snapshot", body |-> m.body] /\ m.body \in Projection
      BY <1>0, <2>2
    <3>2. \A t \in Tasks : MoveOf(m, t) = Put(m.body[t])
      BY <3>1, WireMoves
    <3>3. m.kind = "snapshot"
      BY <2>2
    <3> QED BY <2>1, <3>1, <3>2, <3>3 DEF Put
  <2>3. CASE m \in [kind : {"event"}, event : Event]
    <3>1. agent' = [agent EXCEPT !.view = apply_event(@, m.event)] /\ m = [kind |-> "event", event |-> m.event]
          /\ m.event \in Event /\ m.kind = "event"
      BY <1>0, <2>3
    <3>2. \A t \in Tasks : MoveOf(m, t) = MoveOf(m.event, t)
      BY <3>1, WireMoves
    <3>3. /\ apply_event(agent.view, m.event) \in Projection
          /\ \A t \in Tasks : apply_event(agent.view, m.event)[t] = MoveOf(m.event, t)[agent.view[t]]
      BY <1>3, <3>1, EventMoves
    <3>4. agent'.view = apply_event(agent.view, m.event) /\ agent'.online = agent.online
          /\ agent' \in [view : Projection, online : BOOLEAN]
      BY <1>3, <3>1, <3>3
    <3> QED BY <3>1, <3>2, <3>3, <3>4
  <2>4. CASE m.kind \in {"close", "hello", "failure", "stale", "fatal", "answer"}
    <3>1. agent' = [agent EXCEPT !.online = FALSE]
      BY <1>0, <2>4
    <3>2. \A t \in Tasks : MoveOf(m, t) = Keep
      BY <1>2, <2>4, WireMoves
    <3>3. m.kind # "snapshot" /\ m.kind # "event"
      BY <2>4
    <3> QED BY <1>3, <2>1, <3>1, <3>2, <3>3 DEF Keep
  <2> QED BY <1>2, <2>2, <2>3, <2>4 DEF Message
<1>5. Sound'
  BY <1>0, <1>2, <1>4 DEF Followed, Sound
<1>6. Quiet' /\ Carried' /\ Opening'
  BY <1>0 DEF Followed, Quiet, alive, Carried, Holds, Opening
<1>7. Founded'
  <2> SUFFICES ASSUME phase = "up" PROVE Founded'
    BY <1>0 DEF Founded
  <2>1. \/ agent.online /\ \A k \in DOMAIN inbox : inbox[k].kind = "event"
        \/ \E j \in DOMAIN inbox : /\ inbox[j].kind = "snapshot"
                                   /\ \A k \in DOMAIN inbox : k > j => inbox[k].kind = "event"
    BY DEF Followed, Founded
  <2>2. CASE agent.online /\ \A k \in DOMAIN inbox : inbox[k].kind = "event"
    BY <1>0, <1>2, <1>4, <2>2 DEF Founded
  <2>3. ASSUME NEW j \in DOMAIN inbox, inbox[j].kind = "snapshot",
               \A k \in DOMAIN inbox : k > j => inbox[k].kind = "event"
        PROVE  Founded'
    <3>1. CASE j = 1
      <4>1. agent.online' = TRUE
        BY <1>2, <1>4, <2>3, <3>1
      <4>2. \A k \in DOMAIN Tail(inbox) : Tail(inbox)[k].kind = "event"
        BY <1>2, <2>3, <3>1
      <4> QED BY <1>0, <4>1, <4>2 DEF Founded
    <3>2. CASE j # 1
      <4>1. /\ j - 1 \in DOMAIN Tail(inbox) /\ Tail(inbox)[j - 1].kind = "snapshot"
            /\ \A k \in DOMAIN Tail(inbox) : k > j - 1 => Tail(inbox)[k].kind = "event"
        BY <1>2, <2>3, <3>2
      <4> QED BY <1>0, <4>1 DEF Founded
    <3> QED BY <3>1, <3>2
  <2> QED BY <2>1, <2>2, <2>3
<1>8. ASSUME NEW t \in Tasks PROVE Flow(t)'
  <2>1. PICK i \in Moves, w \in Moves, r \in Moves, h \in Moves :
        /\ Means(inbox, t, i)
        /\ session # "none" => Means(toAgent, t, w)
        /\ Means(rx, t, r)
        /\ t \notin crossed =>
             /\ Held(t, h)
             /\ session = "ready" /\ ~lagged =>
                  /\ h[r[proj[t]]] = proj[t]
                  /\ Synced => h[r[w[i[agent.view[t]]]]] = proj[t]
    BY DEF Followed, Flow
  <2>2. PICK g \in Moves : Means(Tail(inbox), t, g) /\ i = Then(MoveOf(m, t), g)
    <3>1. \E g \in Moves : Means(Tail(inbox), t, g) /\ i = Then(MoveOf(Head(inbox), t), g)
      <4>1. inbox \in Seq(Item)
        BY SoundItems DEF Followed
      <4>2. inbox # <<>> /\ Means(inbox, t, i)
        BY <1>0, <2>1
      <4> QED BY <4>1, <4>2, TailMeans
    <3> QED BY <3>1 DEF m
  <2>3. i[agent.view[t]] = g[agent.view'[t]]
    <3>1. agent.view[t] \in Value
      BY Values DEF Followed
    <3>2. MoveOf(m, t) \in Moves
      BY <1>2, EventItems, FrameMoves
    <3>3. Then(MoveOf(m, t), g)[agent.view[t]] = g[MoveOf(m, t)[agent.view[t]]]
      BY <2>2, <3>1, <3>2, ThenMoves
    <3> QED BY <1>4, <2>2, <3>3
  <2>4. \A f : /\ Means(inbox, t, f)' <=> Means(Tail(inbox), t, f)
               /\ Means(rx, t, f)' <=> Means(rx, t, f)
               /\ Means(toAgent, t, f)' <=> Means(toAgent, t, f)
               /\ Held(t, f)' <=> Held(t, f)
    BY <1>0 DEF Means, Held, Holds
  <2>5. Synced' <=> Synced
    BY <1>0 DEF Synced
  <2>6. /\ Means(inbox, t, g)'
        /\ session' # "none" => Means(toAgent, t, w)'
        /\ Means(rx, t, r)'
        /\ t \notin crossed => Held(t, h)'
    BY <1>0, <2>1, <2>2, <2>4
  <2>7. t \notin crossed /\ session' = "ready" /\ ~lagged' =>
             /\ h[r[proj'[t]]] = proj'[t]
             /\ Synced' => h[r[w[g[agent.view'[t]]]]] = proj'[t]
    BY <1>0, <2>1, <2>3, <2>5
  <2> QED BY <1>0, <2>6, <2>7 DEF Flow
<1> QED BY <1>5, <1>6, <1>7, <1>8 DEF Followed

(* What a publisher holds has been done to the projection. *)
LEMMA HeldDone ==
    ASSUME Sound, Carried, NEW t \in Tasks \ crossed, NEW h, Held(t, h)
    PROVE  h[proj[t]] = proj[t]
<1>1. proj[t] \in Value
  BY Values
<1>2. CASE h = Keep
  BY <1>1, <1>2, KeepIsMove
<1>3. ASSUME NEW p \in Publishers, Holds(p, t), h = MoveOf(Head(hand[p]), t) PROVE h[proj[t]] = proj[t]
  BY <1>3 DEF Carried
<1> QED BY <1>2, <1>3 DEF Held

(* The projection and the publisher's hand change together. *)
LEMMA FollowedPublished ==
    ASSUME Followed, NEW p \in Publishers, NEW e \in Event, Publish(p, e)
    PROVE  Followed'
<1>0. /\ alive /\ hand[p] = <<>>
      /\ proj' = apply_event(proj, e)
      /\ hand' = [hand EXCEPT ![p] = <<e>>]
      /\ crossed' = crossed \cup {t \in About(e) : \E q \in Publishers : Holds(q, t)}
      /\ UNCHANGED <<session, rx, lagged, toAgent, phase, inbox, agent, listener>>
  BY DEF Publish, sessionVars, wireVars, clientVars, processVars
<1>1. /\ proj \in Projection /\ proj' \in Projection
      /\ \A t \in Tasks : proj'[t] = MoveOf(e, t)[proj[t]]
      /\ \A t \in Tasks : t \notin About(e) => MoveOf(e, t) = Keep
      /\ About(e) \subseteq Tasks /\ crossed \subseteq crossed'
  BY <1>0, EventMoves, EventItems DEF Followed, Sound, About
<1>2. /\ hand \in [Publishers -> {<<>>} \cup {<<d>> : d \in Event}]
      /\ hand' \in [Publishers -> {<<>>} \cup {<<d>> : d \in Event}]
      /\ hand'[p] = <<e>> /\ Head(hand'[p]) = e /\ hand'[p] # <<>>
      /\ \A q \in Publishers : q # p => hand'[q] = hand[q]
  <2>1. hand \in [Publishers -> {<<>>} \cup {<<d>> : d \in Event}]
    BY DEF Followed, Sound
  <2>2. Head(<<e>>) = e /\ <<e>> # <<>>
    OBVIOUS
  <2> QED BY <1>0, <2>1, <2>2
<1>3. \A t \in Tasks : MoveOf(e, t) \in Moves /\ proj[t] \in Value /\ agent.view[t] \in Value
  BY EventItems, FrameMoves, Values DEF Followed
<1>4. Sound'
  <2>1. crossed' \subseteq Tasks
    BY <1>0, <1>1 DEF Followed, Sound
  <2> QED BY <1>0, <1>1, <1>2, <2>1 DEF Followed, Sound
<1>5. Quiet' /\ Opening' /\ Founded'
  BY <1>0 DEF Followed, Quiet, alive, Opening, Founded
<1>6. /\ \A t \in Tasks : Holds(p, t)' <=> t \in About(e)
      /\ \A q \in Publishers, t \in Tasks : q # p => (Holds(q, t)' <=> Holds(q, t))
      /\ \A q \in Publishers : ~(q = p /\ hand[q] # <<>>)
  BY <1>0, <1>2 DEF Holds
<1>9. \A t \in About(e) \ crossed', q \in Publishers : ~Holds(q, t)
  BY <1>0
<1>7. Carried'
  <2> SUFFICES ASSUME NEW t \in Tasks \ crossed', NEW q \in Publishers, Holds(q, t)'
               PROVE  /\ \A x \in Publishers : Holds(x, t)' => x = q
                      /\ MoveOf(Head(hand'[q]), t)[proj'[t]] = proj'[t]
    BY DEF Carried
  <2>1. CASE t \in About(e)
    <3>1. q = p /\ \A x \in Publishers : Holds(x, t)' => x = p
      BY <1>6, <1>9, <2>1
    <3>2. MoveOf(e, t)[proj'[t]] = proj'[t]
      BY <1>1, <1>3, MoveTwice
    <3> QED BY <1>2, <3>1, <3>2
  <2>2. CASE t \notin About(e)
    <3>1. q # p /\ \A x \in Publishers : Holds(x, t)' => Holds(x, t)
      BY <1>6, <2>2
    <3>2. proj'[t] = proj[t] /\ hand'[q] = hand[q]
      BY <1>1, <1>2, <1>3, <2>2, <3>1, KeepIsMove
    <3>3. t \in Tasks \ crossed /\ Holds(q, t)
      BY <1>1, <3>1
    <3>4. /\ \A x \in Publishers : Holds(x, t) => x = q
          /\ MoveOf(Head(hand[q]), t)[proj[t]] = proj[t]
      BY <3>3 DEF Followed, Carried
    <3> QED BY <3>1, <3>2, <3>4
  <2> QED BY <2>1, <2>2
<1>8. ASSUME NEW t \in Tasks PROVE Flow(t)'
  <2>1. PICK i \in Moves, w \in Moves, r \in Moves, h \in Moves :
        /\ Means(inbox, t, i)
        /\ session # "none" => Means(toAgent, t, w)
        /\ Means(rx, t, r)
        /\ t \notin crossed =>
             /\ Held(t, h)
             /\ session = "ready" /\ ~lagged =>
                  /\ h[r[proj[t]]] = proj[t]
                  /\ Synced => h[r[w[i[agent.view[t]]]]] = proj[t]
    BY DEF Followed, Flow
  <2>2. \A f : /\ Means(inbox, t, f)' <=> Means(inbox, t, f)
               /\ Means(rx, t, f)' <=> Means(rx, t, f)
               /\ Means(toAgent, t, f)' <=> Means(toAgent, t, f)
    BY <1>0 DEF Means
  <2>3. Synced' <=> Synced
    BY <1>0 DEF Synced
  <2>4. CASE t \in crossed'
    BY <1>0, <2>1, <2>2, <2>4 DEF Flow
  <2>5. CASE t \in About(e) /\ t \notin crossed'
    <3> DEFINE g == MoveOf(e, t)
    <3>0. t \notin crossed /\ \A q \in Publishers : ~Holds(q, t)
      BY <1>1, <1>9, <2>5
    <3>1. h = Keep
      BY <2>1, <3>0 DEF Held
    <3>2. Held(t, g)'
      BY <1>2, <1>6, <2>5 DEF Held
    <3>3. g \in Moves /\ proj'[t] = g[proj[t]]
      BY <1>1, <1>3
    <3> HIDE DEF g
    <3>4. r[proj[t]] \in Value /\ r[w[i[agent.view[t]]]] \in Value
      BY <1>3, <2>1, MoveValue
    <3>5. ASSUME session = "ready", ~lagged
          PROVE  /\ g[r[proj'[t]]] = proj'[t]
                 /\ Synced => g[r[w[i[agent.view[t]]]]] = proj'[t]
      <4>1. r[proj[t]] = proj[t] /\ (Synced => r[w[i[agent.view[t]]]] = proj[t])
        BY <2>1, <3>0, <3>1, <3>4, <3>5, KeepIsMove
      <4>2. g[r[g[proj[t]]]] = g[proj[t]]
        BY <1>3, <2>1, <3>3, <4>1, MoveAgain
      <4> QED BY <3>3, <4>1, <4>2
    <3> QED BY <1>0, <2>1, <2>2, <2>3, <3>2, <3>3, <3>5 DEF Flow
  <2>6. CASE t \notin About(e) /\ t \notin crossed'
    <3>0. t \notin crossed
      BY <1>1, <2>6
    <3>1. proj'[t] = proj[t]
      BY <1>1, <1>3, <2>6, KeepIsMove
    <3>2. \A q \in Publishers : /\ Holds(q, t)' <=> Holds(q, t)
                                /\ Holds(q, t) => hand'[q] = hand[q]
      <4>1. ~Holds(p, t) /\ ~Holds(p, t)'
        BY <1>0, <1>6, <2>6 DEF Holds
      <4> QED BY <1>2, <1>6, <4>1
    <3>3. Held(t, h)'
      BY <2>1, <3>0, <3>2 DEF Held
    <3> QED BY <1>0, <2>1, <2>2, <2>3, <3>0, <3>1, <3>3 DEF Flow
  <2> QED BY <2>4, <2>5, <2>6
<1> QED BY <1>4, <1>5, <1>7, <1>8 DEF Followed

(* A frame goes from the publisher's hand to the receiver, or is lost with *)
(* the session's place in the stream.                                      *)
LEMMA FollowedBroadcast ==
    ASSUME Followed, NEW p \in Publishers, Broadcast(p)
    PROVE  Followed'
<1>0. /\ hand[p] # <<>>
      /\ hand' = [hand EXCEPT ![p] = <<>>]
      /\ UNCHANGED <<proj, crossed, session, toAgent, phase, inbox, agent, listener>>
  BY DEF Broadcast, wireVars, clientVars, processVars
<1>1. PICK e \in Event : hand[p] = <<e>> /\ Head(hand[p]) = e
  BY <1>0, HeldEvent DEF Followed
<1>2. /\ hand' \in [Publishers -> {<<>>} \cup {<<d>> : d \in Event}]
      /\ hand'[p] = <<>>
      /\ \A q \in Publishers : q # p => hand'[q] = hand[q]
  <2>1. hand \in [Publishers -> {<<>>} \cup {<<d>> : d \in Event}]
    BY DEF Followed, Sound
  <2> QED BY <1>0, <2>1
<1>3. rx \in Seq(Event)
  BY DEF Followed, Sound
<1>4. \/ UNCHANGED <<rx, lagged>> /\ session # "ready"
      \/ rx' = Append(rx, e) /\ UNCHANGED lagged
      \/ rx # <<>> /\ rx' = Append(Tail(rx), e) /\ lagged' = TRUE
  <2>1. CASE session # "ready"
    BY <2>1 DEF Broadcast
  <2>2. CASE session = "ready" /\ Len(rx) < Capacity
    <3>1. rx' = rx \o <<e>> /\ UNCHANGED lagged
      BY <1>1, <2>2 DEF Broadcast
    <3> QED BY <1>3, <3>1
  <2>3. CASE session = "ready" /\ ~(Len(rx) < Capacity)
    <3>1. rx' = Tail(rx) \o <<e>> /\ lagged' = TRUE
      BY <1>1, <2>3 DEF Broadcast
    <3>2. rx # <<>>
      BY <1>3, <2>3, LinkAssumption
    <3>3. Tail(rx) \in Seq(Event)
      BY <1>3, <3>2
    <3>4. \A s \in Seq(Event) : s \o <<e>> = Append(s, e)
      OBVIOUS
    <3> QED BY <3>1, <3>2, <3>3, <3>4
  <2> QED BY <2>1, <2>2, <2>3
<1>5. Sound'
  <2>1. rx' \in Seq(Event)
    <3>1. \A q \in Seq(Event) : Append(q, e) \in Seq(Event)
      OBVIOUS
    <3>2. rx # <<>> => Tail(rx) \in Seq(Event)
      BY <1>3
    <3> QED BY <1>3, <1>4, <3>1, <3>2
  <2> QED BY <1>0, <1>2, <2>1 DEF Followed, Sound
<1>6. Quiet' /\ Founded'
  BY <1>0, <1>2 DEF Followed, Quiet, alive, Founded
<1>7. Opening'
  BY <1>0 DEF Followed, Opening, Broadcast
<1>8. /\ \A t \in Tasks : ~Holds(p, t)' /\ (Holds(p, t) <=> t \in About(e))
      /\ \A q \in Publishers, t \in Tasks : q # p => (Holds(q, t)' <=> Holds(q, t))
  BY <1>0, <1>1, <1>2 DEF Holds
<1>10. Carried'
  <2> SUFFICES ASSUME NEW t \in Tasks \ crossed, NEW q \in Publishers, Holds(q, t)'
               PROVE  /\ \A x \in Publishers : Holds(x, t)' => x = q
                      /\ MoveOf(Head(hand'[q]), t)[proj[t]] = proj[t]
    BY <1>0 DEF Carried
  <2>1. q # p /\ Holds(q, t) /\ hand'[q] = hand[q] /\ \A x \in Publishers : Holds(x, t)' => Holds(x, t)
    BY <1>2, <1>8
  <2>2. /\ \A x \in Publishers : Holds(x, t) => x = q
        /\ MoveOf(Head(hand[q]), t)[proj[t]] = proj[t]
    BY <2>1 DEF Followed, Carried
  <2> QED BY <2>1, <2>2
<1>9. ASSUME NEW t \in Tasks PROVE Flow(t)'
  <2>1. PICK i \in Moves, w \in Moves, r \in Moves, h \in Moves :
        /\ Means(inbox, t, i)
        /\ session # "none" => Means(toAgent, t, w)
        /\ Means(rx, t, r)
        /\ t \notin crossed =>
             /\ Held(t, h)
             /\ session = "ready" /\ ~lagged =>
                  /\ h[r[proj[t]]] = proj[t]
                  /\ Synced => h[r[w[i[agent.view[t]]]]] = proj[t]
    BY DEF Followed, Flow
  <2> DEFINE g == MoveOf(e, t)
  <2>2. \A f : /\ Means(inbox, t, f)' <=> Means(inbox, t, f)
               /\ Means(rx, t, f)' <=> Means(rx', t, f)
               /\ Means(toAgent, t, f)' <=> Means(toAgent, t, f)
    BY <1>0 DEF Means
  <2>3. Synced' <=> Synced
    BY <1>0 DEF Synced
  <2>4. g \in Moves /\ e \in Item /\ rx \in Seq(Item)
    BY EventItems, FrameMoves, SoundItems DEF Followed
  <2>5. PICK k \in Moves : t \notin crossed => Held(t, k)' /\ h = Then(g, k)
    <3>0. CASE t \in crossed
      BY <3>0, KeepIsMove
    <3>1. CASE t \in About(e) /\ t \notin crossed
      <4>1. Holds(p, t) /\ \A q \in Publishers : Holds(q, t) => q = p
        BY <1>8, <3>1 DEF Followed, Carried
      <4>2. h = g
        BY <1>1, <2>1, <3>1, <4>1 DEF Held
      <4>3. Held(t, Keep)'
        BY <1>8, <4>1 DEF Held
      <4> QED BY <2>4, <4>2, <4>3, KeepIsMove, ThenKeep
    <3>2. CASE t \notin About(e) /\ t \notin crossed
      <4>1. g = Keep
        BY <3>2, EventMoves DEF Followed, Sound
      <4>2. \A q \in Publishers : /\ Holds(q, t)' <=> Holds(q, t)
                                  /\ Holds(q, t) => hand'[q] = hand[q]
        BY <1>2, <1>8, <3>2
      <4>3. Held(t, h)'
        BY <2>1, <3>2, <4>2 DEF Held
      <4> QED BY <2>1, <4>1, <4>3, ThenKeep
    <3> QED BY <3>0, <3>1, <3>2
  <2>6. CASE UNCHANGED <<rx, lagged>> /\ session # "ready"
    BY <1>0, <2>1, <2>2, <2>5, <2>6 DEF Flow
  <2>7. CASE rx' = Append(rx, e) /\ UNCHANGED lagged
    <3>1. Means(rx', t, Then(r, g)) /\ Then(r, g) \in Moves
      BY <2>1, <2>4, <2>7, AppendMeans, ThenMoves
    <3>2. ASSUME t \notin crossed, NEW x \in Value PROVE k[Then(r, g)[x]] = h[r[x]]
      <4> HIDE DEF g
      <4>1. r[x] \in Value
        BY <2>1, MoveValue
      <4>2. r \in Moves /\ g \in Moves
        BY <2>1, <2>4
      <4>3. \A v \in Value : Then(r, g)[v] = g[r[v]]
        BY <4>2, ThenMoves
      <4>4. Then(r, g)[x] = g[r[x]]
        BY <4>3
      <4>5. Then(g, k)[r[x]] = k[g[r[x]]]
        BY <2>4, <2>5, <4>1, ThenMoves
      <4> QED BY <2>5, <3>2, <4>4, <4>5
    <3>3. proj[t] \in Value /\ w[i[agent.view[t]]] \in Value
      BY <2>1, Values, MoveValue DEF Followed
    <3> HIDE DEF g
    <3>4. /\ Means(inbox, t, i)'
          /\ session' # "none" => Means(toAgent, t, w)'
          /\ Means(rx, t, Then(r, g))'
          /\ t \notin crossed => Held(t, k)'
      BY <1>0, <2>1, <2>2, <2>5, <3>1
    <3>5. t \notin crossed /\ session' = "ready" /\ ~lagged' =>
             /\ k[Then(r, g)[proj'[t]]] = proj'[t]
             /\ Synced' => k[Then(r, g)[w[i[agent.view'[t]]]]] = proj'[t]
      BY <1>0, <2>1, <2>3, <2>7, <3>2, <3>3
    <3> QED BY <1>0, <2>1, <2>5, <3>1, <3>4, <3>5 DEF Flow
  <2>8. CASE rx # <<>> /\ rx' = Append(Tail(rx), e) /\ lagged' = TRUE
    <3>1. PICK d \in Moves : Means(Tail(rx), t, d)
      BY <2>1, <2>4, <2>8, TailMeans
    <3>2. Tail(rx) \in Seq(Item)
      BY <2>4, <2>8
    <3>3. Means(rx', t, Then(d, g)) /\ Then(d, g) \in Moves
      BY <2>4, <2>8, <3>1, <3>2, AppendMeans, ThenMoves
    <3> HIDE DEF g
    <3> QED BY <1>0, <2>1, <2>2, <2>5, <2>8, <3>3 DEF Flow
  <2> QED BY <1>4, <2>6, <2>7, <2>8
<1> QED BY <1>5, <1>6, <1>7, <1>9, <1>10 DEF Followed

(* What the session says is added to the wire. *)
LEMMA Said ==
    ASSUME Followed, NEW m \in Message, Say(m)
    PROVE  /\ toAgent' \in Seq(Message)
           /\ \A k \in DOMAIN toAgent' : toAgent'[k] = m \/ (k \in DOMAIN toAgent /\ toAgent'[k] = toAgent[k])
           /\ \A k \in DOMAIN toAgent : k \in DOMAIN toAgent' /\ toAgent'[k] = toAgent[k]
           /\ \A t \in Tasks : /\ MoveOf(m, t) \in Moves
                               /\ \A w \in Moves : Means(toAgent, t, w) => /\ Means(toAgent', t, Then(w, MoveOf(m, t)))
                                                                           /\ Then(w, MoveOf(m, t)) \in Moves
<1>1. toAgent \in Seq(Message) /\ toAgent' = Append(toAgent, m)
  BY DEF Followed, Sound, Say
<1>2. toAgent \in Seq(Item) /\ m \in Item
  BY EventItems, SoundItems DEF Followed
<1>3. \A t \in Tasks : MoveOf(m, t) \in Moves
  BY <1>2, FrameMoves
<1>4. ASSUME NEW t \in Tasks, NEW w \in Moves, Means(toAgent, t, w)
      PROVE  Means(toAgent', t, Then(w, MoveOf(m, t))) /\ Then(w, MoveOf(m, t)) \in Moves
  BY <1>1, <1>2, <1>3, <1>4, AppendMeans, ThenMoves
<1> QED BY <1>1, <1>3, <1>4

(* A fresh session has nothing in its receiver, and the snapshot is still  *)
(* to come.                                                                *)
LEMMA FollowedHello == Followed /\ OnHello => Followed'
<1> SUFFICES ASSUME Followed, OnHello PROVE Followed'
  OBVIOUS
<1>0. /\ session = "open"
      /\ \/ session' = "ready" /\ Say(Hello)
         \/ session' = "open" /\ Say([kind |-> "failure"])
      /\ UNCHANGED <<proj, hand, crossed, rx, lagged, phase, inbox, agent, listener>>
  BY DEF OnHello, hubVars, clientVars, processVars
<1>1. PICK m \in Message : /\ Say(m)
                           /\ \/ session' = "ready" /\ m.kind = "hello"
                              \/ session' = "open" /\ m.kind = "failure"
  BY <1>0, Notices DEF Hello
<1>2. /\ toAgent' \in Seq(Message)
      /\ \A k \in DOMAIN toAgent' : toAgent'[k] = m \/ (k \in DOMAIN toAgent /\ toAgent'[k] = toAgent[k])
      /\ \A t \in Tasks : \A w \in Moves : Means(toAgent, t, w) => \E x \in Moves : Means(toAgent', t, x)
  BY <1>1, Said
<1>3. phase = "hello" /\ rx = <<>> /\ \A k \in DOMAIN toAgent : toAgent[k].kind = "failure"
  BY <1>0 DEF Followed, Opening
<1>4. Sound' /\ Quiet'
  BY <1>0, <1>2 DEF Followed, Sound, Quiet, alive
<1>5. Carried' /\ Founded'
  BY <1>0 DEF Followed, Carried, Holds, Founded
<1>6. Opening'
  BY <1>0, <1>1, <1>2, <1>3 DEF Opening
<1>7. session' = "ready" => ~Synced'
  BY <1>0, <1>1, <1>2, <1>3 DEF Synced
<1>8. ASSUME NEW t \in Tasks PROVE Flow(t)'
  <2>1. PICK i \in Moves, w \in Moves, r \in Moves, h \in Moves :
        Means(inbox, t, i) /\ Means(toAgent, t, w) /\ (t \notin crossed => Held(t, h))
    <3>1. Flow(t)
      BY DEF Followed
    <3> QED BY <1>0, <3>1 DEF Flow
  <2>2. PICK x \in Moves : Means(toAgent', t, x)
    BY <1>2, <2>1
  <2>3. Means(rx, t, Keep) /\ Keep \in Moves /\ Keep[proj[t]] = proj[t]
    BY <1>3, NothingMeans, KeepIsMove, Values DEF Followed
  <2>4. t \notin crossed => h[proj[t]] = proj[t]
    BY <2>1, HeldDone DEF Followed
  <2>5. /\ Means(inbox, t, i)'
        /\ Means(toAgent, t, x)'
        /\ Means(rx, t, Keep)'
        /\ t \notin crossed => Held(t, h)'
    BY <1>0, <2>1, <2>2, <2>3 DEF Means, Held, Holds
  <2>6. t \notin crossed /\ session' = "ready" =>
                              /\ h[Keep[proj'[t]]] = proj'[t]
                              /\ ~Synced'
    BY <1>0, <1>7, <2>3, <2>4
  <2> QED BY <1>0, <2>1, <2>2, <2>3, <2>5, <2>6 DEF Flow
<1> QED BY <1>4, <1>5, <1>6, <1>8 DEF Followed

(* The snapshot says what the daemon's projection is; what the receiver    *)
(* holds by then is in it already, and may be said again.  A task that was *)
(* crossed and is in no frame any more is right from now on.               *)
LEMMA FollowedSnapshot == Followed /\ OnSnapshot => Followed'
<1> SUFFICES ASSUME Followed, OnSnapshot PROVE Followed'
  OBVIOUS
<1> DEFINE m == [kind |-> "snapshot", body |-> proj]
<1>0. /\ session = "ready" /\ Say(m)
      /\ crossed' = {t \in crossed : \/ \E p \in Publishers : Holds(p, t)
                                     \/ \E i \in DOMAIN rx : t \in About(rx[i])}
      /\ UNCHANGED <<proj, hand, session, rx, lagged, phase, inbox, agent, listener>>
  BY DEF OnSnapshot, hubVars, sessionVars, clientVars, processVars
<1>1. m \in Message /\ \A t \in Tasks : MoveOf(m, t) = Put(proj[t])
  BY WireMoves, Notices DEF Followed, Sound
<1> HIDE DEF m
<1>2. /\ toAgent' \in Seq(Message)
      /\ \A t \in Tasks : \A w \in Moves : Means(toAgent, t, w) => /\ Means(toAgent', t, Then(w, MoveOf(m, t)))
                                                                   /\ Then(w, MoveOf(m, t)) \in Moves
  BY <1>0, <1>1, Said
<1>3. Sound' /\ Quiet'
  BY <1>0, <1>2 DEF Followed, Sound, Quiet, alive
<1>6. Carried'
  <2>1. \A p \in Publishers, t \in Tasks : Holds(p, t)' <=> Holds(p, t)
    BY <1>0 DEF Holds
  <2>2. \A t \in Tasks \ crossed', p \in Publishers : Holds(p, t) => t \in Tasks \ crossed
    BY <1>0
  <2> QED BY <1>0, <2>1, <2>2 DEF Followed, Carried
<1>4. Opening' /\ Founded'
  BY <1>0 DEF Followed, Opening, Founded
<1>5. ASSUME NEW t \in Tasks PROVE Flow(t)'
  <2>1. PICK i \in Moves, w \in Moves, r \in Moves, h \in Moves :
        /\ Means(inbox, t, i)
        /\ Means(toAgent, t, w)
        /\ Means(rx, t, r)
        /\ t \notin crossed => /\ Held(t, h)
                               /\ ~lagged => h[r[proj[t]]] = proj[t]
    <3>1. Flow(t)
      BY DEF Followed
    <3> QED BY <1>0, <3>1 DEF Flow
  <2>2. PICK x \in Moves : Means(toAgent', t, x) /\ x = Then(w, MoveOf(m, t))
    BY <1>2, <2>1
  <2>3. x[i[agent.view[t]]] = proj[t]
    <3>1. agent.view[t] \in Value /\ proj[t] \in Value
      BY Values DEF Followed
    <3>2. i[agent.view[t]] \in Value
      BY <2>1, <3>1, MoveValue
    <3>3. w[i[agent.view[t]]] \in Value
      BY <2>1, <3>2, MoveValue
    <3> QED BY <1>1, <2>2, <3>2, <3>3 DEF Then, Put
  <2>4. \A f : /\ Means(inbox, t, f)' <=> Means(inbox, t, f)
               /\ Means(rx, t, f)' <=> Means(rx, t, f)
               /\ Means(toAgent, t, f)' <=> Means(toAgent', t, f)
               /\ Held(t, f)' <=> Held(t, f)
    BY <1>0 DEF Means, Held, Holds
  <2>5. CASE t \in crossed'
    BY <2>1, <2>2, <2>4, <2>5 DEF Flow
  <2>6. CASE t \notin crossed /\ t \notin crossed'
    <3>1. ~lagged' => /\ h[r[proj'[t]]] = proj'[t]
                      /\ h[r[x[i[agent.view'[t]]]]] = proj'[t]
      BY <1>0, <2>1, <2>3, <2>6
    <3> QED BY <2>1, <2>2, <2>4, <2>6, <3>1 DEF Flow
  <2>7. CASE t \in crossed /\ t \notin crossed'
    <3>1. Means(rx, t, Keep)
      <4>1. \A k \in DOMAIN rx : t \notin About(rx[k]) /\ rx[k] \in Event
        BY <1>0, <2>7 DEF Followed, Sound
      <4>2. \A k \in DOMAIN rx : MoveOf(rx[k], t) = Keep
        BY <4>1, EventMoves DEF Followed, Sound
      <4>3. rx \in Seq(Item)
        BY SoundItems DEF Followed
      <4> QED BY <4>2, <4>3, KeepMeans
    <3>2. Held(t, Keep)
      BY <1>0, <2>7 DEF Held
    <3>3. Keep[Keep[proj[t]]] = proj[t]
      BY KeepIsMove, Values DEF Followed
    <3>4. /\ Keep[Keep[proj'[t]]] = proj'[t]
          /\ Keep[Keep[x[i[agent.view'[t]]]]] = proj'[t]
      BY <1>0, <2>3, <3>3
    <3> QED BY <2>1, <2>2, <2>4, <3>1, <3>2, <3>4, KeepIsMove, ZenonT(30) DEF Flow
  <2> QED BY <2>5, <2>6, <2>7
<1> QED BY <1>3, <1>4, <1>5, <1>6 DEF Followed

(* An answer says nothing of the tasks. *)
LEMMA FollowedCall == Followed /\ OnCall => Followed'
<1> SUFFICES ASSUME Followed, OnCall PROVE Followed'
  OBVIOUS
<1>0. /\ session = "ready"
      /\ UNCHANGED <<proj, hand, crossed, session, rx, lagged, phase, inbox, agent, listener>>
  BY DEF OnCall, hubVars, sessionVars, clientVars, processVars
<1>1. PICK m \in Message : Say(m) /\ m.kind = "answer"
  BY Notices DEF OnCall
<1>2. /\ toAgent' \in Seq(Message)
      /\ \A k \in DOMAIN toAgent' : toAgent'[k] = m \/ (k \in DOMAIN toAgent /\ toAgent'[k] = toAgent[k])
      /\ \A t \in Tasks : \A w \in Moves : Means(toAgent, t, w) => Means(toAgent', t, w)
  <2>1. \A t \in Tasks : MoveOf(m, t) = Keep
    BY <1>1, EventItems, WireMoves
  <2> QED BY <1>1, <2>1, Said, ThenKeep
<1>3. Sound' /\ Quiet' /\ Carried'
  BY <1>0, <1>2 DEF Followed, Sound, Quiet, alive, Carried, Holds
<1>4. Opening' /\ Founded'
  BY <1>0 DEF Followed, Opening, Founded
<1>5. Synced' => Synced
  BY <1>0, <1>1, <1>2 DEF Synced
<1>6. ASSUME NEW t \in Tasks PROVE Flow(t)'
  <2>1. PICK i \in Moves, w \in Moves, r \in Moves, h \in Moves :
        /\ Means(inbox, t, i)
        /\ Means(toAgent, t, w)
        /\ Means(rx, t, r)
        /\ t \notin crossed =>
             /\ Held(t, h)
             /\ ~lagged => /\ h[r[proj[t]]] = proj[t]
                           /\ Synced => h[r[w[i[agent.view[t]]]]] = proj[t]
    <3>1. Flow(t)
      BY DEF Followed
    <3> QED BY <1>0, <3>1 DEF Flow
  <2>2. /\ Means(inbox, t, i)'
        /\ Means(toAgent, t, w)'
        /\ Means(rx, t, r)'
        /\ t \notin crossed => Held(t, h)'
    BY <1>0, <1>2, <2>1 DEF Means, Held, Holds
  <2> QED BY <1>0, <1>5, <2>1, <2>2 DEF Flow
<1> QED BY <1>3, <1>4, <1>6 DEF Followed

(* An event goes from the receiver to the wire. *)
LEMMA FollowedForward == Followed /\ Forward => Followed'
<1> SUFFICES ASSUME Followed, Forward PROVE Followed'
  OBVIOUS
<1> DEFINE e == Head(rx)  m == [kind |-> "event", event |-> e]
<1>0. /\ session = "ready" /\ ~lagged /\ rx # <<>> /\ rx' = Tail(rx) /\ Say(m)
      /\ UNCHANGED <<proj, hand, crossed, session, lagged, phase, inbox, agent, listener>>
  BY DEF Forward, hubVars, clientVars, processVars
<1>1. e \in Event /\ Tail(rx) \in Seq(Event)
  <2>1. rx \in Seq(Event)
    BY DEF Followed, Sound
  <2> QED BY <1>0, <2>1
<1> HIDE DEF e
<1>2. m \in Message /\ m.kind = "event" /\ \A t \in Tasks : MoveOf(m, t) = MoveOf(e, t)
  BY <1>1, WireMoves, Notices
<1> HIDE DEF m
<1>3. /\ toAgent' \in Seq(Message)
      /\ \A k \in DOMAIN toAgent' : toAgent'[k] = m \/ (k \in DOMAIN toAgent /\ toAgent'[k] = toAgent[k])
      /\ \A t \in Tasks : /\ MoveOf(m, t) \in Moves
                          /\ \A w \in Moves : Means(toAgent, t, w) => /\ Means(toAgent', t, Then(w, MoveOf(m, t)))
                                                                      /\ Then(w, MoveOf(m, t)) \in Moves
  BY <1>0, <1>2, Said
<1>4. Sound' /\ Quiet' /\ Carried'
  BY <1>0, <1>1, <1>3 DEF Followed, Sound, Quiet, alive, Carried, Holds
<1>5. Opening' /\ Founded'
  BY <1>0 DEF Followed, Opening, Founded
<1>6. Synced' => Synced
  BY <1>0, <1>2, <1>3 DEF Synced
<1>7. ASSUME NEW t \in Tasks PROVE Flow(t)'
  <2>1. PICK i \in Moves, w \in Moves, r \in Moves, h \in Moves :
        /\ Means(inbox, t, i)
        /\ Means(toAgent, t, w)
        /\ Means(rx, t, r)
        /\ t \notin crossed =>
             /\ Held(t, h)
             /\ h[r[proj[t]]] = proj[t]
             /\ Synced => h[r[w[i[agent.view[t]]]]] = proj[t]
    <3>1. Flow(t)
      BY DEF Followed
    <3> QED BY <1>0, <3>1 DEF Flow
  <2> DEFINE g == MoveOf(e, t)
  <2>2. g \in Moves /\ MoveOf(m, t) = g
    BY <1>2, <1>3
  <2>3. PICK d \in Moves : Means(Tail(rx), t, d) /\ r = Then(g, d)
    <3>1. rx \in Seq(Item)
      BY SoundItems DEF Followed
    <3>2. rx # <<>> /\ Means(rx, t, r)
      BY <1>0, <2>1
    <3> QED BY <3>1, <3>2, TailMeans DEF e
  <2> HIDE DEF g
  <2>4. PICK x \in Moves : Means(toAgent', t, x) /\ x = Then(w, g)
    BY <1>3, <2>1, <2>2
  <2>5. proj[t] \in Value /\ agent.view[t] \in Value
    BY Values DEF Followed
  <2>6. \A v \in Value : r[v] = d[g[v]] /\ x[v] = g[w[v]]
    <3>1. \A v \in Value : Then(g, d)[v] = d[g[v]]
      BY <2>2, <2>3, ThenMoves
    <3>2. \A v \in Value : Then(w, g)[v] = g[w[v]]
      BY <2>1, <2>2, ThenMoves
    <3> QED BY <2>3, <2>4, <3>1, <3>2
  <2>7. ASSUME t \notin crossed PROVE h[d[proj[t]]] = proj[t]
    <3> DEFINE f == Then(d, h)
    <3>1. f \in Moves /\ \A v \in Value : f[v] = h[d[v]]
      BY <2>1, <2>3, ThenMoves
    <3> HIDE DEF f
    <3>2. g[proj[t]] \in Value
      BY <2>2, <2>5, MoveValue
    <3>3. f[g[proj[t]]] = proj[t]
      BY <2>1, <2>5, <2>6, <2>7, <3>1, <3>2
    <3>4. f[proj[t]] = proj[t]
      BY <3>1, <3>2, <3>3, MoveTwice
    <3> QED BY <2>5, <3>1, <3>4
  <2>8. h[d[x[i[agent.view[t]]]]] = h[r[w[i[agent.view[t]]]]]
    <3>1. i[agent.view[t]] \in Value
      BY <2>1, <2>5, MoveValue
    <3>2. w[i[agent.view[t]]] \in Value
      BY <2>1, <3>1, MoveValue
    <3> QED BY <2>6, <3>1, <3>2
  <2>9. /\ Means(inbox, t, i)'
        /\ Means(toAgent, t, x)'
        /\ Means(rx, t, d)'
        /\ t \notin crossed => Held(t, h)'
    <3>1. \A f : /\ Means(inbox, t, f)' <=> Means(inbox, t, f)
                 /\ Means(rx, t, f)' <=> Means(Tail(rx), t, f)
                 /\ Means(toAgent, t, f)' <=> Means(toAgent', t, f)
                 /\ Held(t, f)' <=> Held(t, f)
      BY <1>0 DEF Means, Held, Holds
    <3> QED BY <2>1, <2>3, <2>4, <3>1
  <2>10. t \notin crossed =>
            /\ h[d[proj'[t]]] = proj'[t]
            /\ (Synced' => h[d[x[i[agent.view'[t]]]]] = proj'[t])
    BY <1>0, <1>6, <2>1, <2>7, <2>8
  <2> QED BY <1>0, <2>1, <2>3, <2>4, <2>9, <2>10, ZenonT(30) DEF Flow
<1> QED BY <1>4, <1>5, <1>7 DEF Followed

(* A new connection starts with nothing on its way. *)
LEMMA FollowedConnect == Followed /\ Connect => Followed'
<1> SUFFICES ASSUME Followed, Connect PROVE Followed'
  OBVIOUS
<1>0. /\ alive /\ phase' = "hello" /\ session' = "open" /\ rx' = <<>> /\ toAgent' = <<>>
      /\ UNCHANGED <<proj, hand, crossed, inbox, agent, listener>>
  BY DEF Connect, hubVars, processVars
<1>1. Sound'
  BY <1>0 DEF Followed, Sound
<1>2. Quiet' /\ Carried' /\ Opening' /\ Founded'
  BY <1>0 DEF Followed, Quiet, alive, Carried, Holds, Opening, Founded
<1>3. ASSUME NEW t \in Tasks PROVE Flow(t)'
  <2>1. PICK i \in Moves, w \in Moves, r \in Moves, h \in Moves :
          Means(inbox, t, i) /\ (t \notin crossed => Held(t, h))
    BY DEF Followed, Flow
  <2>2. Means(<<>>, t, Keep)
    BY NothingMeans
  <2>3. /\ Means(inbox, t, i)'
        /\ Means(toAgent, t, Keep)'
        /\ Means(rx, t, Keep)'
        /\ t \notin crossed => Held(t, h)'
    BY <1>0, <2>1, <2>2 DEF Means, Held, Holds
  <2> QED BY <1>0, <2>1, <2>3, KeepIsMove DEF Flow
<1> QED BY <1>1, <1>2, <1>3 DEF Followed

(* A daemon that starts has no session yet. *)
LEMMA FollowedListen == \A g \in Generations : Followed /\ Listen(g) => Followed'
<1> SUFFICES ASSUME NEW g \in Generations, Followed, Listen(g) PROVE Followed'
  OBVIOUS
<1>0. /\ ~alive /\ proj' \in Projection /\ crossed' = {}
      /\ UNCHANGED <<hand, session, rx, lagged, toAgent, phase, inbox, agent>>
  BY LinkAssumption DEF Listen, Projection, alive, sessionVars, wireVars, clientVars
<1>1. session = "none" /\ \A p \in Publishers : hand[p] = <<>>
  BY <1>0 DEF Followed, Quiet
<1>2. Sound'
  BY <1>0 DEF Followed, Sound
<1>3. Quiet' /\ Carried' /\ Opening' /\ Founded'
  BY <1>0, <1>1 DEF Followed, Quiet, Carried, Holds, Opening, Founded
<1>4. ASSUME NEW t \in Tasks PROVE Flow(t)'
  <2>1. PICK i \in Moves, w \in Moves, r \in Moves, h \in Moves :
          Means(inbox, t, i) /\ Means(rx, t, r)
    BY DEF Followed, Flow
  <2>2. /\ Means(inbox, t, i)'
        /\ Means(rx, t, r)'
        /\ Held(t, Keep)'
    BY <1>0, <1>1, <2>1 DEF Means, Held, Holds
  <2> QED BY <1>0, <1>1, <2>1, <2>2, KeepIsMove DEF Flow
<1> QED BY <1>2, <1>3, <1>4 DEF Followed

(* The daemon dies, and its session with it. *)
LEMMA FollowedDie == \A g : Followed /\ Die(g) => Followed'
<1> SUFFICES ASSUME NEW g, Followed, Die(g) PROVE Followed'
  OBVIOUS
<1>0. UNCHANGED <<proj, crossed, phase, inbox, agent>>
  BY DEF Die, clientVars
<1>1. CASE listener # g
  BY <1>0, <1>1, FollowedSame DEF Die, sessionVars, wireVars
<1>2. CASE listener = g
  <2>1. /\ session' = "none" /\ rx' = <<>> /\ hand' = [p \in Publishers |-> <<>>]
    BY <1>2 DEF Die
  <2>2. toAgent' \in Seq(Message)
    <3>1. toAgent \in Seq(Message) /\ Close \in Message
      BY Notices DEF Followed, Sound
    <3>2. PICK n \in 0..Len(toAgent) :
            toAgent' = IF session = "none" THEN toAgent ELSE Append(SubSeq(toAgent, 1, n), Close)
      BY <1>2 DEF Die
    <3>3. SubSeq(toAgent, 1, n) \in Seq(Message)
      BY <3>1
    <3> QED BY <3>1, <3>2, <3>3
  <2> QED BY <1>0, <2>1, <2>2, FollowedGone
<1> QED BY <1>1, <1>2

(* The connection is given up, by either end. *)
LEMMA FollowedEnd == Followed /\ (EventGap \/ Transient \/ Fatal \/ Abandon) => Followed'
<1> SUFFICES ASSUME Followed, EventGap \/ Transient \/ Fatal \/ Abandon PROVE Followed'
  OBVIOUS
<1>1. <<>> \in Seq(Message) /\ Close \in Message
      /\ [kind |-> "fatal"] \in Message /\ [kind |-> "stale"] \in Message
  BY Notices
<1>2. CASE EventGap
  <2>1. /\ session' = "none" /\ rx' = <<>> /\ Say(Close)
        /\ UNCHANGED <<proj, hand, crossed, phase, inbox, agent, listener>>
    BY <1>2 DEF EventGap, hubVars, clientVars, processVars
  <2>2. toAgent' \in Seq(Message)
    BY <1>1, <2>1, Said
  <2> QED BY <2>1, <2>2, FollowedGone
<1>3. CASE Transient
  <2>1. /\ session' = "none" /\ rx' = <<>> /\ toAgent' = <<>> /\ phase' = "down"
        /\ UNCHANGED <<proj, hand, crossed, inbox, agent, listener>>
    BY <1>3 DEF Transient, Hangup, hubVars, processVars
  <2> QED BY <1>1, <2>1, FollowedGone
<1>4. CASE Fatal
  <2>1. /\ session' = "none" /\ rx' = <<>> /\ toAgent' = <<>> /\ phase' = "fatal"
        /\ inbox' = Append(inbox, [kind |-> "fatal"])
        /\ UNCHANGED <<proj, hand, crossed, agent, listener>>
    BY <1>4 DEF Fatal, Hangup, hubVars, processVars
  <2> QED BY <1>1, <2>1, FollowedGone
<1>5. CASE Abandon
  <2>1. /\ session' = "none" /\ rx' = <<>> /\ toAgent' = <<>> /\ phase' = "failing"
        /\ inbox' = Append(inbox, [kind |-> "stale"])
        /\ UNCHANGED <<proj, hand, crossed, agent, listener>>
    BY <1>5 DEF Abandon, Hangup, hubVars, processVars
  <2> QED BY <1>1, <2>1, FollowedGone
<1> QED BY <1>2, <1>3, <1>4, <1>5

(* What is read off the wire. *)
LEMMA FollowedRead == Followed /\ (HelloReply \/ SnapshotReply \/ ReadEvent \/ ReadAnswer) => Followed'
<1> SUFFICES ASSUME Followed, HelloReply \/ SnapshotReply \/ ReadEvent \/ ReadAnswer PROVE Followed'
  OBVIOUS
<1>1. CASE HelloReply
  <2>1. /\ toAgent # <<>> /\ Head(toAgent).kind = "hello" /\ toAgent' = Tail(toAgent) /\ phase' = "snapshot"
        /\ UNCHANGED <<proj, hand, crossed, session, rx, lagged, inbox, agent, listener>>
    BY <1>1 DEF HelloReply, Hello, hubVars, sessionVars, processVars
  <2> QED BY <2>1, FollowedTaken
<1>2. CASE SnapshotReply
  <2>1. /\ toAgent # <<>> /\ Head(toAgent).kind = "snapshot" /\ toAgent' = Tail(toAgent) /\ phase' = "up"
        /\ inbox' = Append(inbox, Head(toAgent))
        /\ UNCHANGED <<proj, hand, crossed, session, rx, lagged, agent, listener>>
    BY <1>2 DEF SnapshotReply, hubVars, sessionVars, processVars
  <2> QED BY <2>1, FollowedRelayed
<1>3. CASE ReadEvent
  <2>1. /\ toAgent # <<>> /\ Head(toAgent).kind = "event" /\ toAgent' = Tail(toAgent)
        /\ phase = "up" /\ phase' = "up"
        /\ inbox' = Append(inbox, Head(toAgent))
        /\ UNCHANGED <<proj, hand, crossed, session, rx, lagged, agent, listener>>
    BY <1>3 DEF ReadEvent, hubVars, sessionVars, clientVars, processVars
  <2> QED BY <2>1, FollowedRelayed
<1>4. CASE ReadAnswer
  <2>1. /\ toAgent # <<>> /\ Head(toAgent).kind = "answer" /\ toAgent' = Tail(toAgent) /\ phase' = phase
        /\ UNCHANGED <<proj, hand, crossed, session, rx, lagged, inbox, agent, listener>>
    BY <1>4 DEF ReadAnswer, hubVars, sessionVars, processVars
  <2> QED BY <2>1, FollowedTaken
<1> QED BY <1>1, <1>2, <1>3, <1>4

(* What happens elsewhere: the calls, the supervisor, and the client that  *)
(* clears its queue.                                                       *)
LEMMA FollowedElsewhere ==
    ASSUME Followed,
           \/ \E c \in Calls : LateCall(c) \/ Call(c) \/ Enqueue(c)
           \/ ensure_running \/ TakeCommand \/ Disconnect
           \/ \E g \in Generations : Reap(g)
           \/ UNCHANGED vars
    PROVE  Followed'
<1>1. /\ UNCHANGED <<proj, hand, crossed, session, rx, lagged, toAgent, inbox, agent, listener>>
      /\ phase' = phase \/ (phase = "failing" /\ phase' = "down")
  BY DEF LateCall, Call, Enqueue, ensure_running, TakeCommand, Disconnect, Reap, vars,
         hubVars, sessionVars, wireVars, clientVars, processVars
<1>2. phase = "failing" => session # "open"
  BY DEF Followed, Opening
<1> QED BY <1>1, <1>2, FollowedSame

(* Every step of the link keeps the copy on its way to the original. *)
LEMMA FollowedStep == Followed /\ [Next]_vars => Followed'
<1> SUFFICES ASSUME Followed, [Next]_vars PROVE Followed'
  OBVIOUS
<1>1. ASSUME NEW p \in Publishers, (\E e \in Event : Publish(p, e)) \/ Broadcast(p) PROVE Followed'
  BY <1>1, FollowedPublished, FollowedBroadcast
<1>2. CASE Session
  BY <1>2, FollowedHello, FollowedSnapshot, FollowedCall, FollowedForward, FollowedEnd DEF Session
<1>3. CASE Client \/ Break
  BY <1>3, FollowedConnect, FollowedRead, FollowedEnd, FollowedElsewhere DEF Client, Lost, Break
<1>4. CASE Project
  BY <1>4, FollowedProjected
<1>5. ASSUME NEW c \in Calls, LateCall(c) \/ Call(c) \/ Enqueue(c) PROVE Followed'
  BY <1>5, FollowedElsewhere
<1>6. ASSUME NEW g \in Generations, Listen(g) \/ Die(g) \/ Reap(g) PROVE Followed'
  BY <1>6, FollowedListen, FollowedDie, FollowedElsewhere
<1>7. CASE UNCHANGED vars
  BY <1>7, FollowedElsewhere
<1> QED BY <1>1, <1>2, <1>3, <1>4, <1>5, <1>6, <1>7 DEF Next

(* Nothing on its way: the agent's copy is the projection, but for  *)
(* what was crossed.                                                       *)
LEMMA FollowedCurrent == Followed => ProjectionCurrent
<1> SUFFICES ASSUME Followed, phase = "up", session = "ready", ~lagged,
                    rx = <<>>, inbox = <<>>, toAgent = <<>>,
                    \A p \in Publishers : hand[p] = <<>>
             PROVE  agent.online /\ \A t \in Tasks \ crossed : agent.view[t] = proj[t]
  BY DEF ProjectionCurrent, Delivered
<1>1. ASSUME NEW t \in Tasks \ crossed PROVE agent.view[t] = proj[t]
  <2>1. Synced
    BY DEF Synced
  <2>2. PICK i \in Moves, w \in Moves, r \in Moves, h \in Moves :
        /\ Means(inbox, t, i)
        /\ Means(toAgent, t, w)
        /\ Means(rx, t, r)
        /\ Held(t, h)
        /\ h[r[w[i[agent.view[t]]]]] = proj[t]
    <3>1. Flow(t)
      BY DEF Followed
    <3> QED BY <2>1, <3>1 DEF Flow
  <2>3. i = Keep /\ w = Keep /\ r = Keep
    <3>1. Means(<<>>, t, i) /\ Means(<<>>, t, w) /\ Means(<<>>, t, r)
      BY <2>2
    <3> QED BY <3>1, NothingMeans
  <2>4. h = Keep
    BY <2>2 DEF Held, Holds
  <2>5. agent.view[t] \in Value
    BY Values DEF Followed
  <2> QED BY <2>2, <2>3, <2>4, <2>5, KeepIsMove
<1>2. agent.online
  <2>1. \A j \in DOMAIN inbox : FALSE
    OBVIOUS
  <2> QED BY <2>1 DEF Followed, Founded
<1> QED BY <1>1, <1>2

(* Whenever nothing is on its way, the agent's copy of a task is the       *)
(* daemon's own, unless news of that task crossed between the lock of      *)
(* publish and its send and no snapshot was taken since: for any number of *)
(* publishers that say anything of any task, or of all at once, however    *)
(* the daemon, the session and the client come and go, whenever the        *)
(* snapshot is taken and wherever the receiver falls behind, for any       *)
(* capacity of the channel and any number of events and faults.            *)
THEOREM AgentFollows == Spec => []ProjectionCurrent
<1>1. Init => Followed
  BY FollowedInit
<1>2. Followed /\ [Next]_vars => Followed'
  BY FollowedStep
<1>3. Followed => ProjectionCurrent
  BY FollowedCurrent
<1> QED BY <1>1, <1>2, <1>3, PTL DEF Spec

-----------------------------------------------------------------------------
(* The types *)

(* What neither the contract nor the projection needs. *)
Rest ==
    /\ session \in {"none", "open", "ready"}
    /\ Len(rx) <= Capacity
    /\ lagged \in BOOLEAN /\ connected \in BOOLEAN
    /\ listener \in children \cup {0}

(* One frame more in the receiver, in the place of the oldest if it is full. *)
LEMMA RestBroadcast ==
    ASSUME Sound, Rest, NEW p \in Publishers, Broadcast(p)
    PROVE  Rest'
<1>1. PICK e \in Event : hand[p] = <<e>>
  BY HeldEvent DEF Broadcast
<1>2. rx \in Seq(Event) /\ Capacity \in Nat \ {0} /\ Len(rx) <= Capacity
  BY LinkAssumption DEF Sound, Rest
<1>3. Len(rx \o <<e>>) = Len(rx) + 1
  BY <1>2
<1>4. rx # <<>> => Len(Tail(rx) \o <<e>>) = Len(rx)
  BY <1>2
<1>5. Len(rx') <= Capacity /\ lagged' \in BOOLEAN
  <2>1. CASE session # "ready"
    BY <2>1 DEF Broadcast, Rest
  <2>2. CASE session = "ready" /\ Len(rx) < Capacity
    <3>1. rx' = rx \o <<e>> /\ lagged' = lagged
      BY <1>1, <2>2 DEF Broadcast
    <3>2. Len(rx) \in Nat
      BY <1>2
    <3> QED BY <1>2, <1>3, <2>2, <3>1, <3>2 DEF Rest
  <2>3. CASE session = "ready" /\ ~(Len(rx) < Capacity)
    <3>1. rx' = Tail(rx) \o <<e>> /\ lagged' = TRUE
      BY <1>1, <2>3 DEF Broadcast
    <3>2. rx # <<>>
      BY <1>2, <2>3
    <3> QED BY <1>2, <1>4, <3>1, <3>2
  <2> QED BY <2>1, <2>2, <2>3
<1> QED BY <1>5 DEF Rest, Broadcast, clientVars, processVars

(* The other steps shorten the receiver or leave it as it is. *)
LEMMA RestStep == Sound /\ Rest /\ [Next]_vars => Rest'
<1> SUFFICES ASSUME Sound, Rest, [Next]_vars PROVE Rest'
  OBVIOUS
<1>1. rx' = <<>> => Len(rx') <= Capacity
  <2>1. Len(<<>>) = 0 /\ Capacity \in Nat
    BY LinkAssumption
  <2> QED BY <2>1
<1>0. rx \in Seq(Event) /\ Capacity \in Nat
  BY LinkAssumption DEF Sound
<1> USE DEF Rest
<1>2. CASE UNCHANGED <<sessionVars, connected, listener, children>>
  BY <1>2 DEF sessionVars
<1>3. ASSUME NEW p \in Publishers, (\E e \in Event : Publish(p, e)) \/ Broadcast(p) PROVE Rest'
  BY <1>2, <1>3, RestBroadcast DEF Publish, clientVars, processVars
<1>4. CASE Session
  <2>1. CASE Forward
    <3>1. Len(Tail(rx)) <= Len(rx) /\ Len(rx) \in Nat /\ Len(Tail(rx)) \in Nat
      BY <1>0, <2>1 DEF Forward
    <3> QED BY <1>0, <2>1, <3>1 DEF Forward, clientVars, processVars
  <2>2. CASE EventGap
    BY <1>1, <2>2 DEF EventGap, clientVars, processVars
  <2>3. CASE OnHello
    BY <2>3 DEF OnHello, clientVars, processVars
  <2>4. CASE OnSnapshot \/ OnCall
    BY <1>2, <2>4 DEF OnSnapshot, OnCall, clientVars, processVars
  <2> QED BY <1>4, <2>1, <2>2, <2>3, <2>4 DEF Session
<1>5. CASE Client \/ Break
  <2>1. CASE Transient \/ Fatal \/ Abandon
    BY <1>1, <2>1 DEF Transient, Fatal, Abandon, Hangup, clientVars, processVars
  <2>2. CASE Connect
    BY <1>1, <2>2 DEF Connect, processVars
  <2>3. CASE ensure_running
    BY <2>3 DEF ensure_running, sessionVars, clientVars
  <2>4. CASE SnapshotReply \/ Disconnect
    BY <2>4 DEF SnapshotReply, Disconnect, sessionVars, processVars
  <2>5. CASE HelloReply \/ TakeCommand \/ ReadEvent \/ ReadAnswer
    BY <1>2, <2>5 DEF HelloReply, TakeCommand, ReadEvent, ReadAnswer, clientVars, processVars
  <2> QED BY <1>5, <2>1, <2>2, <2>3, <2>4, <2>5 DEF Client, Lost, Break
<1>6. ASSUME NEW g \in Generations, Listen(g) \/ Die(g) \/ Reap(g) PROVE Rest'
  <2>1. CASE Listen(g)
    BY <2>1 DEF Listen, sessionVars, clientVars
  <2>2. CASE Die(g) /\ listener = g
    BY <1>1, <2>2 DEF Die, clientVars
  <2>3. CASE Die(g) /\ listener # g
    BY <2>3 DEF Die, sessionVars, clientVars
  <2>4. CASE Reap(g)
    BY <1>2, <2>4 DEF Reap, clientVars
  <2> QED BY <1>6, <2>1, <2>2, <2>3, <2>4
<1>7. ASSUME Project \/ \E c \in Calls : LateCall(c) \/ Call(c) \/ Enqueue(c) PROVE Rest'
  BY <1>2, <1>7 DEF Project, LateCall, Call, Enqueue, clientVars, processVars
<1> QED BY <1>2, <1>3, <1>4, <1>5, <1>6, <1>7 DEF Next, vars, processVars, clientVars

(* Every variable of the link keeps its type, and the receiver its bound. *)
THEOREM TypeCorrect == Spec => []TypeOK
<1>1. Init => Inv /\ Followed /\ Rest
  <2>1. Init => Rest
    <3>1. Len(<<>>) = 0 /\ Capacity \in Nat /\ 0 <= Capacity
      BY LinkAssumption
    <3> QED BY <3>1 DEF Init, Rest
  <2> QED BY <2>1, InvInit, FollowedInit
<1>2. Inv /\ Followed /\ Rest /\ [Next]_vars => Inv' /\ Followed' /\ Rest'
  BY LinkStep, FollowedStep, RestStep DEF Good, Followed
<1>3. Inv /\ Followed /\ Rest => TypeOK
  <2> SUFFICES ASSUME Inv, Sound, Rest PROVE TypeOK
    BY DEF Followed
  <2>1. In(commands) \cup pending \cup late \subseteq Calls
    BY DEF Inv, Typed, In
  <2>2. executed \in [Calls -> Nat]
    BY DEF Inv, Typed
  <2>3. agent.view \in Projection /\ agent.online \in BOOLEAN
    BY DEF Sound
  <2> QED BY <2>1, <2>2, <2>3 DEF TypeOK, Inv, Typed, Sound, Rest
<1> QED BY <1>1, <1>2, <1>3, PTL DEF Spec
=============================================================================

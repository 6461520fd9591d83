----------------------------- MODULE DaemonLink -----------------------------
(***************************************************************************)
(* The link between rinadown-agent and rinadownd: the daemon's event hub   *)
(* (daemon/src/event_hub.rs), the socket loop and the session that serve   *)
(* the agent (daemon/src/http.rs, daemon/src/rpc.rs), the agent's client   *)
(* and its reconnection loop (agent/src/daemon_client.rs), the supervisor  *)
(* that starts the daemon (agent/src/supervisor.rs) and the task that      *)
(* keeps the agent's copy of the daemon's state (agent/src/runtime.rs,     *)
(* agent/src/event_hub.rs).                                                *)
(*                                                                         *)
(* Processes, each a tokio task of its own: the publishers of the daemon,  *)
(* the session, the client, the projector, the callers, the supervisor's   *)
(* reaper; and the daemon process, which may die at any time.              *)
(*                                                                         *)
(* Left out: epoch and sequence of a frame (the agent reads neither), the  *)
(* length of the back-off, the capacity of the agent's own channels, the   *)
(* bearer token, every field of a task but its status, and the projections *)
(* of queues, groups, RSS, plugins and selections.                         *)
(***************************************************************************)
EXTENDS Naturals, Sequences, FiniteSets

CONSTANTS
    Tasks,          \* tasks of the daemon
    Statuses,       \* what an event can say of a task
    Absent,         \* the task is not in the projection
    Publishers,     \* tasks of the daemon that call publish
    Kinds,          \* which events are published
    Loadable,       \* projections the database may give a starting daemon
    Calls,          \* one call of DaemonClient::call each
    Capacity,       \* of the broadcast channel (1024 in the program)
    MaxPublished,   \* bound: events published
    Faults,         \* what may go wrong: "die", "spawn", "reject", "break"
    MaxFaults       \* bound: how often

ASSUME LinkAssumption ==
    /\ Absent \notin Statuses
    /\ Kinds \subseteq {"changed", "deleted", "progress", "list"}
    /\ Loadable \subseteq [Tasks -> Statuses \cup {Absent}]
    /\ {"hello", "snapshot"} \cap Calls = {}
    /\ Capacity \in Nat \ {0}
    /\ MaxPublished \in Nat /\ MaxFaults \in Nat

VARIABLES
    proj,       \* EventState::snapshot of the daemon: task -> status
    hand,       \* publisher -> frames it has applied and not yet broadcast
    crossed,    \* history: tasks two publishers held a frame about at once
    session,    \* the daemon's end of the socket: "none", "open", "ready"
    rx,         \* frames in the session's broadcast receiver
    lagged,     \* that receiver has lost a frame
    toDaemon,   \* requests on the wire
    toAgent,    \* replies, notifications and the end of the stream on the wire
    late,       \* calls a session without a client may still read
    phase,      \* where run_client is
    connected,  \* DaemonClient::connected
    commands,   \* the queue of ClientCommands
    pending,    \* calls sent and not answered
    inbox,      \* DaemonClientEvents on their way to the projector
    agent,      \* the agent's copy of proj, and daemon_connected
    call,       \* call -> where its caller stands
    executed,   \* call -> how often the daemon executed it
    running,    \* SupervisorState::running
    gen,        \* SupervisorState::generation
    children,   \* generations of the daemon processes that live
    listener,   \* the one that accepts connections, or 0
    exited,     \* generations that ended and were not reaped
    published, faults

hubVars == <<proj, hand, crossed, published>>
sessionVars == <<session, rx, lagged>>
wireVars == <<toDaemon, toAgent, late>>
clientVars == <<phase, connected, commands, pending>>
callVars == <<call, executed>>
processVars == <<running, gen, children, listener, exited>>
vars == <<hubVars, sessionVars, wireVars, clientVars, inbox, agent, callVars, processVars, faults>>

Projection == [Tasks -> Statuses \cup {Absent}]
Event ==
    [kind : Kinds \ {"list"}, task : Tasks, status : Statuses]
        \cup [kind : Kinds \cap {"list"}, body : Projection]
Phase == {"down", "hello", "snapshot", "up", "failing", "fatal"}
CallState == {"idle", "checked", "queued", "ok", "unavailable", "refused"}

Close == [kind |-> "close"]
Hello == [kind |-> "hello"]
Empty == [t \in Tasks |-> Absent]

Init ==
    /\ proj = Empty
    /\ hand = [p \in Publishers |-> <<>>] /\ crossed = {}
    /\ session = "none" /\ rx = <<>> /\ lagged = FALSE
    /\ toDaemon = <<>> /\ toAgent = <<>> /\ late = {}
    /\ phase = "down" /\ connected = FALSE /\ commands = <<>> /\ pending = {}
    /\ inbox = <<>>
    /\ agent = [view |-> Empty, online |-> FALSE]
    /\ call = [c \in Calls |-> "idle"]
    /\ executed = [c \in Calls |-> 0]
    /\ running = FALSE /\ gen = 0 /\ children = {} /\ listener = 0 /\ exited = {}
    /\ published = 0 /\ faults = 0

alive == listener # 0

Fault(f) == f \in Faults /\ faults < MaxFaults /\ faults' = faults + 1

-----------------------------------------------------------------------------
(* The daemon's event hub *)

(* What an event does to a projection.  The agent's hub (agent/src/        *)
(* event_hub.rs) lacks the messages for a missing file and for a priority; *)
(* to the status of a task it does the same.  A progress message moves a   *)
(* task that is there and never adds one; TasksSnapshot and                *)
(* SnapshotReplaced set all tasks at once.                                 *)
apply_event(s, e) ==
    CASE e.kind = "list"     -> e.body
      [] e.kind = "changed"  -> [s EXCEPT ![e.task] = e.status]
      [] e.kind = "deleted"  -> [s EXCEPT ![e.task] = Absent]
      [] e.kind = "progress" -> [s EXCEPT ![e.task] = IF @ = Absent THEN Absent ELSE e.status]

(* The tasks an event is about, and those in the hand of a publisher. *)
About(e) == IF e.kind = "list" THEN Tasks ELSE {e.task}

Holds(p, t) == hand[p] # <<>> /\ t \in About(Head(hand[p]))

(* DaemonEventHub::publish, the part under the lock.  Any publisher may    *)
(* say anything of any task: the actor and the progress reporter publish   *)
(* the same ones.                                                          *)
Publish(p, e) ==
    /\ alive /\ hand[p] = <<>> /\ published < MaxPublished
    /\ proj' = apply_event(proj, e)
    /\ hand' = [hand EXCEPT ![p] = <<e>>]
    /\ crossed' = crossed \cup {t \in About(e) : \E q \in Publishers : Holds(q, t)}
    /\ published' = published + 1
    /\ UNCHANGED <<sessionVars, wireVars, clientVars, inbox, agent, callVars, processVars, faults>>

(* The send comes after it, so that frames of two publishers may go out    *)
(* in the other order.  The oldest frame makes room for the newest.        *)
Broadcast(p) ==
    /\ hand[p] # <<>>
    /\ hand' = [hand EXCEPT ![p] = <<>>]
    /\ IF session # "ready" THEN UNCHANGED <<rx, lagged>>
       ELSE IF Len(rx) < Capacity THEN rx' = rx \o hand[p] /\ UNCHANGED lagged
       ELSE rx' = Tail(rx) \o hand[p] /\ lagged' = TRUE
    /\ UNCHANGED <<proj, crossed, published, session, wireVars, clientVars, inbox, agent, callVars, processVars, faults>>

-----------------------------------------------------------------------------
(* The session: run_socket and RpcSession *)

(* What the session writes reaches the client unless it has gone. *)
Say(m) == toAgent' = Append(toAgent, m)

(* handle_hello and the subscription that follows it. *)
OnHello ==
    /\ session = "open" /\ toDaemon # <<>> /\ Head(toDaemon) = "hello"
    /\ toDaemon' = Tail(toDaemon)
    /\ \/ session' = "ready" /\ Say(Hello) /\ UNCHANGED faults
       \/ UNCHANGED session /\ Say([kind |-> "failure"]) /\ Fault("reject")
    /\ UNCHANGED <<hubVars, rx, lagged, late, clientVars, inbox, agent, callVars, processVars>>

(* (Whatever was crossed before is right again in what the client gets,    *)
(* but for the tasks of frames that are still to follow.)                  *)
OnSnapshot ==
    /\ session = "ready" /\ toDaemon # <<>> /\ Head(toDaemon) = "snapshot"
    /\ toDaemon' = Tail(toDaemon)
    /\ Say([kind |-> "snapshot", body |-> proj])
    /\ crossed' = {t \in crossed : \/ \E p \in Publishers : Holds(p, t)
                                   \/ \E i \in DOMAIN rx : t \in About(rx[i])}
    /\ UNCHANGED <<proj, hand, published, sessionVars, late, clientVars, inbox, agent, callVars, processVars, faults>>

OnCall ==
    /\ session = "ready" /\ toDaemon # <<>>
    /\ LET c == Head(toDaemon) IN
        /\ c \in Calls
        /\ executed' = [executed EXCEPT ![c] = @ + 1]
        /\ Say([kind |-> "answer", call |-> c])
    /\ toDaemon' = Tail(toDaemon)
    /\ UNCHANGED <<hubVars, sessionVars, late, clientVars, inbox, agent, call, processVars, faults>>

(* receive_event and send_event *)
Forward ==
    /\ session = "ready" /\ ~lagged /\ rx # <<>>
    /\ rx' = Tail(rx)
    /\ Say([kind |-> "event", event |-> Head(rx)])
    /\ UNCHANGED <<hubVars, session, lagged, toDaemon, late, clientVars, inbox, agent, callVars, processVars, faults>>

(* Mutant: a receiver that fell behind goes on with what is left. *)
EventGap_GoesOn ==
    /\ session = "ready" /\ lagged
    /\ lagged' = FALSE
    /\ UNCHANGED <<hubVars, session, rx, wireVars, clientVars, inbox, agent, callVars, processVars, faults>>

(* RecvError::Lagged: close 4009, and what was not read yet is lost. *)
EventGap ==
    /\ session = "ready" /\ lagged
    /\ session' = "none" /\ rx' = <<>> /\ lagged' = FALSE
    /\ Say(Close)
    /\ toDaemon' = <<>>
    /\ UNCHANGED <<hubVars, late, clientVars, inbox, agent, callVars, processVars, faults>>

Session == OnHello \/ OnSnapshot \/ OnCall \/ Forward \/ EventGap

(* A session whose client has gone still reads what had reached it. *)
LateCall(c) ==
    /\ alive /\ c \in late
    /\ late' = late \ {c}
    /\ executed' = [executed EXCEPT ![c] = @ + 1]
    /\ UNCHANGED <<hubVars, sessionVars, toDaemon, toAgent, clientVars, inbox, agent, call, processVars, faults>>

-----------------------------------------------------------------------------
(* The client: run_client, connect, run_connected *)

(* The client drops its socket; the session finds out on its own. *)
Hangup ==
    /\ session' = "none" /\ rx' = <<>> /\ lagged' = FALSE
    /\ toDaemon' = <<>> /\ toAgent' = <<>>
    /\ late' = late \cup {toDaemon[i] : i \in {j \in DOMAIN toDaemon : toDaemon[j] \in Calls}}

(* A request written when the other end has gone is lost. *)
Ask(m) == toDaemon' = IF session = "none" THEN toDaemon ELSE Append(toDaemon, m)

Connect ==
    /\ phase = "down" /\ alive
    /\ phase' = "hello"
    /\ session' = "open" /\ rx' = <<>> /\ lagged' = FALSE
    /\ toDaemon' = <<"hello">> /\ toAgent' = <<>>
    /\ UNCHANGED <<hubVars, late, connected, commands, pending, inbox, agent, callVars, processVars, faults>>

(* Mutant: every refused connection starts a daemon. *)
ensure_running_Always ==
    /\ phase = "down" /\ ~alive
    /\ gen <= MaxFaults
    /\ running' = TRUE
    /\ gen' = gen + 1
    /\ children' = children \cup {gen + 1}
    /\ UNCHANGED <<hubVars, sessionVars, wireVars, clientVars, inbox, agent, callVars, listener, exited, faults>>

(* ConnectError::Refused and DaemonSupervisor::ensure_running *)
ensure_running ==
    /\ phase = "down" /\ ~alive
    /\ ~running
    /\ \/ /\ running' = TRUE
          /\ gen' = gen + 1
          /\ children' = children \cup {gen + 1}
          /\ UNCHANGED faults
       \/ Fault("spawn") /\ UNCHANGED <<running, gen, children>>
    /\ UNCHANGED <<hubVars, sessionVars, wireVars, clientVars, inbox, agent, callVars, listener, exited>>

HelloReply ==
    /\ phase = "hello" /\ toAgent # <<>> /\ Head(toAgent) = Hello
    /\ phase' = "snapshot"
    /\ toAgent' = Tail(toAgent)
    /\ Ask("snapshot")
    /\ UNCHANGED <<hubVars, sessionVars, late, connected, commands, pending, inbox, agent, callVars, processVars, faults>>

SnapshotReply ==
    /\ phase = "snapshot" /\ toAgent # <<>> /\ Head(toAgent).kind = "snapshot"
    /\ phase' = "up"
    /\ connected' = TRUE
    /\ toAgent' = Tail(toAgent)
    /\ inbox' = Append(inbox, Head(toAgent))
    /\ UNCHANGED <<hubVars, sessionVars, toDaemon, late, commands, pending, agent, callVars, processVars, faults>>

(* A notification does not parse as a reply, so that one which overtakes   *)
(* the snapshot ends the attempt, like the end of the stream.              *)
Transient ==
    /\ phase \in {"hello", "snapshot"} /\ toAgent # <<>>
    /\ Head(toAgent).kind \in {"event", "close"}
    /\ phase' = "down"
    /\ Hangup
    /\ UNCHANGED <<hubVars, connected, commands, pending, inbox, agent, callVars, processVars, faults>>

(* Tell the callers in C that the daemon is unavailable. *)
Unavailable(C) == call' = [c \in Calls |-> IF c \in C THEN "unavailable" ELSE call[c]]

(* The elements of a queue. *)
In(q) == {q[i] : i \in DOMAIN q}

(* ConnectError::Fatal: run_client returns and its receiver goes with it. *)
Fatal ==
    /\ phase \in {"hello", "snapshot"} /\ toAgent # <<>> /\ Head(toAgent).kind = "failure"
    /\ phase' = "fatal"
    /\ inbox' = Append(inbox, [kind |-> "fatal"])
    /\ commands' = <<>>
    /\ Unavailable(In(commands))
    /\ Hangup
    /\ UNCHANGED <<hubVars, connected, pending, agent, executed, processVars, faults>>

TakeCommand ==
    /\ phase = "up" /\ commands # <<>>
    /\ pending' = pending \cup {Head(commands)}
    /\ commands' = Tail(commands)
    /\ Ask(Head(commands))
    /\ UNCHANGED <<hubVars, sessionVars, toAgent, late, phase, connected, inbox, agent, callVars, processVars, faults>>

ReadEvent ==
    /\ phase = "up" /\ toAgent # <<>> /\ Head(toAgent).kind = "event"
    /\ inbox' = Append(inbox, Head(toAgent))
    /\ toAgent' = Tail(toAgent)
    /\ UNCHANGED <<hubVars, sessionVars, toDaemon, late, clientVars, agent, callVars, processVars, faults>>

ReadAnswer ==
    /\ phase = "up" /\ toAgent # <<>> /\ Head(toAgent).kind = "answer"
    /\ LET c == Head(toAgent).call IN
        /\ pending' = pending \ {c}
        /\ call' = IF c \in pending THEN [call EXCEPT ![c] = "ok"] ELSE call
    /\ toAgent' = Tail(toAgent)
    /\ UNCHANGED <<hubVars, sessionVars, toDaemon, late, phase, connected, commands, inbox, agent, executed, processVars, faults>>

(* Mutant: what was not answered is asked again after the reconnection. *)
Lost_Retries ==
    /\ phase = "up"
    /\ toAgent # <<>> /\ Head(toAgent) = Close
    /\ phase' = "down"
    /\ pending' = {}
    /\ commands' = IF pending = {} THEN commands ELSE commands \o <<CHOOSE c \in pending : TRUE>>
    /\ connected' = FALSE
    /\ inbox' = Append(inbox, [kind |-> "stale"])
    /\ Hangup
    /\ UNCHANGED <<hubVars, agent, callVars, processVars, faults>>

(* run_connected ends.  Who waits for an answer is told, the projector too. *)
Abandon ==
    /\ phase' = "failing"
    /\ pending' = {}
    /\ Unavailable(pending)
    /\ inbox' = Append(inbox, [kind |-> "stale"])
    /\ Hangup
    /\ UNCHANGED <<hubVars, connected, commands, agent, executed, processVars>>

(* The stream is over, or a write failed because the other end had gone. *)
Lost ==
    /\ phase = "up"
    /\ \/ toAgent # <<>> /\ Head(toAgent) = Close
       \/ session = "none" /\ pending # {}
    /\ Abandon
    /\ UNCHANGED faults

(* The socket reports an error although the session is still there. *)
Break ==
    /\ phase = "up" /\ Fault("break")
    /\ Abandon

(* connected.store(false) and fail_queued_commands *)
Disconnect ==
    /\ phase = "failing"
    /\ phase' = "down"
    /\ connected' = FALSE
    /\ commands' = <<>>
    /\ Unavailable(In(commands))
    /\ UNCHANGED <<hubVars, sessionVars, wireVars, pending, inbox, agent, executed, processVars, faults>>

Client ==
    \/ Connect \/ ensure_running \/ HelloReply \/ SnapshotReply \/ Transient \/ Fatal
    \/ TakeCommand \/ ReadEvent \/ ReadAnswer \/ Lost \/ Disconnect

-----------------------------------------------------------------------------
(* The callers: DaemonClient::call *)

(* The test of `connected` ... *)
Call(c) ==
    /\ call[c] = "idle"
    /\ call' = [call EXCEPT ![c] = IF connected THEN "checked" ELSE "refused"]
    /\ UNCHANGED <<hubVars, sessionVars, wireVars, clientVars, inbox, agent, executed, processVars, faults>>

(* ... and the command, which may be queued after the connection was lost. *)
Enqueue(c) ==
    /\ call[c] = "checked"
    /\ IF phase = "fatal"
       THEN call' = [call EXCEPT ![c] = "unavailable"] /\ UNCHANGED commands
       ELSE call' = [call EXCEPT ![c] = "queued"] /\ commands' = Append(commands, c)
    /\ UNCHANGED <<hubVars, sessionVars, wireVars, phase, connected, pending, inbox, agent, executed, processVars, faults>>

-----------------------------------------------------------------------------
(* The projector: spawn_daemon_projection and AgentEventHub *)
Project ==
    /\ inbox # <<>>
    /\ inbox' = Tail(inbox)
    /\ LET m == Head(inbox) IN
        agent' = CASE m.kind = "snapshot" -> [view |-> m.body, online |-> TRUE]
                   [] m.kind = "event"    -> [agent EXCEPT !.view = apply_event(@, m.event)]
                   [] OTHER               -> [agent EXCEPT !.online = FALSE]
    /\ UNCHANGED <<hubVars, sessionVars, wireVars, clientVars, callVars, processVars, faults>>

-----------------------------------------------------------------------------
(* The daemon process *)

(* A daemon that started loads its projection from the database, whatever  *)
(* that holds by then, and begins to listen.                               *)
Listen(g) ==
    /\ g \in children /\ listener = 0
    /\ listener' = g
    /\ proj' \in Loadable /\ crossed' = {}
    /\ UNCHANGED <<hand, published, sessionVars, wireVars, clientVars, inbox, agent, callVars, running, gen, children, exited, faults>>

(* A crash, or a shutdown: the client may still read what was sent. *)
Die(g) ==
    /\ Fault("die")
    /\ g \in children
    /\ children' = children \ {g}
    /\ exited' = exited \cup {g}
    /\ IF listener = g
       THEN /\ listener' = 0
            /\ hand' = [p \in Publishers |-> <<>>]
            /\ session' = "none" /\ rx' = <<>> /\ lagged' = FALSE
            /\ toDaemon' = <<>> /\ late' = {}
            /\ \E n \in 0..Len(toAgent) :
                  toAgent' = IF session = "none" THEN toAgent ELSE Append(SubSeq(toAgent, 1, n), Close)
       ELSE UNCHANGED <<listener, hand, sessionVars, wireVars>>
    /\ UNCHANGED <<proj, crossed, published, clientVars, inbox, agent, callVars, running, gen>>

(* Mutant: the reaper compares with the next generation. *)
Reap_OffByOne(g) ==
    /\ g \in exited
    /\ exited' = exited \ {g}
    /\ running' = IF gen = g + 1 THEN FALSE ELSE running
    /\ UNCHANGED <<hubVars, sessionVars, wireVars, clientVars, inbox, agent, callVars, gen, children, listener, faults>>

(* The supervisor's reaper task. *)
Reap(g) ==
    /\ g \in exited
    /\ exited' = exited \ {g}
    /\ running' = IF gen = g THEN FALSE ELSE running
    /\ UNCHANGED <<hubVars, sessionVars, wireVars, clientVars, inbox, agent, callVars, gen, children, listener, faults>>

Generations == 1..MaxFaults + 1

Next ==
    \/ \E p \in Publishers : (\E e \in Event : Publish(p, e)) \/ Broadcast(p)
    \/ Session
    \/ \E c \in Calls : LateCall(c) \/ Call(c) \/ Enqueue(c)
    \/ Client \/ Break
    \/ Project
    \/ \E g \in Generations : Listen(g) \/ Die(g) \/ Reap(g)

Spec == Init /\ [][Next]_vars

(* Every tokio task that can go on does; a started daemon gets to listen.  *)
(* Nothing is assumed of the publishers and the callers beyond the step    *)
(* they are in, and nothing of the calls an abandoned session may read.    *)
Fairness ==
    /\ \A p \in Publishers : WF_vars(Broadcast(p))
    /\ WF_vars(Session) /\ WF_vars(Client) /\ WF_vars(Project)
    /\ \A c \in Calls : WF_vars(Enqueue(c))
    /\ \A g \in Generations : WF_vars(Listen(g)) /\ WF_vars(Reap(g))

FairSpec == Spec /\ Fairness

-----------------------------------------------------------------------------
TypeOK ==
    /\ proj \in Projection
    /\ hand \in [Publishers -> {<<>>} \cup {<<e>> : e \in Event}] /\ crossed \subseteq Tasks
    /\ session \in {"none", "open", "ready"}
    /\ Len(rx) <= Capacity /\ lagged \in BOOLEAN
    /\ phase \in Phase /\ connected \in BOOLEAN
    /\ In(commands) \cup pending \cup late \subseteq Calls
    /\ agent.view \in Projection /\ agent.online \in BOOLEAN
    /\ call \in [Calls -> CallState]
    /\ executed \in [Calls -> Nat]
    /\ listener \in children \cup {0}

(* Nothing is on its way to the agent any more. *)
Delivered ==
    /\ phase = "up" /\ session = "ready" /\ ~lagged
    /\ rx = <<>> /\ inbox = <<>> /\ toAgent = <<>>
    /\ \A p \in Publishers : hand[p] = <<>>

(***************************************************************************)
(* Once nothing is on its way any more, the agent's copy says of a task    *)
(* what the daemon's projection says, unless two publishers stood between  *)
(* the lock and the send with news of that task at once, and no snapshot   *)
(* has been taken since.  So no event is lost between the subscription     *)
(* and the snapshot, none does harm by coming twice, a snapshot repairs    *)
(* what was crossed before it, and a receiver that fell behind reconnects  *)
(* instead of going on with a hole.                                        *)
(***************************************************************************)
ProjectionCurrent ==
    Delivered => agent.online /\ \A t \in Tasks \ crossed : agent.view[t] = proj[t]

(***************************************************************************)
(* What the comments of the hub promise, the same of every task (it        *)
(* "linearizes the daemon's snapshot and its events", event_hub.rs:23, at  *)
(* one "synchronisation boundary", :1), and what the code does not keep:   *)
(* the lock is that of the projection alone, the send comes after it, and  *)
(* the agent reads no sequence.  ProjectionCurrent says what is left of it. *)
(***************************************************************************)
Linearized == Delivered => agent.view = proj

(***************************************************************************)
(* The supervisor never has two daemons: refused connections while one is  *)
(* still starting do not start another, and the reaper of an old process   *)
(* does not make the supervisor forget a younger one.                      *)
(***************************************************************************)
OneDaemon == Cardinality(children) <= 1

(***************************************************************************)
(* However the daemon dies and events overflow, the client comes back: it  *)
(* is connected again and again, or the daemon has refused it for good.    *)
(* (Events that keep overtaking the snapshot could starve it; here they    *)
(* are finitely many.)                                                     *)
(***************************************************************************)
Reconnects == []<>(phase \in {"up", "fatal"})

(***************************************************************************)
(* To its callers the client keeps the contract of RemoteCall: one outcome *)
(* for each call, at most one execution, no answer without an execution,   *)
(* and nobody waits for ever.                                              *)
(***************************************************************************)
RC == INSTANCE RemoteCall WITH
        outcome <- [c \in Calls |-> IF call[c] \in {"checked", "queued"} THEN "waiting" ELSE call[c]]

CallContract == RC!Spec
=============================================================================

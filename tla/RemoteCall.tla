----------------------------- MODULE RemoteCall -----------------------------
(***************************************************************************)
(* What the agent promises to the callers of DaemonClient::call (the       *)
(* gateway, the native messaging host, the background workers), without a  *)
(* word on sockets, queues or reconnections.                               *)
(*                                                                         *)
(* A call is refused at once, or it waits and then gets one outcome: the   *)
(* daemon's answer, or "unavailable".  The daemon executes a call at most  *)
(* once, never if it was refused, and before any answer to it; after an    *)
(* "unavailable" it may still do so.                                       *)
(***************************************************************************)
EXTENDS Naturals

CONSTANT Calls

VARIABLES
    outcome,    \* call -> what its caller has been told
    executed    \* call -> how often the daemon has executed it

vars == <<outcome, executed>>

Outcome == {"idle", "waiting", "ok", "unavailable", "refused"}

TypeOK == outcome \in [Calls -> Outcome] /\ executed \in [Calls -> {0, 1}]

Init ==
    /\ outcome = [c \in Calls |-> "idle"]
    /\ executed = [c \in Calls |-> 0]

Tell(c, from, to) ==
    /\ outcome[c] = from
    /\ outcome' = [outcome EXCEPT ![c] = to]
    /\ UNCHANGED executed

Refuse(c) == Tell(c, "idle", "refused")

Ask(c) == Tell(c, "idle", "waiting")

Execute(c) ==
    /\ outcome[c] \in {"waiting", "unavailable"}
    /\ executed[c] = 0
    /\ executed' = [executed EXCEPT ![c] = 1]
    /\ UNCHANGED outcome

Answer(c) == executed[c] = 1 /\ Tell(c, "waiting", "ok")

(* When the connection is lost, everybody who waits is told in one step. *)
GiveUpAll(C) ==
    /\ \A c \in C : outcome[c] = "waiting"
    /\ outcome' = [c \in Calls |-> IF c \in C THEN "unavailable" ELSE outcome[c]]
    /\ UNCHANGED executed

Next ==
    \/ \E c \in Calls : Refuse(c) \/ Ask(c) \/ Execute(c) \/ Answer(c)
    \/ \E C \in SUBSET Calls : GiveUpAll(C)

(* A caller does not wait for ever. *)
Fairness == \A c \in Calls : WF_vars(Answer(c) \/ \E C \in SUBSET Calls : c \in C /\ GiveUpAll(C))

Spec == Init /\ [][Next]_vars /\ Fairness
=============================================================================

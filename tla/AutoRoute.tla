------------------------------ MODULE AutoRoute ------------------------------
(***************************************************************************)
(* ProxyMode::Auto: which link a download takes, the direct one or one of  *)
(* the candidate proxies, and what is remembered of it for the other       *)
(* downloads from the same host.                                           *)
(*                                                                         *)
(* Three parts act on the same memory: the manager, which decides at start *)
(* and at resume (auto_route_decision) and moves a download that failed to *)
(* a link it has not tried (on_task_done); the coordinator of a running    *)
(* download, which samples the proxies and switches to a faster one        *)
(* (AutoSwitchState of auto_proxy.rs); and the priors of route_health.rs.  *)
(*                                                                         *)
(* One host.  Time is abstracted: a lease, a cool-down, a prior may expire *)
(* at any moment, and `recent` says whether the last confirmation is less  *)
(* than 12 h old.  The copy of the priors in the config table, the speed   *)
(* of a sample and the text of an error are left out.                      *)
(***************************************************************************)
EXTENDS Naturals, FiniteSets

CONSTANTS
    Tasks,
    Sources,        \* CandidateSource: the manual fields, the system's proxy
    Found,          \* what resolve_candidates may find at first
    MaxExtras       \* bound: user commands, new networks, common retries and
                    \*   clients that cannot be built
ASSUME RouteAssumption ==
    /\ Sources \subseteq {"manual", "system"}
    /\ Found \subseteq SUBSET Sources
    /\ MaxExtras \in Nat

VARIABLES
    cands,      \* the sources resolve_candidates finds now
    cache,      \* DecisionCache: a source, "cooldown", "noswitch" or "none"
    prior,      \* the HostRoute of the host
    st,         \* task -> where it stands
    route,      \* task -> the link its new requests take, "fallback" for
                \*   the global client when the one of its link is not built
    label,      \* task -> the link tasks.auto_route names, "none" for ""
    partial,    \* task -> bytes of it are on the disk
    ctx,        \* task -> its AutoProxyCtx: candidates, require_validation
    phase,      \* task -> Phase of its AutoSwitchState, "none" when it has done
    attempts,   \* task -> links AutoFailoverAttempts has marked
    pending,    \* task -> AutoFailoverTarget, or "none"
    tried,      \* task -> links it failed on since its budget began
    evidence,   \* a proxy has proved itself since the last one failed
    extras

managerVars == <<attempts, pending, tried>>
taskVars == <<st, route, label, partial, ctx, phase>>
vars == <<cands, cache, prior, taskVars, managerVars, evidence, extras>>

Links == Sources \cup {"direct"}
NoCtx == [cands |-> {}, validate |-> FALSE]
NoPrior == [n |-> 0, recent |-> FALSE, proxy |-> FALSE, win |-> FALSE, cool |-> FALSE, nosw |-> FALSE]

Init ==
    /\ cands \in Found
    /\ cache = "none" /\ prior = NoPrior
    /\ st = [t \in Tasks |-> "new"]
    /\ route = [t \in Tasks |-> "direct"]
    /\ label = [t \in Tasks |-> "none"]
    /\ partial = [t \in Tasks |-> FALSE]
    /\ ctx = [t \in Tasks |-> NoCtx]
    /\ phase = [t \in Tasks |-> "none"]
    /\ attempts = [t \in Tasks |-> {}]
    /\ pending = [t \in Tasks |-> "none"]
    /\ tried = [t \in Tasks |-> {}]
    /\ evidence = FALSE
    /\ extras = 0

Extra == extras < MaxExtras /\ extras' = extras + 1

-----------------------------------------------------------------------------
(* route_health.rs *)

(* bump_proxy_confirm: a confirmation counts once in 12 h.  Two are as     *)
(* good as more, and then it does not matter when the last one was.        *)
Confirm(p) ==
    LET n == IF p.recent \/ p.n = 2 THEN p.n ELSE p.n + 1
    IN [p EXCEPT !.n = n, !.recent = n < 2, !.proxy = TRUE]

(* prune, which persist runs after every record: with the win go the rest. *)
prune(p) == IF p.proxy THEN p ELSE [p EXCEPT !.n = 0, !.recent = FALSE, !.win = FALSE]

record_proxy_win(p) == [Confirm(p) EXCEPT !.win = TRUE, !.cool = FALSE]
touch_proxy_route(p) == Confirm(p)

record_cooldown(p) == prune([p EXCEPT !.cool = TRUE])
record_no_switch(p) == prune([p EXCEPT !.nosw = TRUE])

(* Mutant: the confirmations stay. *)
clear_proxy_prior_KeepsCount(p) == p

clear_proxy_prior(p) == prune([p EXCEPT !.proxy = FALSE])

hint_for(p) ==
    IF p.nosw \/ p.cool THEN "suppress"
    ELSE IF ~p.proxy THEN "none"
    ELSE IF p.n >= 2 /\ p.win THEN "adopt" ELSE "fast"

(* Time passes: a lease or a prior runs out, the next day begins. *)
Expire ==
    /\ \/ cache # "none" /\ cache' = "none" /\ UNCHANGED prior
       \/ UNCHANGED cache /\ \E f \in {"recent", "proxy", "win", "cool", "nosw"} :
             prior[f] /\ prior' = [prior EXCEPT ![f] = FALSE]
    /\ UNCHANGED <<cands, taskVars, managerVars, evidence, extras>>

-----------------------------------------------------------------------------
(* The decision at start and at resume: auto_route_decision *)

(* What a start settles on. *)
Plan(link, c) == [link |-> link, ctx |-> c]

auto_route_decision(has_partial, forced) ==
    IF forced = "direct" \/ cands = {} \/ (forced # "none" /\ forced \notin cands)
    THEN Plan("direct", NoCtx)
    ELSE IF forced # "none" THEN Plan(forced, NoCtx)
    ELSE IF cache \in cands /\ ~has_partial THEN Plan(cache, NoCtx)
    ELSE IF hint_for(prior) = "suppress" THEN Plan("direct", NoCtx)
    ELSE IF hint_for(prior) = "adopt" /\ ~has_partial /\ Cardinality(cands) = 1
    THEN Plan(CHOOSE s \in cands : TRUE, NoCtx)
    ELSE Plan("direct", [cands |-> cands, validate |-> has_partial])

(* The download of t begins on the link of the plan.  At a resume the      *)
(* label is stored before the client is built; a client that cannot be     *)
(* built is replaced by the global one, which is direct.                   *)
Launch(t, plan, resumed, built) ==
    /\ st' = [st EXCEPT ![t] = "running"]
    /\ ctx' = [ctx EXCEPT ![t] = plan.ctx]
    /\ phase' = [phase EXCEPT ![t] = IF plan.ctx = NoCtx THEN "none" ELSE "idle"]
    /\ built \/ plan.link # "direct"
    /\ route' = [route EXCEPT ![t] = IF built THEN plan.link ELSE "fallback"]
    /\ label' = [label EXCEPT ![t] = IF built \/ resumed THEN plan.link ELSE "none"]
    /\ UNCHANGED partial

(* do_start_task *)
Start(t, built) ==
    /\ st[t] = "new"
    /\ Launch(t, auto_route_decision(FALSE, "none"), FALSE, built)
    /\ IF built THEN UNCHANGED extras ELSE Extra
    /\ UNCHANGED <<cands, cache, prior, managerVars, evidence>>

(* do_resume_task, which takes the pending target.  A proxy that has gone  *)
(* in the meantime has had its turn.                                       *)
Resume(t, built) ==
    /\ Launch(t, auto_route_decision(partial[t], pending[t]), TRUE, built)
    /\ pending' = [pending EXCEPT ![t] = "none"]

TurnPassed(t) == IF pending[t] \in Sources \ cands THEN {pending[t]} ELSE {}

(* The scheduled retry: resume_task_auto *)
Retry(t, built) ==
    /\ st[t] = "retry"
    /\ Resume(t, built)
    /\ IF built THEN UNCHANGED extras ELSE Extra
    /\ tried' = [tried EXCEPT ![t] = @ \cup TurnPassed(t)]
    /\ UNCHANGED <<cands, cache, prior, attempts, evidence>>

-----------------------------------------------------------------------------
(* The coordinator of a running download: AutoSwitchState *)

apply_switch(t, s) ==
    /\ route' = [route EXCEPT ![t] = s]
    /\ label' = [label EXCEPT ![t] = s]

(* Phase::Done: the state machine acts no more, its context is not read.   *)
SwitchDone(t) ==
    /\ phase' = [phase EXCEPT ![t] = "none"]
    /\ ctx' = [ctx EXCEPT ![t] = NoCtx]

(* A ramp tick that passes should_probe.  A lease of another download is   *)
(* taken at once unless this one was resumed with data.                    *)
Tick(t) ==
    /\ st[t] = "running" /\ phase[t] = "idle"
    /\ LET lease == cache \in ctx[t].cands /\ ~ctx[t].validate IN
        \/ /\ lease
           /\ apply_switch(t, cache)
           /\ SwitchDone(t)
           /\ UNCHANGED <<cache, extras>>
        \/ /\ lease
           /\ Extra
           /\ cache' = "cooldown"
           /\ SwitchDone(t)
           /\ UNCHANGED <<route, label>>
        \/ /\ ~lease
           /\ IF cache \in {"cooldown", "noswitch"} THEN SwitchDone(t)
              ELSE phase' = [phase EXCEPT ![t] = "probing"] /\ UNCHANGED ctx
           /\ UNCHANGED <<cache, route, label, extras>>
    /\ UNCHANGED <<cands, prior, st, partial, managerVars, evidence>>

(* The samples are in; they were taken some time ago and with the settings *)
(* of the start.                                                           *)
Collect(t) ==
    /\ st[t] = "running" /\ phase[t] = "probing"
    /\ SwitchDone(t)
    /\ \/ \E s \in ctx[t].cands :
            /\ cache' = s
            /\ apply_switch(t, s)
            /\ prior' = record_proxy_win(prior)
            /\ evidence' = TRUE
            /\ UNCHANGED extras
       \/ /\ Extra
          /\ cache' = "cooldown"
          /\ UNCHANGED <<route, label, prior, evidence>>
       \/ /\ cache' = "noswitch"
          /\ prior' = record_no_switch(prior)
          /\ UNCHANGED <<route, label, evidence, extras>>
       \/ /\ cache' = "cooldown"
          /\ prior' = record_cooldown(prior)
          /\ UNCHANGED <<route, label, evidence, extras>>
    /\ UNCHANGED <<cands, st, partial, managerVars>>

-----------------------------------------------------------------------------
(* The end of a download: on_task_done *)

Named(t) == IF label[t] \in Sources THEN label[t] ELSE "direct"

(* The link t has been on; without its client, the one the row names. *)
Taken(t) == IF route[t] = "fallback" THEN Named(t) ELSE route[t]

(* Mutant: the link that failed is not marked. *)
Marked_OnlyTargets(t) == attempts[t]

(* The link of the label has had its try. *)
Marked(t) == attempts[t] \cup {Named(t)}

Spent(t, target) == Marked(t) \cup ({target} \ {"none"})

(* The leased candidate comes first, then the manual one. *)
First(S) == IF cache \in S THEN cache ELSE IF "manual" \in S THEN "manual" ELSE "system"

(* Mutant: a proxy is followed by nothing but proxies. *)
auto_failover_target_NoWayBack(left, marked, network_reachable) ==
    IF left # {} THEN First(left) ELSE "none"

auto_failover_target(left, marked, network_reachable) ==
    IF left # {} THEN First(left)
    ELSE IF network_reachable /\ "direct" \notin marked THEN "direct" ELSE "none"

(* Mutant: the retry is not counted. *)
AutoRetry_Uncounted(t) ==
    /\ st' = [st EXCEPT ![t] = "retry"]
    /\ UNCHANGED extras

(* One of the retries that every download has. *)
AutoRetry(t) ==
    /\ st' = [st EXCEPT ![t] = "retry"]
    /\ Extra

(* No retry is left, or the error is not one that a retry may cure. *)
GiveUp(t) ==
    /\ st' = [st EXCEPT ![t] = "error"]
    /\ UNCHANGED extras

(* The coordinator of t has ended; bytes of t may have reached the disk. *)
Ended(t) ==
    /\ SwitchDone(t)
    /\ \E b \in BOOLEAN : partial' = [partial EXCEPT ![t] = @ \/ b]

(* The transfer breaks, as any may at any time; the machine may have lost  *)
(* its network then.  If it went through a proxy, what was known in favour *)
(* of proxies is forgotten; a link not tried yet takes over.               *)
Fail(t, network_reachable) ==
    /\ st[t] = "running"
    /\ LET proxy_failed == label[t] \in Sources
           known == IF proxy_failed THEN "none" ELSE cache
           left == IF known = "noswitch" \/ prior.nosw THEN {} ELSE cands \ Marked(t)
           target == auto_failover_target(left, Marked(t), network_reachable)
       IN
        /\ cache' = known
        /\ prior' = IF proxy_failed THEN clear_proxy_prior(prior) ELSE prior
        /\ evidence' = (evidence /\ ~proxy_failed)
        /\ pending' = [pending EXCEPT ![t] = target]
        /\ attempts' = [attempts EXCEPT ![t] = Spent(t, target)]
        /\ \/ /\ target # "none"
              /\ st' = [st EXCEPT ![t] = "retry"]
              /\ UNCHANGED extras
           \/ /\ target = "none"
              /\ AutoRetry(t) \/ GiveUp(t)
    /\ tried' = [tried EXCEPT ![t] = @ \cup {Taken(t)}]
    /\ Ended(t)
    /\ UNCHANGED <<cands, route, label>>

(* Any other error (a status, a checksum) is no matter of links; still, a  *)
(* link that a failover chose has had its turn.                            *)
Refused(t) ==
    /\ st[t] = "running"
    /\ AutoRetry(t) \/ GiveUp(t)
    /\ tried' = [tried EXCEPT ![t] = @ \cup ({Taken(t)} \cap attempts[t])]
    /\ Ended(t)
    /\ UNCHANGED <<cands, cache, prior, route, label, attempts, pending, evidence>>

Complete(t) ==
    /\ st[t] = "running"
    /\ st' = [st EXCEPT ![t] = "done"]
    /\ SwitchDone(t)
    /\ pending' = [pending EXCEPT ![t] = "none"]
    /\ attempts' = [attempts EXCEPT ![t] = {}]
    /\ tried' = [tried EXCEPT ![t] = {}]
    /\ IF label[t] \in Sources
       THEN prior' = touch_proxy_route(prior) /\ evidence' = TRUE
       ELSE UNCHANGED <<prior, evidence>>
    /\ partial' = [partial EXCEPT ![t] = TRUE]
    /\ UNCHANGED <<cands, cache, route, label, extras>>

-----------------------------------------------------------------------------
(* The user *)
Pause(t) ==
    /\ Extra
    /\ st[t] \in {"running", "retry"}
    /\ st' = [st EXCEPT ![t] = "paused"]
    /\ IF st[t] = "running" THEN Ended(t) ELSE UNCHANGED <<phase, ctx, partial>>
    /\ UNCHANGED <<cands, cache, prior, route, label, managerVars, evidence>>

(* resume_task: a new budget, unless a failover is already on its way. *)
resume_task(t, built) ==
    /\ Extra
    /\ st[t] \in {"paused", "error", "retry"}
    /\ IF pending[t] = "none"
       THEN /\ attempts' = [attempts EXCEPT ![t] = {}]
            /\ tried' = [tried EXCEPT ![t] = {}]
       ELSE /\ UNCHANGED attempts
            /\ tried' = [tried EXCEPT ![t] = @ \cup TurnPassed(t)]
    /\ Resume(t, built)
    /\ UNCHANGED <<cands, cache, prior, evidence>>

(* New manual fields: what was learned of the old ones is void.  Downloads *)
(* that run keep their client and their context.                           *)
set_proxy_config ==
    /\ Extra
    /\ cands' \in {cands \cup ({"manual"} \cap Sources), cands \ {"manual"}}
    /\ cache' = "none"
    /\ prior' = NoPrior
    /\ evidence' = FALSE
    /\ pending' = [t \in Tasks |-> "none"]
    /\ attempts' = [t \in Tasks |-> {}]
    /\ tried' = [t \in Tasks |-> {}]
    /\ UNCHANGED taskVars

-----------------------------------------------------------------------------
(* The environment *)

(* The system's proxy goes or comes, and with it the fingerprint of the    *)
(* network: ensure_net_epoch empties the priors, the leases stay.          *)
NetworkChanges ==
    /\ Extra
    /\ cands' \in {cands, cands \cup ({"system"} \cap Sources), cands \ {"system"}}
    /\ prior' = NoPrior
    /\ UNCHANGED <<cache, taskVars, managerVars, evidence>>

Next ==
    \/ \E t \in Tasks, b \in BOOLEAN : Start(t, b) \/ Retry(t, b) \/ resume_task(t, b) \/ Fail(t, b)
    \/ \E t \in Tasks : Tick(t) \/ Collect(t) \/ Complete(t) \/ Refused(t) \/ Pause(t)
    \/ set_proxy_config \/ Expire \/ NetworkChanges

Spec == Init /\ [][Next]_vars

(* The manager serves every retry, and a transfer does not hang: it ends,  *)
(* well or not, whatever the links do in the meantime.                     *)
Fairness == \A t \in Tasks : WF_vars(Retry(t, TRUE)) /\ WF_vars(Complete(t) \/ Refused(t) \/ \E r \in BOOLEAN : Fail(t, r))

FairSpec == Spec /\ Fairness

-----------------------------------------------------------------------------
TypeOK ==
    /\ cands \subseteq Sources
    /\ cache \in Sources \cup {"none", "cooldown", "noswitch"}
    /\ prior \in [n : 0..2, recent : BOOLEAN, proxy : BOOLEAN, win : BOOLEAN,
                  cool : BOOLEAN, nosw : BOOLEAN]
    /\ st \in [Tasks -> {"new", "running", "retry", "paused", "error", "done"}]
    /\ route \in [Tasks -> Links \cup {"fallback"}] /\ label \in [Tasks -> Links \cup {"none"}]
    /\ partial \in [Tasks -> BOOLEAN]
    /\ ctx \in [Tasks -> [cands : SUBSET Sources, validate : BOOLEAN]]
    /\ phase \in [Tasks -> {"none", "idle", "probing"}]
    /\ attempts \in [Tasks -> SUBSET Links] /\ tried \in [Tasks -> SUBSET Links]
    /\ pending \in [Tasks -> Links \cup {"none"}]
    /\ evidence \in BOOLEAN /\ extras \in Nat

(***************************************************************************)
(* A failover never sends a download back to a link on which it has failed *)
(* since its budget began ("each link at most once", download_manager.rs); *)
(* a link whose client was not built counts as the one its label names.    *)
(***************************************************************************)
EachLinkOnce == \A t \in Tasks : pending[t] \notin tried[t]

(***************************************************************************)
(* A download is given up only when no link is left to it: every candidate *)
(* (unless the host is pinned to direct) and, if there is a network, the   *)
(* direct link have failed it since its budget began.                      *)
(***************************************************************************)
NothingUntried ==
    [][\A t \in Tasks, r \in BOOLEAN : st'[t] # st[t] /\ st'[t] = "error" /\ Fail(t, r) =>
          /\ (IF cache' = "noswitch" \/ prior.nosw THEN {} ELSE cands) \subseteq tried'[t]
          /\ r => "direct" \in tried'[t]]_vars

(***************************************************************************)
(* No download takes off on a proxy on hearsay: when a start is not a      *)
(* failover, some proxy has won a sample or completed a download after the *)
(* last failure of one, and after the last change of the settings.         *)
(***************************************************************************)
NoBlindTakeoff ==
    [][\A t \in Tasks : st[t] # "running" /\ st'[t] = "running" /\ pending[t] = "none"
          /\ route'[t] \in Sources => evidence]_vars

(***************************************************************************)
(* Whatever the links do, a download does not swing between them for ever: *)
(* every one that runs comes to rest.                                      *)
(***************************************************************************)
Settles == \A t \in Tasks : st[t] = "running" ~> st[t] \in {"done", "error", "paused"}
=============================================================================

--------------------------- MODULE AutoRouteProofs ---------------------------
(***************************************************************************)
(* Proofs about AutoRoute, for any number of downloads and of user         *)
(* commands: no link is taken twice, none is left out, and no proxy is     *)
(* trusted without evidence.                                               *)
(***************************************************************************)
EXTENDS AutoRoute, TLAPS

(* The route of a download is the one its row names, as long as the client *)
(* of that link could be built.                                            *)
LabelTrue(t) == route[t] # "fallback" => Named(t) = route[t]

(* A failover is on its way only to a download that has failed. *)
PendingWaits(t) == st[t] \in {"new", "running", "done"} => pending[t] = "none"

(* What a download has failed on is marked, and so is where it goes next,  *)
(* on which it has not failed.                                             *)
TriedMarked(t) ==
    /\ tried[t] \subseteq attempts[t]
    /\ pending[t] # "none" => pending[t] \in attempts[t] \ tried[t]

(* Conversely, what is marked has failed the download, is what it runs on, *)
(* or is where it goes next.  A download that its coordinator may still    *)
(* move was not placed by a failover.                                      *)
MarkedTried(t) ==
    /\ st[t] = "new" => attempts[t] = {}
    /\ st[t] = "running" => attempts[t] \subseteq tried[t] \cup {Taken(t)}
    /\ phase[t] # "none" => attempts[t] \subseteq tried[t]
    /\ st[t] = "retry" \/ pending[t] # "none" => attempts[t] \subseteq tried[t] \cup {pending[t]}

(* A lease and a prior in favour of proxies rest on evidence. *)
Trust == cache \in Sources \/ prior.proxy => evidence

Sound(t) == LabelTrue(t) /\ PendingWaits(t) /\ TriedMarked(t) /\ MarkedTried(t)

IInv == TypeOK /\ Trust /\ \A t \in Tasks : Sound(t)

-----------------------------------------------------------------------------
(* The operators *)

Prior == [n : 0..2, recent : BOOLEAN, proxy : BOOLEAN, win : BOOLEAN,
          cool : BOOLEAN, nosw : BOOLEAN]
PlanType == [link : Links, ctx : [cands : SUBSET Sources, validate : BOOLEAN]]

(* route_health.rs: what a record does to the prior; only a win and a       *)
(* completed download put a proxy in favour.                                *)
LEMMA PriorFacts ==
  ASSUME NEW p \in Prior
  PROVE /\ record_proxy_win(p) \in Prior /\ touch_proxy_route(p) \in Prior
        /\ record_cooldown(p) \in Prior /\ record_cooldown(p).proxy = p.proxy
        /\ record_no_switch(p) \in Prior /\ record_no_switch(p).proxy = p.proxy
        /\ clear_proxy_prior(p) \in Prior /\ ~clear_proxy_prior(p).proxy
        /\ NoPrior \in Prior /\ ~NoPrior.proxy
<1>1. Confirm(p) \in Prior
  <2> DEFINE m == IF p.recent \/ p.n = 2 THEN p.n ELSE p.n + 1
  <2>1. m \in 0..2
    BY DEF Prior
  <2>2. \A i \in 0..2, b \in BOOLEAN :
          [p EXCEPT !.n = i, !.recent = b, !.proxy = TRUE] \in Prior
    BY DEF Prior
  <2>3. (m < 2) \in BOOLEAN
    OBVIOUS
  <2>4. Confirm(p) = [p EXCEPT !.n = m, !.recent = m < 2, !.proxy = TRUE]
    BY DEF Confirm
  <2> HIDE DEF m
  <2> QED BY <2>1, <2>2, <2>3, <2>4
<1>2. \A q \in Prior : prune(q) \in Prior /\ prune(q).proxy = q.proxy
  <2> TAKE q \in Prior
  <2>1. [q EXCEPT !.n = 0, !.recent = FALSE, !.win = FALSE] \in Prior
    <3>1. \A i \in 0..2, b \in BOOLEAN, c \in BOOLEAN :
            [q EXCEPT !.n = i, !.recent = b, !.win = c] \in Prior
      BY DEF Prior
    <3>2. 0 \in 0..2
      OBVIOUS
    <3> QED BY <3>1, <3>2, Zenon
  <2>2. [q EXCEPT !.n = 0, !.recent = FALSE, !.win = FALSE].proxy = q.proxy
    BY DEF Prior
  <2> QED BY <2>1, <2>2 DEF prune
<1>3. /\ [p EXCEPT !.cool = TRUE] \in Prior /\ [p EXCEPT !.cool = TRUE].proxy = p.proxy
      /\ [p EXCEPT !.nosw = TRUE] \in Prior /\ [p EXCEPT !.nosw = TRUE].proxy = p.proxy
      /\ [p EXCEPT !.proxy = FALSE] \in Prior /\ [p EXCEPT !.proxy = FALSE].proxy = FALSE
  BY DEF Prior
<1>4. record_proxy_win(p) \in Prior /\ touch_proxy_route(p) \in Prior
  BY <1>1 DEF Prior, record_proxy_win, touch_proxy_route
<1>5. NoPrior \in Prior /\ ~NoPrior.proxy
  BY DEF Prior, NoPrior
<1> QED
  BY <1>2, <1>3, <1>4, <1>5 DEF record_cooldown, record_no_switch, clear_proxy_prior

(* auto_route_decision: a failover goes where it was sent, or direct if the *)
(* proxy has gone, and is left alone by the coordinator; without one, a     *)
(* proxy is taken only on a lease or on a prior.                            *)
LEMMA DecisionFacts ==
  ASSUME TypeOK, NEW has_partial \in BOOLEAN, NEW forced \in Links \cup {"none"}
  PROVE LET plan == auto_route_decision(has_partial, forced)
        IN /\ plan \in PlanType
           /\ forced # "none" => /\ plan.ctx = NoCtx
                                 /\ forced \notin Sources \ cands => plan.link = forced
           /\ (forced = "none" /\ plan.link \in Sources) => (cache \in Sources \/ prior.proxy)
<1> DEFINE plan == auto_route_decision(has_partial, forced)
<1>1. "none" \notin Links /\ "direct" \notin Sources
  BY RouteAssumption DEF Links
<1>2. cands # {} => (CHOOSE s \in cands : TRUE) \in cands
  OBVIOUS
<1>3. \/ plan = Plan("direct", NoCtx)
         /\ (forced # "none" => forced = "direct" \/ forced \in Sources \ cands)
      \/ plan = Plan(forced, NoCtx) /\ forced \in cands
      \/ plan = Plan(cache, NoCtx) /\ cache \in cands /\ forced = "none"
      \/ \E s \in cands : plan = Plan(s, NoCtx) /\ prior.proxy /\ forced = "none"
      \/ plan = Plan("direct", [cands |-> cands, validate |-> has_partial]) /\ forced = "none"
  BY <1>1, <1>2 DEF auto_route_decision, hint_for, Links, TypeOK
<1> HIDE DEF plan
<1>4. /\ \A l \in Links : Plan(l, NoCtx) \in PlanType /\ Plan(l, NoCtx).link = l
                          /\ Plan(l, NoCtx).ctx = NoCtx
      /\ Plan("direct", [cands |-> cands, validate |-> has_partial]) \in PlanType
      /\ Plan("direct", [cands |-> cands, validate |-> has_partial]).link = "direct"
  BY DEF Plan, PlanType, NoCtx, Links, TypeOK
<1>5. cands \subseteq Sources /\ Sources \subseteq Links /\ "direct" \in Links
  BY DEF TypeOK, Links
<1>6. /\ plan \in PlanType
      /\ forced # "none" => /\ plan.ctx = NoCtx
                            /\ forced \notin Sources \ cands => plan.link = forced
      /\ (forced = "none" /\ plan.link \in Sources) => (cache \in Sources \/ prior.proxy)
  BY <1>1, <1>3, <1>4, <1>5
<1> QED BY <1>6 DEF plan

(* The link that takes over is one that is not marked. *)
LEMMA TargetFacts ==
  ASSUME TypeOK, NEW left \in SUBSET Sources, NEW marked, NEW r \in BOOLEAN,
         left \cap marked = {}
  PROVE LET target == auto_failover_target(left, marked, r)
        IN /\ target \in Links \cup {"none"}
           /\ target \notin marked \/ target = "none"
           /\ target = "none" => left = {} /\ (r => "direct" \in marked)
<1>1. left # {} => First(left) \in left /\ First(left) # "none"
  BY RouteAssumption DEF First
<1> QED
  BY <1>1, RouteAssumption DEF auto_failover_target, Links

-----------------------------------------------------------------------------
(* Type correctness *)

LEMMA LaunchType ==
  ASSUME TypeOK, NEW t \in Tasks, NEW plan \in PlanType, NEW resumed, NEW built,
         Launch(t, plan, resumed, built)
  PROVE /\ st' \in [Tasks -> {"new", "running", "retry", "paused", "error", "done"}]
        /\ route' \in [Tasks -> Links \cup {"fallback"}] /\ label' \in [Tasks -> Links \cup {"none"}]
        /\ partial' \in [Tasks -> BOOLEAN]
        /\ ctx' \in [Tasks -> [cands : SUBSET Sources, validate : BOOLEAN]]
        /\ phase' \in [Tasks -> {"none", "idle", "probing"}]
<1>1. plan.link \in Links /\ plan.ctx \in [cands : SUBSET Sources, validate : BOOLEAN]
  BY DEF PlanType
<1> QED BY <1>1 DEF Launch, TypeOK

LEMMA SwitchDoneType ==
  ASSUME TypeOK, NEW t \in Tasks, SwitchDone(t)
  PROVE /\ ctx' \in [Tasks -> [cands : SUBSET Sources, validate : BOOLEAN]]
        /\ phase' \in [Tasks -> {"none", "idle", "probing"}]
<1>1. NoCtx \in [cands : SUBSET Sources, validate : BOOLEAN]
  BY DEF NoCtx
<1> QED BY <1>1 DEF SwitchDone, TypeOK

LEMMA EndedType ==
  ASSUME TypeOK, NEW t \in Tasks, Ended(t)
  PROVE /\ ctx' \in [Tasks -> [cands : SUBSET Sources, validate : BOOLEAN]]
        /\ phase' \in [Tasks -> {"none", "idle", "probing"}]
        /\ partial' \in [Tasks -> BOOLEAN]
<1>1. PICK b \in BOOLEAN : partial' = [partial EXCEPT ![t] = @ \/ b]
  BY DEF Ended
<1>2. partial' \in [Tasks -> BOOLEAN]
  BY <1>1 DEF TypeOK
<1> QED BY <1>2, SwitchDoneType DEF Ended

EnvType ==
    /\ cands \subseteq Sources
    /\ cache \in Sources \cup {"none", "cooldown", "noswitch"}
    /\ prior \in Prior
    /\ evidence \in BOOLEAN /\ extras \in Nat
TaskType ==
    /\ st \in [Tasks -> {"new", "running", "retry", "paused", "error", "done"}]
    /\ route \in [Tasks -> Links \cup {"fallback"}] /\ label \in [Tasks -> Links \cup {"none"}]
    /\ partial \in [Tasks -> BOOLEAN]
    /\ ctx \in [Tasks -> [cands : SUBSET Sources, validate : BOOLEAN]]
    /\ phase \in [Tasks -> {"none", "idle", "probing"}]
ManagerType ==
    /\ attempts \in [Tasks -> SUBSET Links] /\ tried \in [Tasks -> SUBSET Links]
    /\ pending \in [Tasks -> Links \cup {"none"}]

(* Every variable of AutoRoute keeps its type. *)
LEMMA TypeStep == TypeOK /\ [Next]_vars => TypeOK'
<1> SUFFICES ASSUME TypeOK, [Next]_vars PROVE TypeOK'
  OBVIOUS
<1>a. EnvType /\ TaskType /\ ManagerType
  BY DEF EnvType, TaskType, ManagerType, TypeOK, Prior
<1>b. ASSUME EnvType', TaskType', ManagerType' PROVE TypeOK'
  BY <1>b DEF EnvType, TaskType, ManagerType, TypeOK, Prior
<1>c. ASSUME UNCHANGED taskVars PROVE TaskType'
  BY <1>a, <1>c DEF TaskType, taskVars
<1>d. ASSUME UNCHANGED managerVars PROVE ManagerType'
  BY <1>a, <1>d DEF ManagerType, managerVars
<1>e. ASSUME Extra \/ UNCHANGED extras PROVE extras' \in Nat
  BY <1>a, <1>e DEF Extra, EnvType
<1>f. ASSUME UNCHANGED <<cands, cache, prior, evidence>>, extras' \in Nat PROVE EnvType'
  BY <1>a, <1>f DEF EnvType
<1>1. ASSUME NEW t \in Tasks, NEW b \in BOOLEAN, Start(t, b) PROVE TypeOK'
  <2>1. auto_route_decision(FALSE, "none") \in PlanType
    BY DecisionFacts
  <2>2. TaskType'
    BY <1>1, <2>1, LaunchType DEF Start, TaskType
  <2>3. EnvType' /\ ManagerType'
    BY <1>1, <1>d, <1>e, <1>f DEF Start
  <2> QED BY <1>b, <2>2, <2>3
<1>g. ASSUME NEW t \in Tasks, NEW b, Resume(t, b) PROVE TaskType' /\ pending' \in [Tasks -> Links \cup {"none"}]
  <2>1. auto_route_decision(partial[t], pending[t]) \in PlanType
    BY DecisionFacts DEF TypeOK
  <2> QED BY <1>g, <2>1, <1>a, LaunchType DEF Resume, TaskType, ManagerType
<1>h. ASSUME NEW t \in Tasks PROVE TurnPassed(t) \subseteq Links
  BY DEF TurnPassed, Links
<1>2. ASSUME NEW t \in Tasks, NEW b \in BOOLEAN, Retry(t, b) PROVE TypeOK'
  <2>1. ManagerType'
    BY <1>2, <1>a, <1>g, <1>h DEF Retry, ManagerType
  <2>2. TaskType' /\ EnvType'
    BY <1>2, <1>e, <1>f, <1>g DEF Retry
  <2> QED BY <1>b, <2>1, <2>2
<1>3. ASSUME NEW t \in Tasks, NEW b \in BOOLEAN, resume_task(t, b) PROVE TypeOK'
  <2>1. ManagerType'
    BY <1>3, <1>a, <1>g, <1>h DEF resume_task, ManagerType
  <2>2. TaskType' /\ EnvType'
    BY <1>3, <1>e, <1>f, <1>g DEF resume_task
  <2> QED BY <1>b, <2>1, <2>2
<1>4. ASSUME NEW t \in Tasks, NEW b \in BOOLEAN, Fail(t, b) PROVE TypeOK'
  <2> DEFINE failed == label[t] \in Sources
             known == IF failed THEN "none" ELSE cache
             left == IF known = "noswitch" \/ prior.nosw THEN {} ELSE cands \ Marked(t)
             target == auto_failover_target(left, Marked(t), b)
  <2>1. target \in Links \cup {"none"}
    BY <1>a, TargetFacts DEF EnvType
  <2>2. /\ cache' = known /\ prior' = IF failed THEN clear_proxy_prior(prior) ELSE prior
        /\ evidence' = (evidence /\ ~failed) /\ cands' = cands
        /\ Extra \/ UNCHANGED extras
    BY <1>4 DEF Fail, AutoRetry, GiveUp
  <2>3. /\ pending' = [pending EXCEPT ![t] = target]
        /\ attempts' = [attempts EXCEPT ![t] = Spent(t, target)]
        /\ tried' = [tried EXCEPT ![t] = @ \cup {Taken(t)}]
    BY <1>4 DEF Fail
  <2>4. /\ \E s \in {"retry", "error"} : st' = [st EXCEPT ![t] = s]
        /\ Ended(t) /\ UNCHANGED <<route, label>>
    BY <1>4 DEF Fail, AutoRetry, GiveUp
  <2> HIDE DEF failed, known, left, target
  <2>5. EnvType'
    <3>1. cache' \in Sources \cup {"none", "cooldown", "noswitch"}
      BY <1>a, <2>2 DEF EnvType, known
    <3>2. prior' \in Prior
      BY <1>a, <2>2, PriorFacts DEF EnvType
    <3>3. evidence' \in BOOLEAN
      BY <2>2
    <3> QED BY <1>a, <1>e, <2>2, <3>1, <3>2, <3>3 DEF EnvType
  <2>6. TaskType'
    BY <1>a, <2>4, EndedType DEF TaskType
  <2>7. ManagerType'
    <3>1. Named(t) \in Links /\ Taken(t) \in Links
      BY <1>a DEF Named, Taken, Links, TaskType
    <3>2. Spent(t, target) \in SUBSET Links
      BY <1>a, <2>1, <3>1 DEF Spent, Marked, ManagerType
    <3> QED BY <1>a, <2>1, <2>3, <3>1, <3>2 DEF ManagerType
  <2> QED BY <1>b, <2>5, <2>6, <2>7
<1>5. ASSUME NEW t \in Tasks, Tick(t) PROVE TypeOK'
  <2>1. ctx[t].cands \subseteq Sources
    BY <1>a DEF TaskType
  <2>2. /\ SwitchDone(t) \/ (phase' = [phase EXCEPT ![t] = "probing"] /\ UNCHANGED ctx)
        /\ UNCHANGED <<route, label>> \/ (apply_switch(t, cache) /\ cache \in ctx[t].cands)
        /\ cache' \in {cache, "cooldown"} /\ (Extra \/ UNCHANGED extras)
    <3>1. \/ apply_switch(t, cache) /\ cache \in ctx[t].cands /\ SwitchDone(t)
             /\ UNCHANGED <<cache, extras>>
          \/ Extra /\ cache' = "cooldown" /\ SwitchDone(t) /\ UNCHANGED <<route, label>>
          \/ /\ IF cache \in {"cooldown", "noswitch"} THEN SwitchDone(t)
                ELSE phase' = [phase EXCEPT ![t] = "probing"] /\ UNCHANGED ctx
             /\ UNCHANGED <<cache, route, label, extras>>
      BY <1>5, Zenon DEF Tick
    <3>2. SwitchDone(t) \/ (phase' = [phase EXCEPT ![t] = "probing"] /\ UNCHANGED ctx)
      BY <3>1
    <3>3. UNCHANGED <<route, label>> \/ (apply_switch(t, cache) /\ cache \in ctx[t].cands)
      BY <3>1
    <3>4. (cache' = cache \/ cache' = "cooldown") /\ (Extra \/ UNCHANGED extras)
      BY <3>1
    <3> QED BY <3>2, <3>3, <3>4, Zenon
  <2>5. UNCHANGED <<cands, prior, st, partial, managerVars, evidence>>
    BY <1>5 DEF Tick
  <2>3. TaskType'
    BY <1>a, <2>1, <2>2, <2>5, SwitchDoneType, SMTT(30) DEF TaskType, apply_switch, Links
  <2>4. EnvType'
    BY <1>a, <1>e, <2>2, <2>5 DEF EnvType
  <2> QED BY <1>b, <1>d, <2>3, <2>4, <2>5
<1>6. ASSUME NEW t \in Tasks, Collect(t) PROVE TypeOK'
  <2>1. ctx[t].cands \subseteq Sources
    BY <1>a DEF TaskType
  <2>2. /\ UNCHANGED <<route, label>> \/ \E s \in ctx[t].cands : apply_switch(t, s)
        /\ cache' \in ctx[t].cands \cup {"cooldown", "noswitch"} /\ (Extra \/ UNCHANGED extras)
        /\ prior' \in {prior, record_proxy_win(prior), record_no_switch(prior), record_cooldown(prior)}
        /\ evidence' \in {evidence, TRUE}
        /\ UNCHANGED <<cands, st, partial, managerVars>> /\ SwitchDone(t)
    BY <1>6 DEF Collect
  <2>3. TaskType'
    BY <1>a, <2>1, <2>2, SwitchDoneType DEF TaskType, apply_switch, Links
  <2>4. EnvType'
    BY <1>a, <1>e, <2>1, <2>2, PriorFacts DEF EnvType
  <2> QED BY <1>b, <1>d, <2>2, <2>3, <2>4
<1>7. ASSUME NEW t \in Tasks, Complete(t) PROVE TypeOK'
  <2>1. TaskType'
    BY <1>a, <1>7, SwitchDoneType DEF TaskType, Complete
  <2>2. ManagerType'
    BY <1>a, <1>7 DEF ManagerType, Complete
  <2>3. prior' \in {prior, touch_proxy_route(prior)} /\ evidence' \in {evidence, TRUE}
    BY <1>7 DEF Complete
  <2>4. EnvType'
    BY <1>a, <1>7, <2>3, PriorFacts DEF EnvType, Complete
  <2> QED BY <1>b, <2>1, <2>2, <2>4
<1>8. ASSUME NEW t \in Tasks, Refused(t) PROVE TypeOK'
  <2>1. (\E s \in {"retry", "error"} : st' = [st EXCEPT ![t] = s]) /\ (Extra \/ UNCHANGED extras)
    BY <1>8 DEF Refused, AutoRetry, GiveUp
  <2>2. TaskType'
    BY <1>a, <1>8, <2>1, EndedType DEF TaskType, Refused
  <2>3. ManagerType'
    BY <1>a, <1>8 DEF ManagerType, Refused
  <2> QED BY <1>8, <1>b, <1>e, <1>f, <2>1, <2>2, <2>3 DEF Refused
<1>9. ASSUME NEW t \in Tasks, Pause(t) PROVE TypeOK'
  <2>1. TaskType'
    BY <1>a, <1>9, EndedType DEF TaskType, Pause
  <2> QED BY <1>9, <1>b, <1>d, <1>e, <1>f, <2>1 DEF Pause
<1>10. ASSUME set_proxy_config PROVE TypeOK'
  <2>1. EnvType'
    BY <1>a, <1>e, <1>10, PriorFacts DEF EnvType, set_proxy_config
  <2>2. ManagerType'
    BY <1>10 DEF ManagerType, set_proxy_config
  <2> QED BY <1>10, <1>b, <1>c, <2>1, <2>2 DEF set_proxy_config
<1>11. ASSUME Expire PROVE TypeOK'
  <2>1. \A f \in {"recent", "proxy", "win", "cool", "nosw"} : [prior EXCEPT ![f] = FALSE] \in Prior
    BY <1>a DEF EnvType, Prior
  <2>2. EnvType'
    BY <1>a, <1>11, <2>1 DEF EnvType, Expire
  <2> QED BY <1>11, <1>b, <1>c, <1>d, <2>2 DEF Expire
<1>12. ASSUME NetworkChanges PROVE TypeOK'
  <2>1. EnvType'
    BY <1>a, <1>e, <1>12, PriorFacts DEF EnvType, NetworkChanges
  <2> QED BY <1>12, <1>b, <1>c, <1>d, <2>1 DEF NetworkChanges
<1>13. CASE UNCHANGED vars
  BY <1>13, <1>b, <1>c, <1>d, <1>f, <1>e DEF vars
<1> QED
  BY <1>1, <1>2, <1>3, <1>4, <1>5, <1>6, <1>7, <1>8, <1>9, <1>10, <1>11, <1>12, <1>13 DEF Next

-----------------------------------------------------------------------------
(* The inductive invariant *)

(* A step of one download leaves what is known of another one as it is. *)
LEMMA OtherTask ==
  ASSUME NEW u, Sound(u),
         st'[u] = st[u], route'[u] = route[u], label'[u] = label[u], phase'[u] = phase[u],
         attempts'[u] = attempts[u], pending'[u] = pending[u], tried'[u] = tried[u]
  PROVE Sound(u)'
BY DEF Sound, LabelTrue, PendingWaits, TriedMarked, MarkedTried, Named, Taken

LEMMA Names ==
  /\ "none" \notin Links /\ "fallback" \notin Links /\ "direct" \notin Sources
  /\ Sources \subseteq Links /\ "direct" \in Links
  /\ Sources \cap {"none", "cooldown", "noswitch"} = {}
BY RouteAssumption DEF Links

(* A start and a resume: what the launched download runs on. *)
LEMMA Launched ==
  ASSUME TypeOK, NEW t \in Tasks, NEW b, NEW resumed, NEW has_partial \in BOOLEAN,
         Launch(t, auto_route_decision(has_partial, pending[t]), resumed, b)
  PROVE /\ st'[t] = "running" /\ LabelTrue(t)'
        /\ phase'[t] # "none" => pending[t] = "none"
        /\ (pending[t] \in Links \ (Sources \ cands) /\ resumed) => Taken(t)' = pending[t]
        /\ (pending[t] = "none" /\ route'[t] \in Sources) => (cache \in Sources \/ prior.proxy)
<1> DEFINE plan == auto_route_decision(has_partial, pending[t])
<1>1. /\ plan \in PlanType
      /\ pending[t] # "none" => /\ plan.ctx = NoCtx
                                /\ pending[t] \notin Sources \ cands => plan.link = pending[t]
      /\ (pending[t] = "none" /\ plan.link \in Sources) => (cache \in Sources \/ prior.proxy)
  BY DecisionFacts DEF TypeOK
<1>2. plan.link \in Links
  BY <1>1 DEF PlanType
<1>3. Launch(t, plan, resumed, b)
  OBVIOUS
<1> HIDE DEF plan
<1>4. /\ st'[t] = "running" /\ phase'[t] = IF plan.ctx = NoCtx THEN "none" ELSE "idle"
      /\ route'[t] = IF b THEN plan.link ELSE "fallback"
      /\ label'[t] = IF b \/ resumed THEN plan.link ELSE "none"
  BY <1>3 DEF Launch, TypeOK
<1>5. LabelTrue(t)'
  BY <1>2, <1>4, Names DEF LabelTrue, Named, Links
<1>6. resumed => Taken(t)' = plan.link
  BY <1>2, <1>4, Names DEF Taken, Named, Links
<1> QED BY <1>1, <1>2, <1>4, <1>5, <1>6, Names

(* Every step keeps the bookkeeping of the links sound. *)
LEMMA SoundStep == IInv /\ [Next]_vars => \A t \in Tasks : Sound(t)'
<1> SUFFICES ASSUME IInv, [Next]_vars PROVE \A t \in Tasks : Sound(t)'
  OBVIOUS
<1>a. TypeOK /\ TypeOK'
  BY TypeStep DEF IInv
<1>b. \A t \in Tasks : Sound(t)
  BY DEF IInv
<1>1. ASSUME NEW t \in Tasks, NEW b \in BOOLEAN, Start(t, b) PROVE \A u \in Tasks : Sound(u)'
  <2>1. pending[t] = "none" /\ attempts[t] = {} /\ tried[t] = {}
    BY <1>1, <1>b DEF Start, Sound, PendingWaits, MarkedTried, TriedMarked
  <2>2. st'[t] = "running" /\ LabelTrue(t)'
    BY <1>1, <1>a, <2>1, Launched DEF Start
  <2>3. attempts' = attempts /\ tried' = tried /\ pending' = pending
    BY <1>1 DEF Start, managerVars
  <2>4. Sound(t)'
    BY <2>1, <2>2, <2>3 DEF Sound, PendingWaits, TriedMarked, MarkedTried
  <2>5. ASSUME NEW u \in Tasks, u # t PROVE Sound(u)'
    <3>1. st'[u] = st[u] /\ route'[u] = route[u] /\ label'[u] = label[u] /\ phase'[u] = phase[u]
      BY <1>1, <1>a, <2>5 DEF Start, Launch, TypeOK
    <3> QED BY <1>b, <2>3, <3>1, OtherTask
  <2> QED BY <2>4, <2>5
<1>c. ASSUME NEW t \in Tasks, NEW b, Resume(t, b),
             attempts'[t] \subseteq tried'[t] \cup ({pending[t]} \ (Sources \ cands)),
             tried'[t] \subseteq attempts'[t],
             \A u \in Tasks \ {t} : attempts'[u] = attempts[u] /\ tried'[u] = tried[u]
      PROVE \A u \in Tasks : Sound(u)'
  <2>1. /\ st'[t] = "running" /\ LabelTrue(t)'
        /\ phase'[t] # "none" => pending[t] = "none"
        /\ pending[t] \in Links \ (Sources \ cands) => Taken(t)' = pending[t]
    <3>1. partial[t] \in BOOLEAN
      BY <1>a DEF TypeOK
    <3> QED BY <1>a, <1>c, <3>1, Launched DEF Resume
  <2>2. pending'[t] = "none" /\ attempts'[t] \subseteq Links
    BY <1>a, <1>c DEF Resume, TypeOK
  <2>3. Sound(t)'
    <3>1. pending[t] \in Links \cup {"none"}
      BY <1>a DEF TypeOK
    <3>2. attempts'[t] \subseteq tried'[t] \cup {Taken(t)'}
      BY <1>c, <2>1, <2>2, <3>1, Names
    <3>3. pending[t] = "none" => attempts'[t] \subseteq tried'[t]
      BY <1>c, <2>2, Names
    <3> QED BY <1>c, <2>1, <2>2, <3>2, <3>3 DEF Sound, PendingWaits, TriedMarked, MarkedTried
  <2>4. ASSUME NEW u \in Tasks, u # t PROVE Sound(u)'
    BY <1>a, <1>b, <1>c, <2>4, OtherTask DEF Resume, Launch, TypeOK
  <2> QED BY <2>3, <2>4
<1>2. ASSUME NEW t \in Tasks, NEW b \in BOOLEAN, Retry(t, b) PROVE \A u \in Tasks : Sound(u)'
  <2>1. st[t] = "retry" /\ Sound(t) /\ pending[t] \in Links \cup {"none"}
    BY <1>2, <1>a, <1>b DEF Retry, TypeOK
  <2>2. /\ attempts' = attempts /\ Resume(t, b)
        /\ tried'[t] = tried[t] \cup TurnPassed(t)
        /\ \A u \in Tasks \ {t} : tried'[u] = tried[u]
    BY <1>2, <1>a DEF Retry, TypeOK
  <2>3. /\ attempts'[t] \subseteq tried'[t] \cup ({pending[t]} \ (Sources \ cands))
        /\ tried'[t] \subseteq attempts'[t]
    BY <2>1, <2>2, Names DEF TurnPassed, Sound, TriedMarked, MarkedTried
  <2> QED BY <1>c, <2>2, <2>3
<1>3. ASSUME NEW t \in Tasks, NEW b \in BOOLEAN, resume_task(t, b) PROVE \A u \in Tasks : Sound(u)'
  <2>1. Sound(t) /\ pending[t] \in Links \cup {"none"} /\ Resume(t, b)
    BY <1>3, <1>a, <1>b DEF resume_task, TypeOK
  <2>2. CASE pending[t] = "none"
    <3>1. /\ attempts'[t] = {} /\ tried'[t] = {}
          /\ \A u \in Tasks \ {t} : attempts'[u] = attempts[u] /\ tried'[u] = tried[u]
      BY <1>3, <1>a, <2>2 DEF resume_task, TypeOK
    <3> QED BY <1>c, <2>1, <3>1
  <2>3. CASE pending[t] # "none"
    <3>1. /\ attempts' = attempts /\ tried'[t] = tried[t] \cup TurnPassed(t)
          /\ \A u \in Tasks \ {t} : tried'[u] = tried[u]
      BY <1>3, <1>a, <2>3 DEF resume_task, TypeOK
    <3>2. /\ attempts'[t] \subseteq tried'[t] \cup ({pending[t]} \ (Sources \ cands))
          /\ tried'[t] \subseteq attempts'[t]
      BY <2>1, <2>3, <3>1, Names DEF TurnPassed, Sound, TriedMarked, MarkedTried
    <3> QED BY <1>c, <2>1, <3>1, <3>2
  <2> QED BY <2>2, <2>3
<1>4. ASSUME NEW t \in Tasks, NEW b \in BOOLEAN, Fail(t, b) PROVE \A u \in Tasks : Sound(u)'
  <2> DEFINE known == IF label[t] \in Sources THEN "none" ELSE cache
             left == IF known = "noswitch" \/ prior.nosw THEN {} ELSE cands \ Marked(t)
             target == auto_failover_target(left, Marked(t), b)
  <2>1. target \in Links \cup {"none"} /\ (target \notin Marked(t) \/ target = "none")
    <3>1. left \in SUBSET Sources /\ left \cap Marked(t) = {}
      BY <1>a DEF TypeOK
    <3> HIDE DEF left
    <3> QED BY <1>a, <3>1, TargetFacts
  <2>2. /\ st[t] = "running"
        /\ pending' = [pending EXCEPT ![t] = target]
        /\ attempts' = [attempts EXCEPT ![t] = Spent(t, target)]
        /\ tried' = [tried EXCEPT ![t] = @ \cup {Taken(t)}]
        /\ UNCHANGED <<route, label>>
    BY <1>4 DEF Fail
  <2>3. /\ \E s \in {"retry", "error"} : st' = [st EXCEPT ![t] = s]
        /\ phase' = [phase EXCEPT ![t] = "none"]
    BY <1>4 DEF Fail, AutoRetry, GiveUp, Ended, SwitchDone
  <2> HIDE DEF known, left, target
  <2>4. Sound(t)
    BY <1>b
  <2>5. Taken(t) = Named(t)
    BY <2>4 DEF Sound, LabelTrue, Taken
  <2>6. Sound(t)'
    <3>1. /\ attempts'[t] = attempts[t] \cup {Named(t)} \cup ({target} \ {"none"})
          /\ tried'[t] = tried[t] \cup {Named(t)} /\ pending'[t] = target
          /\ phase'[t] = "none" /\ st'[t] \in {"retry", "error"}
      BY <1>a, <2>2, <2>3, <2>5 DEF Spent, Marked, TypeOK
    <3>2. LabelTrue(t)'
      BY <2>2, <2>4 DEF Sound, LabelTrue, Named
    <3>3. TriedMarked(t)'
      BY <2>1, <2>4, <3>1, Names DEF Sound, TriedMarked, Marked
    <3>4. MarkedTried(t)'
      BY <2>2, <2>4, <2>5, <3>1 DEF Sound, MarkedTried
    <3> QED BY <3>1, <3>2, <3>3, <3>4 DEF Sound, PendingWaits
  <2>7. ASSUME NEW u \in Tasks, u # t PROVE Sound(u)'
    BY <1>a, <1>b, <2>2, <2>3, <2>7, OtherTask DEF TypeOK
  <2> QED BY <2>6, <2>7
<1>5. ASSUME NEW t \in Tasks, Tick(t) \/ Collect(t) PROVE \A u \in Tasks : Sound(u)'
  <2>1. /\ st[t] = "running" /\ phase[t] # "none"
        /\ \A u \in Tasks : /\ u # t => route'[u] = route[u] /\ label'[u] = label[u]
                            /\ u # t => phase'[u] = phase[u]
        /\ UNCHANGED <<st, attempts, pending, tried>>
    BY <1>5, <1>a DEF Tick, Collect, SwitchDone, apply_switch, managerVars, TypeOK
  <2>2. \/ route' = route /\ label' = label
        \/ \E s \in Sources : route'[t] = s /\ label'[t] = s
    <3>1. ctx[t].cands \subseteq Sources
      BY <1>a DEF TypeOK
    <3>2. CASE Tick(t)
      BY <1>a, <3>1, <3>2 DEF Tick, apply_switch, TypeOK
    <3>3. CASE Collect(t)
      BY <1>a, <3>1, <3>3 DEF Collect, apply_switch, TypeOK
    <3> QED BY <1>5, <3>2, <3>3
  <2>3. Sound(t)'
    <3>1. attempts[t] \subseteq tried[t] /\ Sound(t)
      BY <1>b, <2>1 DEF Sound, MarkedTried
    <3>2. LabelTrue(t)'
      BY <2>2, <3>1, Names DEF Sound, LabelTrue, Named
    <3> QED BY <2>1, <3>1, <3>2 DEF Sound, PendingWaits, TriedMarked, MarkedTried
  <2>4. ASSUME NEW u \in Tasks, u # t PROVE Sound(u)'
    BY <1>b, <2>1, <2>4, OtherTask
  <2> QED BY <2>3, <2>4
<1>7. ASSUME NEW t \in Tasks, Complete(t) PROVE \A u \in Tasks : Sound(u)'
  <2>1. /\ st'[t] = "done" /\ phase'[t] = "none" /\ pending'[t] = "none"
        /\ attempts'[t] = {} /\ tried'[t] = {} /\ route' = route /\ label' = label
    BY <1>7, <1>a DEF Complete, SwitchDone, TypeOK
  <2>2. Sound(t)'
    BY <1>b, <2>1 DEF Sound, LabelTrue, Named, PendingWaits, TriedMarked, MarkedTried
  <2>3. ASSUME NEW u \in Tasks, u # t PROVE Sound(u)'
    BY <1>7, <1>a, <1>b, <2>3, OtherTask DEF Complete, SwitchDone, TypeOK
  <2> QED BY <2>2, <2>3
<1>8. ASSUME NEW t \in Tasks, Refused(t) PROVE \A u \in Tasks : Sound(u)'
  <2>1. /\ st[t] = "running" /\ st'[t] \in {"retry", "error"} /\ phase'[t] = "none"
        /\ tried'[t] = tried[t] \cup ({Taken(t)} \cap attempts[t])
        /\ UNCHANGED <<route, label, attempts, pending>>
    BY <1>8, <1>a DEF Refused, AutoRetry, GiveUp, Ended, SwitchDone, TypeOK
  <2>2. Sound(t)'
    BY <1>b, <2>1 DEF Sound, LabelTrue, Named, PendingWaits, TriedMarked, MarkedTried
  <2>3. ASSUME NEW u \in Tasks, u # t PROVE Sound(u)'
    BY <1>8, <1>a, <1>b, <2>1, <2>3, OtherTask
       DEF Refused, AutoRetry, GiveUp, Ended, SwitchDone, TypeOK
  <2> QED BY <2>2, <2>3
<1>9. ASSUME NEW t \in Tasks, Pause(t) PROVE \A u \in Tasks : Sound(u)'
  <2>1. /\ st[t] \in {"running", "retry"} /\ st'[t] = "paused" /\ phase'[t] \in {phase[t], "none"}
        /\ UNCHANGED <<route, label, attempts, pending, tried>>
    BY <1>9, <1>a DEF Pause, Ended, SwitchDone, managerVars, TypeOK
  <2>2. Sound(t)'
    BY <1>b, <2>1 DEF Sound, LabelTrue, Named, PendingWaits, TriedMarked, MarkedTried
  <2>3. ASSUME NEW u \in Tasks, u # t PROVE Sound(u)'
    BY <1>9, <1>a, <1>b, <2>1, <2>3, OtherTask DEF Pause, Ended, SwitchDone, TypeOK
  <2> QED BY <2>2, <2>3
<1>10. ASSUME set_proxy_config PROVE \A u \in Tasks : Sound(u)'
  BY <1>10, <1>b DEF set_proxy_config, taskVars, Sound, LabelTrue, Named, PendingWaits,
                     TriedMarked, MarkedTried
<1>11. ASSUME Expire \/ NetworkChanges \/ UNCHANGED vars PROVE \A u \in Tasks : Sound(u)'
  BY <1>11, <1>b, OtherTask DEF Expire, NetworkChanges, vars, taskVars, managerVars
<1> QED
  BY <1>1, <1>2, <1>3, <1>4, <1>5, <1>7, <1>8, <1>9, <1>10, <1>11 DEF Next

(* Every step keeps the trust in proxies founded. *)
LEMMA TrustStep == IInv /\ [Next]_vars => Trust'
<1> SUFFICES ASSUME IInv, [Next]_vars PROVE Trust'
  OBVIOUS
<1>a. /\ cache \in Sources => evidence
      /\ prior.proxy => evidence
      /\ TypeOK /\ prior \in Prior
  BY DEF IInv, Trust, TypeOK, Prior
<1>b. ASSUME UNCHANGED <<cache, prior, evidence>> PROVE Trust'
  BY <1>a, <1>b DEF Trust
<1>1. ASSUME NEW t \in Tasks, NEW b \in BOOLEAN, Start(t, b) \/ Retry(t, b) \/ resume_task(t, b)
      PROVE Trust'
  BY <1>1, <1>b DEF Start, Retry, resume_task
<1>2. ASSUME NEW t \in Tasks, NEW b \in BOOLEAN, Fail(t, b) PROVE Trust'
  <2>1. CASE label[t] \in Sources
    <3>1. cache' = "none" /\ prior' = clear_proxy_prior(prior)
      BY <1>2, <2>1 DEF Fail
    <3> QED BY <1>a, <3>1, PriorFacts, Names DEF Trust
  <2>2. CASE label[t] \notin Sources
    <3>1. cache' = cache /\ prior' = prior /\ evidence' = (evidence /\ TRUE)
      BY <1>2, <2>2 DEF Fail
    <3> QED BY <1>a, <3>1 DEF Trust
  <2> QED BY <2>1, <2>2
<1>3. ASSUME NEW t \in Tasks, Tick(t) PROVE Trust'
  <2>1. cache' \in {cache, "cooldown"} /\ UNCHANGED <<prior, evidence>>
    BY <1>3 DEF Tick
  <2> QED BY <1>a, <2>1, Names DEF Trust
<1>4. ASSUME NEW t \in Tasks, Collect(t) PROVE Trust'
  <2>1. \/ evidence' = TRUE
        \/ /\ cache' \in {"cooldown", "noswitch"} /\ evidence' = evidence
           /\ prior' \in {prior, record_no_switch(prior), record_cooldown(prior)}
    BY <1>4 DEF Collect
  <2> QED BY <1>a, <2>1, PriorFacts, Names DEF Trust
<1>5. ASSUME NEW t \in Tasks, Complete(t) PROVE Trust'
  <2>1. cache' = cache /\ (evidence' = TRUE \/ UNCHANGED <<prior, evidence>>)
    BY <1>5 DEF Complete
  <2> QED BY <1>a, <2>1 DEF Trust
<1>6. ASSUME NEW t \in Tasks, Refused(t) \/ Pause(t) PROVE Trust'
  BY <1>6, <1>b DEF Refused, Pause
<1>7. ASSUME set_proxy_config PROVE Trust'
  BY <1>7, <1>a, PriorFacts, Names DEF set_proxy_config, Trust
<1>8. ASSUME Expire PROVE Trust'
  <2>1. /\ evidence' = evidence /\ (cache' = cache \/ cache' = "none")
        /\ \/ prior' = prior
           \/ \E f \in {"recent", "proxy", "win", "cool", "nosw"} : prior' = [prior EXCEPT ![f] = FALSE]
    BY <1>8 DEF Expire
  <2>2. prior'.proxy => prior.proxy
    BY <1>a, <2>1 DEF Prior
  <2> QED BY <1>a, <2>1, <2>2, Names DEF Trust
<1>9. ASSUME NetworkChanges PROVE Trust'
  BY <1>9, <1>a, PriorFacts DEF NetworkChanges, Trust
<1>10. CASE UNCHANGED vars
  BY <1>10, <1>b DEF vars
<1> QED
  BY <1>1, <1>2, <1>3, <1>4, <1>5, <1>6, <1>7, <1>8, <1>9, <1>10 DEF Next

LEMMA InitInv == Init => IInv
<1> SUFFICES ASSUME Init PROVE IInv
  OBVIOUS
<1>1. TypeOK
  <2>1. NoPrior \in [n : 0..2, recent : BOOLEAN, proxy : BOOLEAN, win : BOOLEAN,
                     cool : BOOLEAN, nosw : BOOLEAN]
    BY DEF NoPrior
  <2>2. NoCtx \in [cands : SUBSET Sources, validate : BOOLEAN]
    BY DEF NoCtx
  <2> QED BY <2>1, <2>2, RouteAssumption DEF Init, TypeOK, Links
<1>2. Trust
  BY Names DEF Init, Trust, NoPrior
<1>3. ASSUME NEW t \in Tasks PROVE Sound(t)
  BY Names DEF Init, Sound, LabelTrue, Named, PendingWaits, TriedMarked, MarkedTried
<1> QED BY <1>1, <1>2, <1>3 DEF IInv

LEMMA IInvStep == IInv /\ [Next]_vars => IInv'
BY TypeStep, SoundStep, TrustStep DEF IInv

LEMMA Inductive == Spec => []IInv
BY InitInv, IInvStep, PTL DEF Spec

-----------------------------------------------------------------------------
(* The theorems *)

(* Every variable of the route decision keeps its type: in particular the  *)
(* link of a download is one that resolve_candidates may find, or direct.  *)
THEOREM TypeCorrect == Spec => []TypeOK
<1>1. IInv => TypeOK
  BY DEF IInv
<1> QED BY <1>1, Inductive, PTL

(* on_task_done: however failures, common retries, pauses, changed settings *)
(* and vanished proxies follow one another, a failover never sends a        *)
(* download to a link on which it has failed since its budget began.        *)
THEOREM LinksNotRepeated == Spec => []EachLinkOnce
<1>1. IInv => EachLinkOnce
  <2> SUFFICES ASSUME IInv, NEW t \in Tasks PROVE pending[t] \notin tried[t]
    BY DEF EachLinkOnce
  <2>1. tried[t] \subseteq Links /\ Sound(t)
    BY DEF IInv, TypeOK
  <2> QED BY <2>1, Names DEF Sound, TriedMarked
<1> QED BY <1>1, Inductive, PTL

(* on_task_done: a failed download is given up for want of a link only when *)
(* every candidate and, with a network, the direct link have failed it.     *)
THEOREM LinksExhausted == Spec => NothingUntried
<1>1. ASSUME IInv, [Next]_vars,
             NEW t \in Tasks, NEW r \in BOOLEAN, st'[t] # st[t], st'[t] = "error", Fail(t, r)
      PROVE /\ (IF cache' = "noswitch" \/ prior.nosw THEN {} ELSE cands) \subseteq tried'[t]
            /\ r => "direct" \in tried'[t]
  <2> DEFINE known == IF label[t] \in Sources THEN "none" ELSE cache
             left == IF known = "noswitch" \/ prior.nosw THEN {} ELSE cands \ Marked(t)
             target == auto_failover_target(left, Marked(t), r)
  <2>1. TypeOK /\ Sound(t)
    BY <1>1 DEF IInv
  <2>2. target = "none"
    BY <1>1, <2>1 DEF Fail, TypeOK
  <2>3. /\ cache' = known /\ tried'[t] = tried[t] \cup {Taken(t)} /\ st[t] = "running"
    BY <1>1, <2>1 DEF Fail, TypeOK
  <2>4. left = {} /\ (r => "direct" \in Marked(t))
    <3>1. left \in SUBSET Sources /\ left \cap Marked(t) = {}
      BY <2>1 DEF TypeOK
    <3> HIDE DEF left
    <3> QED BY <2>1, <2>2, <3>1, TargetFacts
  <2>5. Marked(t) \subseteq tried'[t]
    BY <2>1, <2>3 DEF Sound, LabelTrue, MarkedTried, Marked, Taken
  <2> QED BY <2>3, <2>4, <2>5
<1>2. IInv /\ [Next]_vars =>
        [\A t \in Tasks, r \in BOOLEAN : st'[t] # st[t] /\ st'[t] = "error" /\ Fail(t, r) =>
          /\ (IF cache' = "noswitch" \/ prior.nosw THEN {} ELSE cands) \subseteq tried'[t]
          /\ r => "direct" \in tried'[t]]_vars
  BY <1>1
<1> QED BY <1>2, Inductive, PTL DEF Spec, NothingUntried

(* auto_route_decision: a start that is not a failover takes a proxy only   *)
(* if one has proved itself since the last failure of a proxy and since the *)
(* last change of the settings, whatever lease or prior is left.            *)
THEOREM TakeoffFounded == Spec => NoBlindTakeoff
<1>1. ASSUME IInv, [Next]_vars, NEW t \in Tasks, st[t] # "running", st'[t] = "running",
             pending[t] = "none", route'[t] \in Sources
      PROVE evidence
  <2>1. TypeOK /\ ((cache \in Sources \/ prior.proxy) => evidence)
    BY <1>1 DEF IInv, Trust
  <2>2. PICK b \in BOOLEAN : Start(t, b) \/ Retry(t, b) \/ resume_task(t, b)
    <3>1. ASSUME NEW u \in Tasks, NEW b \in BOOLEAN, Start(u, b) \/ Retry(u, b) \/ resume_task(u, b)
          PROVE u = t
      BY <1>1, <2>1, <3>1 DEF Start, Retry, resume_task, Resume, Launch, TypeOK
    <3>2. ASSUME NEW u \in Tasks, NEW b \in BOOLEAN, Fail(u, b) PROVE FALSE
      BY <1>1, <2>1, <3>2 DEF Fail, AutoRetry, GiveUp, TypeOK
    <3>3. ASSUME NEW u \in Tasks, Tick(u) \/ Collect(u) \/ Complete(u) \/ Refused(u) \/ Pause(u)
          PROVE FALSE
      BY <1>1, <2>1, <3>3 DEF Tick, Collect, Complete, Refused, Pause, AutoRetry, GiveUp, TypeOK
    <3>4. ASSUME set_proxy_config \/ Expire \/ NetworkChanges \/ UNCHANGED vars PROVE FALSE
      BY <1>1, <3>4 DEF set_proxy_config, Expire, NetworkChanges, vars, taskVars
    <3> QED BY <1>1, <3>1, <3>2, <3>3, <3>4 DEF Next
  <2>3. /\ partial[t] \in BOOLEAN
        /\ \/ Launch(t, auto_route_decision(FALSE, pending[t]), FALSE, b)
           \/ Launch(t, auto_route_decision(partial[t], pending[t]), TRUE, b)
    BY <1>1, <2>1, <2>2 DEF Start, Retry, resume_task, Resume, TypeOK
  <2> QED BY <1>1, <2>1, <2>3, Launched
<1>2. IInv /\ [Next]_vars =>
        [\A t \in Tasks : st[t] # "running" /\ st'[t] = "running" /\ pending[t] = "none"
          /\ route'[t] \in Sources => evidence]_vars
  BY <1>1
<1> QED BY <1>2, Inductive, PTL DEF Spec, NoBlindTakeoff
=============================================================================

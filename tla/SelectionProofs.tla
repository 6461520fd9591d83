-------------------------- MODULE SelectionProofs --------------------------
(***************************************************************************)
(* Selection for any number of questions, interfaces and programs: no      *)
(* question without an audience, nobody left behind, the first answer      *)
(* wins, and a late one is a conflict.                                     *)
(***************************************************************************)
EXTENDS Selection, FiniteSetTheorems, TLAPS

(* The interfaces the gateway has counted. *)
Present == {"joining", "subscribing", "in"}
Counted == {u \in UIs : ui[u] \in Present}

(* The counter is the number of these. *)
Counter == clients = Cardinality(Counted)

(* A call on the connection has its caller waiting for it. *)
Waiting ==
    link => \A i \in DOMAIN wire[conn] :
        LET q == wire[conn][i]
        IN ui[q.ui] = IF q.op = "subscribe" THEN "subscribing" ELSE "unsubscribing"

(* The agent's connection is subscribed only for somebody who is there, or *)
(* who has still to unsubscribe it, or whose call to do so is on the way.  *)
Subscription ==
    link /\ conn \in subscribers =>
        \/ clients > 0
        \/ \E u \in UIs : ui[u] = "leaving"
        \/ \E i \in DOMAIN wire[conn] : wire[conn][i].op = "unsubscribe"

(* The sessions and the subscriptions are of connections that there were,  *)
(* each subscription is of a session, and nothing was written on a         *)
(* connection to come.                                                     *)
Numbered ==
    /\ \A c \in sessions : c <= conn
    /\ subscribers \subseteq Others \cup sessions
    /\ \A c \in Connections : c > conn => wire[c] = <<>>
    /\ ~link => conn < MaxLost

(* A question that is open is not answered, and its download has not gone  *)
(* on; one that was never asked is not answered either.                    *)
Open ==
    \A r \in Requests :
        /\ r \in pending => waiter[r] \in {"waiting", "elapsed", "dropped"}
        /\ r \in pending \/ waiter[r] = "new" => accepted[r] = {} /\ slot[r] = "empty"

(* Whatever answer is under way or has arrived is the one accepted. *)
Sole ==
    \A r \in Requests :
        /\ accepted[r] = {} \/ \E a \in Answers \cup {"cancelled"} : accepted[r] = {a}
        /\ slot[r] \notin {"empty", "default"} => slot[r] \in accepted[r]
        /\ result[r] \notin {"empty", "default"} => result[r] \in accepted[r]
        /\ "cancelled" \in accepted[r] => KindOf(r) # "hls"

(* What TypeOK leaves open. *)
Typed ==
    /\ TypeOK
    /\ accepted \in [Requests -> SUBSET (Answers \cup {"cancelled"})]

Inv == Typed /\ Counter /\ Waiting /\ Subscription /\ Numbered /\ Audience /\ Open /\ Sole

-----------------------------------------------------------------------------
(* Counting *)

(* One more interface is counted. *)
LEMMA CountOneMore ==
    ASSUME NEW f \in [UIs -> Standing], NEW u \in UIs, f[u] \notin Present,
           NEW s \in Present, NEW g, g = [f EXCEPT ![u] = s]
    PROVE  Cardinality({v \in UIs : g[v] \in Present}) = Cardinality({v \in UIs : f[v] \in Present}) + 1
<1> DEFINE c == {v \in UIs : f[v] \in Present}
<1>1. IsFiniteSet(c)
  BY UIsAssumption, FS_Subset
<1>2. u \notin c /\ {v \in UIs : g[v] \in Present} = c \cup {u}
  OBVIOUS
<1> QED BY <1>1, <1>2, FS_AddElement

(* One interface less is counted, and there was one. *)
LEMMA CountOneLess ==
    ASSUME NEW f \in [UIs -> Standing], NEW u \in UIs, f[u] \in Present,
           NEW s \in Standing \ Present, NEW g, g = [f EXCEPT ![u] = s]
    PROVE  /\ Cardinality({v \in UIs : g[v] \in Present}) = Cardinality({v \in UIs : f[v] \in Present}) - 1
           /\ Cardinality({v \in UIs : f[v] \in Present}) \in Nat \ {0}
<1> DEFINE c == {v \in UIs : f[v] \in Present}
<1>1. IsFiniteSet(c)
  BY UIsAssumption, FS_Subset
<1>2. u \in c /\ {v \in UIs : g[v] \in Present} = c \ {u}
  OBVIOUS
<1>3. Cardinality(c \ {u}) = Cardinality(c) - 1
  BY <1>1, <1>2, FS_RemoveElement
<1>4. Cardinality(c) \in Nat /\ Cardinality(c) # 0
  BY <1>1, <1>2, FS_CardinalityType, FS_EmptySet
<1> QED BY <1>2, <1>3, <1>4

(* Who is counted makes the counter positive. *)
LEMMA SomebodyCounted ==
    ASSUME Counter, NEW u \in UIs, ui[u] \in Present
    PROVE  clients > 0
<1>1. u \in Counted /\ IsFiniteSet(Counted)
  BY UIsAssumption, FS_Subset DEF Counted
<1> QED BY <1>1, FS_EmptySet, FS_CardinalityType DEF Counter

-----------------------------------------------------------------------------
(* The steps *)

(* The answers an outcome may be. *)
Outcomes == Answers \cup {"cancelled"}

(* The actions of one question. *)
RequestStep(r) ==
    \/ begin(r) \/ Receive(r) \/ Elapse(r) \/ timeout(r) \/ CancelWait(r)
    \/ PublishPending(r) \/ PublishResolved(r)
    \/ \E a \in Outcomes : Answer(r, a)

(* The actions of one interface. *)
GatewayStep(u) ==
    \/ add_selection_client(u) \/ remove_selection_client(u)
    \/ CallSubscribe(u) \/ CallUnsubscribe(u) \/ Return(u)

(* The actions of one session of the agent. *)
SessionStep(c) == Serve(c) \/ SessionEnds(c) \/ SessionFails(c)

(* Next, by who acts. *)
LEMMA NextCases ==
    Next <=> \/ \E r \in Requests : RequestStep(r)
             \/ \E u \in UIs : GatewayStep(u)
             \/ \E c \in Connections : SessionStep(c)
             \/ \E c \in Others : Subscribe(c) \/ Unsubscribe(c)
             \/ LinkLost \/ LinkRestored \/ resolve_all_defaults
BY DEF Next, RequestStep, GatewayStep, SessionStep, Outcomes

(* Ending questions by default keeps the types. *)
LEMMA DefaultTyped ==
    ASSUME Typed, Default(pending)
    PROVE  /\ pending' = {}
           /\ slot' \in [Requests -> Answers \cup {"empty", "default", "cancelled"}]
           /\ \A r \in Requests : slot'[r] = slot[r] \/ (r \in pending /\ slot'[r] = "default")
BY DEF Default, Typed, TypeOK

(* A connection that leaves: either others remain and nothing ends, or all *)
(* questions do.                                                           *)
LEMMA UnsubscribeTyped ==
    ASSUME Typed, NEW c, unsubscribe(c)
    PROVE  /\ subscribers' = subscribers \ {c}
           /\ pending' \subseteq pending
           /\ subscribers' = {} => pending' = {}
           /\ slot' \in [Requests -> Answers \cup {"empty", "default", "cancelled"}]
           /\ \A r \in Requests : slot'[r] = slot[r] \/ (r \in pending /\ r \notin pending' /\ slot'[r] = "default")
<1>1. CASE subscribers' # {}
  BY <1>1 DEF unsubscribe, Typed, TypeOK
<1>2. CASE subscribers' = {}
  BY <1>2, DefaultTyped DEF unsubscribe
<1> QED BY <1>1, <1>2

(* What a session does: it reads its next call or ends, and its connection *)
(* subscribes or is unsubscribed.                                          *)
LEMMA SessionTyped ==
    ASSUME Typed, NEW c \in Connections, SessionStep(c)
    PROVE  /\ c \in sessions
           /\ \/ subscribers' = subscribers \cup {c} /\ UNCHANGED <<pending, slot, retract>>
              \/ unsubscribe(c)
           /\ UNCHANGED <<waiter, result, accepted, announce, prompts, shown, gatewayVars, conn, link>>
BY DEF SessionStep, Serve, SessionEnds, SessionFails, disconnect

(* Init has the types and counts nobody. *)
LEMMA InitTyped == Init => Typed /\ Counter
<1> SUFFICES ASSUME Init PROVE Typed /\ Counter
  OBVIOUS
<1>1. Typed
  BY SelectionAssumption DEF Init, Typed, TypeOK, Connections, Standing
<1>2. Counted = {}
  BY DEF Init, Counted, Present
<1>3. Counter
  BY <1>2, FS_EmptySet DEF Init, Counter
<1> QED BY <1>1, <1>3

(* Every step keeps the types and the count. *)
LEMMA TypedStep ==
    ASSUME Typed, Counter, Numbered, [Next]_vars
    PROVE  Typed' /\ Counter'
<1> USE DEF Typed, TypeOK
<1>1. CASE UNCHANGED vars
  BY <1>1 DEF vars, hubVars, gatewayVars, linkVars, Counter, Counted
<1>2. ASSUME NEW r \in Requests, RequestStep(r) PROVE Typed' /\ Counter'
  <2> USE DEF gatewayVars, linkVars, Counter, Counted
  <2>1. CASE begin(r)
    BY <2>1 DEF begin
  <2>2. CASE Receive(r)
    BY <2>2 DEF Receive, hubVars
  <2>3. CASE Elapse(r)
    BY <2>3 DEF Elapse, hubVars
  <2>4. CASE timeout(r)
    BY <2>4 DEF timeout, Withdraw
  <2>5. CASE CancelWait(r)
    BY <2>5 DEF CancelWait, hubVars
  <2>6. CASE PublishPending(r) \/ PublishResolved(r)
    BY <2>6 DEF PublishPending, PublishResolved
  <2>7. ASSUME NEW a \in Outcomes, Answer(r, a) PROVE Typed' /\ Counter'
    BY <2>7 DEF Answer, resolve, Take, Outcomes
  <2> QED BY <1>2, <2>1, <2>2, <2>3, <2>4, <2>5, <2>6, <2>7 DEF RequestStep
<1>3. ASSUME NEW u \in UIs, GatewayStep(u) PROVE Typed' /\ Counter'
  <2>1. CASE add_selection_client(u)
    <3>0. PICK s \in Present : ui[u] \notin Present /\ ui' = [ui EXCEPT ![u] = s]
      BY <2>1 DEF add_selection_client, Present
    <3>1. Cardinality({v \in UIs : ui'[v] \in Present}) = Cardinality(Counted) + 1
      <4>1. ui \in [UIs -> Standing]
        OBVIOUS
      <4>2. \A g : g = [ui EXCEPT ![u] = s] =>
                Cardinality({v \in UIs : g[v] \in Present}) = Cardinality({v \in UIs : ui[v] \in Present}) + 1
        BY <3>0, <4>1, CountOneMore
      <4> QED BY <3>0, <4>2 DEF Counted
    <3>2. ui' \in [UIs -> Standing]
      BY <2>1 DEF add_selection_client, Standing
    <3> QED BY <2>1, <3>1, <3>2 DEF add_selection_client, hubVars, linkVars, Counter, Counted
  <2>2. CASE remove_selection_client(u)
    <3>0. PICK s \in Standing \ Present : ui[u] \in Present /\ ui' = [ui EXCEPT ![u] = s]
      BY <2>2 DEF remove_selection_client, Present, Standing
    <3>1. /\ Cardinality({v \in UIs : ui'[v] \in Present}) = Cardinality(Counted) - 1
          /\ Cardinality(Counted) \in Nat \ {0}
      <4>1. ui \in [UIs -> Standing]
        OBVIOUS
      <4>2. \A g : g = [ui EXCEPT ![u] = s] =>
                /\ Cardinality({v \in UIs : g[v] \in Present}) = Cardinality({v \in UIs : ui[v] \in Present}) - 1
                /\ Cardinality({v \in UIs : ui[v] \in Present}) \in Nat \ {0}
        BY <3>0, <4>1, CountOneLess
      <4> QED BY <3>0, <4>2 DEF Counted
    <3>2. ui' \in [UIs -> Standing]
      BY <2>2 DEF remove_selection_client, Standing
    <3> QED BY <2>2, <3>1, <3>2 DEF remove_selection_client, hubVars, linkVars, Counter, Counted
  <2>3. CASE CallSubscribe(u) \/ CallUnsubscribe(u)
    <3>1. PICK op \in {"subscribe", "unsubscribe"} : Write(op, u)
      BY <2>3 DEF CallSubscribe, CallUnsubscribe
    <3>2. wire' \in [Connections -> Seq(Calls)]
      <4>1. [op |-> op, ui |-> u] \in Calls
        BY DEF Calls
      <4>2. Append(wire[conn], [op |-> op, ui |-> u]) \in Seq(Calls)
        BY <4>1
      <4> QED BY <3>1, <4>2 DEF Write
    <3>3. ui' \in [UIs -> Standing] /\ Counted' = Counted
      BY <2>3 DEF CallSubscribe, CallUnsubscribe, Counted, Present, Standing
    <3> QED BY <3>1, <3>2, <3>3 DEF Write, hubVars, Counter
  <2>4. CASE Return(u)
    <3>1. ui' \in [UIs -> Standing] /\ Counted' = Counted
      BY <2>4 DEF Return, Counted, Present, Standing
    <3> QED BY <2>4, <3>1 DEF Return, hubVars, linkVars, Counter
  <2> QED BY <1>3, <2>1, <2>2, <2>3, <2>4 DEF GatewayStep
<1>4. ASSUME NEW c \in Connections, SessionStep(c) PROVE Typed' /\ Counter'
  <2>1. wire' \in [Connections -> Seq(Calls)] /\ sessions' \subseteq Connections
    <3>1. wire[c] # <<>> => Tail(wire[c]) \in Seq(Calls)
      OBVIOUS
    <3> QED BY <1>4, <3>1 DEF SessionStep, Serve, SessionEnds, SessionFails, disconnect
  <2>2. CASE unsubscribe(c)
    BY <1>4, <2>1, <2>2, SessionTyped, UnsubscribeTyped DEF gatewayVars, Counter, Counted
  <2>3. CASE subscribers' = subscribers \cup {c} /\ UNCHANGED <<pending, slot, retract>>
    BY <1>4, <2>1, <2>3, SessionTyped DEF gatewayVars, Counter, Counted
  <2> QED BY <1>4, <2>2, <2>3, SessionTyped
<1>5. ASSUME NEW c \in Others, Subscribe(c) \/ Unsubscribe(c) PROVE Typed' /\ Counter'
  <2>1. CASE Subscribe(c)
    BY <2>1 DEF Subscribe, hubVars, gatewayVars, linkVars, Counter, Counted
  <2>2. CASE Unsubscribe(c)
    BY <2>2, UnsubscribeTyped DEF Unsubscribe, gatewayVars, linkVars, Counter, Counted
  <2> QED BY <1>5, <2>1, <2>2
<1>6. CASE LinkLost
  BY <1>6 DEF LinkLost, hubVars, gatewayVars, Counter, Counted
<1>7. CASE LinkRestored
  <2>1. conn + 1 \in Connections
    BY <1>7, SelectionAssumption DEF LinkRestored, Numbered, Connections
  <2> QED BY <1>7, <2>1 DEF LinkRestored, hubVars, gatewayVars, Counter, Counted
<1>8. CASE resolve_all_defaults
  BY <1>8, DefaultTyped DEF resolve_all_defaults, gatewayVars, linkVars, Counter, Counted
<1> QED BY <1>1, <1>2, <1>3, <1>4, <1>5, <1>6, <1>7, <1>8, NextCases

(* The connections stay in order: no session or subscription of one to     *)
(* come, no subscription without a session.                                *)
LEMMA NumberedStep ==
    ASSUME Typed, Numbered, [Next]_vars
    PROVE  Numbered'
<1> USE DEF Numbered
<1>1. CASE UNCHANGED vars
  BY <1>1 DEF vars, linkVars
<1>2. ASSUME NEW r \in Requests, RequestStep(r) PROVE Numbered'
  <2>1. UNCHANGED <<subscribers, linkVars>>
    BY <1>2 DEF RequestStep, begin, Receive, Elapse, timeout, CancelWait, PublishPending,
                PublishResolved, Answer, resolve
  <2> QED BY <2>1 DEF linkVars
<1>3. ASSUME NEW u \in UIs, GatewayStep(u) PROVE Numbered'
  <2>1. UNCHANGED <<subscribers, sessions, conn, link>>
    BY <1>3 DEF GatewayStep, add_selection_client, remove_selection_client, CallSubscribe,
                CallUnsubscribe, Return, Write, linkVars
  <2>2. \A c \in Connections : c > conn => wire'[c] = wire[c]
    <3>1. conn \in Nat /\ wire \in [Connections -> Seq(Calls)]
      BY SelectionAssumption DEF Typed, TypeOK, Connections
    <3>2. ASSUME NEW op, Write(op, u) PROVE \A c \in Connections : c # conn => wire'[c] = wire[c]
      BY <3>1, <3>2 DEF Write
    <3>3. \A c \in Connections : c > conn => c # conn
      BY <3>1 DEF Connections
    <3> QED BY <1>3, <3>2, <3>3
            DEF GatewayStep, add_selection_client, remove_selection_client, CallSubscribe,
                CallUnsubscribe, Return, linkVars
  <2> QED BY <2>1, <2>2
<1>4. ASSUME NEW c \in Connections, SessionStep(c) PROVE Numbered'
  <2>1. c \in sessions /\ c \notin Others /\ UNCHANGED <<conn, link>> /\ c <= conn
    BY <1>4, SessionTyped, SelectionAssumption
  <2>2. sessions' \subseteq sessions /\ subscribers' \subseteq Others \cup sessions'
    <3>1. CASE Serve(c)
      BY <2>1, <3>1, UnsubscribeTyped DEF Serve
    <3>2. CASE SessionEnds(c) \/ SessionFails(c)
      BY <3>2, UnsubscribeTyped DEF SessionEnds, SessionFails, disconnect
    <3> QED BY <1>4, <3>1, <3>2 DEF SessionStep
  <2>3. \A d \in Connections : d > conn => wire'[d] = wire[d]
    BY <1>4, <2>1 DEF SessionStep, Serve, SessionEnds, SessionFails, Typed, TypeOK, Connections
  <2> QED BY <2>1, <2>2, <2>3
<1>5. ASSUME NEW c \in Others, Subscribe(c) \/ Unsubscribe(c) PROVE Numbered'
  <2>1. subscribers' \subseteq subscribers \cup Others /\ UNCHANGED linkVars
    BY <1>5, UnsubscribeTyped DEF Subscribe, Unsubscribe
  <2> QED BY <2>1 DEF linkVars
<1>6. CASE LinkLost
  BY <1>6 DEF LinkLost
<1>7. CASE LinkRestored
  BY <1>7 DEF LinkRestored, Typed, TypeOK, Connections
<1>8. CASE resolve_all_defaults
  BY <1>8 DEF resolve_all_defaults, linkVars
<1> QED BY <1>1, <1>2, <1>3, <1>4, <1>5, <1>6, <1>7, <1>8, NextCases

(* A call on the connection keeps its caller waiting. *)
LEMMA WaitingStep ==
    ASSUME Typed, Numbered, Waiting, [Next]_vars
    PROVE  Waiting'
<1> USE DEF Waiting
<1>1. CASE UNCHANGED vars
  BY <1>1 DEF vars, gatewayVars, linkVars
<1>2. ASSUME NEW r \in Requests, RequestStep(r) PROVE Waiting'
  <2>1. UNCHANGED <<gatewayVars, linkVars>>
    BY <1>2 DEF RequestStep, begin, Receive, Elapse, timeout, CancelWait, PublishPending,
                PublishResolved, Answer, resolve
  <2> QED BY <2>1 DEF gatewayVars, linkVars
<1>3. ASSUME NEW u \in UIs, GatewayStep(u) PROVE Waiting'
  <2>1. CASE add_selection_client(u) \/ remove_selection_client(u)
    <3>1. ASSUME NEW i \in DOMAIN wire[conn], link PROVE ui'[wire[conn][i].ui] = ui[wire[conn][i].ui]
      <4>1. wire[conn] \in Seq(Calls) /\ wire[conn][i] \in Calls
        BY <3>1 DEF Typed, TypeOK
      <4>2. wire[conn][i].ui \in UIs /\ ui[wire[conn][i].ui] \in {"subscribing", "unsubscribing"}
        BY <3>1, <4>1 DEF Calls
      <4> QED BY <2>1, <4>2 DEF add_selection_client, remove_selection_client, Typed, TypeOK
    <3> QED BY <2>1, <3>1 DEF add_selection_client, remove_selection_client, linkVars
  <2>2. CASE CallSubscribe(u) \/ CallUnsubscribe(u)
    <3> DEFINE op == IF ui[u] = "joining" THEN "subscribe" ELSE "unsubscribe"
    <3>1. /\ ui[u] \in {"joining", "leaving"}
          /\ ui' = [ui EXCEPT ![u] = IF op = "subscribe" THEN "subscribing" ELSE "unsubscribing"]
          /\ wire' = [wire EXCEPT ![conn] = Append(@, [op |-> op, ui |-> u])]
          /\ link /\ UNCHANGED conn
      BY <2>2 DEF CallSubscribe, CallUnsubscribe, Write
    <3>2. wire[conn] \in Seq(Calls) /\ wire'[conn] = Append(wire[conn], [op |-> op, ui |-> u])
      BY <3>1 DEF Typed, TypeOK
    <3>3. ASSUME NEW i \in DOMAIN wire'[conn]
          PROVE  LET q == wire'[conn][i]
                 IN ui'[q.ui] = IF q.op = "subscribe" THEN "subscribing" ELSE "unsubscribing"
      <4>1. CASE i \in DOMAIN wire[conn]
        <5>1. wire'[conn][i] = wire[conn][i] /\ wire[conn][i] \in Calls
          BY <3>2, <4>1
        <5>2. wire[conn][i].ui \in UIs /\ wire[conn][i].ui # u
          BY <3>1, <4>1, <5>1 DEF Calls
        <5> QED BY <3>1, <4>1, <5>1, <5>2 DEF Typed, TypeOK
      <4>2. CASE i \notin DOMAIN wire[conn]
        <5>1. wire'[conn][i] = [op |-> op, ui |-> u]
          BY <3>2, <4>2
        <5> QED BY <3>1, <5>1 DEF Typed, TypeOK
      <4> QED BY <4>1, <4>2
    <3> QED BY <3>1, <3>3
  <2>3. CASE Return(u)
    <3>1. ASSUME link, NEW i \in DOMAIN wire[conn] PROVE ui'[wire[conn][i].ui] = ui[wire[conn][i].ui]
      <4>1. wire[conn][i].ui # u
        BY <2>3, <3>1 DEF Return, Awaiting
      <4>2. wire[conn][i] \in Calls
        BY <3>1 DEF Typed, TypeOK
      <4> QED BY <2>3, <4>1, <4>2 DEF Return, Typed, TypeOK, Calls
    <3> QED BY <2>3, <3>1 DEF Return, linkVars
  <2> QED BY <1>3, <2>1, <2>2, <2>3 DEF GatewayStep
<1>4. ASSUME NEW c \in Connections, SessionStep(c) PROVE Waiting'
  <2>1. UNCHANGED <<ui, conn, link>>
    BY <1>4, SessionTyped DEF gatewayVars
  <2>2. CASE wire'[conn] = wire[conn]
    BY <2>1, <2>2
  <2>3. CASE wire'[conn] # wire[conn]
    <3>1. wire[conn] \in Seq(Calls) /\ wire[conn] # <<>> /\ wire'[conn] = Tail(wire[conn])
      BY <1>4, <2>3 DEF SessionStep, Serve, SessionEnds, SessionFails, Typed, TypeOK
    <3>2. ASSUME NEW i \in DOMAIN wire'[conn]
          PROVE  i + 1 \in DOMAIN wire[conn] /\ wire'[conn][i] = wire[conn][i + 1]
      BY <3>1
    <3> QED BY <2>1, <3>2
  <2> QED BY <2>2, <2>3
<1>5. ASSUME NEW c \in Others, Subscribe(c) \/ Unsubscribe(c) PROVE Waiting'
  BY <1>5 DEF Subscribe, Unsubscribe, gatewayVars, linkVars
<1>6. CASE LinkLost
  BY <1>6 DEF LinkLost
<1>7. CASE LinkRestored
  <2>1. conn' \in Connections /\ conn' > conn
    BY <1>7, SelectionAssumption DEF LinkRestored, Numbered, Connections, Typed, TypeOK
  <2>2. wire'[conn'] = <<>>
    BY <1>7, <2>1 DEF LinkRestored, Numbered
  <2> QED BY <2>2
<1>8. CASE resolve_all_defaults
  BY <1>8 DEF resolve_all_defaults, gatewayVars, linkVars
<1> QED BY <1>1, <1>2, <1>3, <1>4, <1>5, <1>6, <1>7, <1>8, NextCases

(* The agent's connection stays subscribed only for somebody. *)
LEMMA SubscriptionStep ==
    ASSUME Typed, Counter, Numbered, Waiting, Subscription, [Next]_vars
    PROVE  Subscription'
<1> USE DEF Subscription
<1>1. CASE UNCHANGED vars
  BY <1>1 DEF vars, gatewayVars, linkVars
<1>2. ASSUME NEW r \in Requests, RequestStep(r) PROVE Subscription'
  <2>1. UNCHANGED <<subscribers, gatewayVars, linkVars>>
    BY <1>2 DEF RequestStep, begin, Receive, Elapse, timeout, CancelWait, PublishPending,
                PublishResolved, Answer, resolve
  <2> QED BY <2>1 DEF gatewayVars, linkVars
<1>3. ASSUME NEW u \in UIs, GatewayStep(u) PROVE Subscription'
  <2> USE DEF Typed, TypeOK
  <2>1. CASE add_selection_client(u)
    BY <2>1 DEF add_selection_client, linkVars
  <2>2. CASE remove_selection_client(u)
    <3>1. clients > 0
      BY <2>2, SomebodyCounted DEF remove_selection_client, Present
    <3>2. CASE clients = 1
      BY <2>2, <3>2 DEF remove_selection_client, IsLast
    <3>3. CASE clients # 1
      BY <2>2, <3>1, <3>3 DEF remove_selection_client
    <3> QED BY <3>2, <3>3
  <2>3. CASE CallSubscribe(u)
    <3>1. clients > 0
      BY <2>3, SomebodyCounted DEF CallSubscribe, Present
    <3> QED BY <2>3, <3>1 DEF CallSubscribe, Write
  <2>4. CASE CallUnsubscribe(u)
    <3>1. wire[conn] \in Seq(Calls) /\ wire'[conn] = Append(wire[conn], [op |-> "unsubscribe", ui |-> u])
      BY <2>4 DEF CallUnsubscribe, Write
    <3>2. /\ Len(wire[conn]) + 1 \in DOMAIN wire'[conn]
          /\ wire'[conn][Len(wire[conn]) + 1].op = "unsubscribe"
      BY <3>1
    <3> QED BY <2>4, <3>2 DEF CallUnsubscribe, Write
  <2>5. CASE Return(u)
    BY <2>5 DEF Return, linkVars
  <2> QED BY <1>3, <2>1, <2>2, <2>3, <2>4, <2>5 DEF GatewayStep
<1>4. ASSUME NEW c \in Connections, SessionStep(c), link, conn \in subscribers'
      PROVE  Subscription'
  <2>1. UNCHANGED <<ui, clients, conn, link>>
    BY <1>4, SessionTyped DEF gatewayVars
  <2>2. CASE c = conn
    <3>1. Serve(c) /\ Head(wire[c]).op = "subscribe"
      BY <1>4, <2>2, UnsubscribeTyped DEF SessionStep, Serve, SessionEnds, SessionFails, disconnect
    <3>2. wire[conn] \in Seq(Calls) /\ 1 \in DOMAIN wire[conn] /\ Head(wire[conn]) = wire[conn][1]
      BY <2>2, <3>1 DEF Serve, Typed, TypeOK
    <3>3. wire[conn][1].ui \in UIs /\ ui[wire[conn][1].ui] = "subscribing"
      <4>1. wire[conn][1] \in Calls
        BY <3>2
      <4> QED BY <1>4, <2>2, <3>1, <3>2, <4>1 DEF Waiting, Calls
    <3>4. clients > 0
      BY <3>3, SomebodyCounted DEF Present
    <3> QED BY <2>1, <3>4
  <2>3. CASE c # conn
    <3>1. conn \in subscribers /\ wire'[conn] = wire[conn]
      BY <1>4, <2>3, SessionTyped, UnsubscribeTyped
         DEF SessionStep, Serve, SessionEnds, SessionFails, Typed, TypeOK
    <3> QED BY <1>4, <2>1, <3>1
  <2> QED BY <2>2, <2>3
<1>5. ASSUME NEW c \in Others, Subscribe(c) \/ Unsubscribe(c) PROVE Subscription'
  <2>1. c # conn
    BY SelectionAssumption DEF Typed, TypeOK
  <2>2. (conn \in subscribers' => conn \in subscribers) /\ UNCHANGED <<gatewayVars, linkVars>>
    BY <1>5, <2>1, UnsubscribeTyped DEF Subscribe, Unsubscribe
  <2> QED BY <2>2 DEF gatewayVars, linkVars
<1>6. CASE LinkLost
  BY <1>6 DEF LinkLost
<1>7. CASE LinkRestored
  <2>1. conn' \in Connections /\ conn' > conn /\ subscribers' = subscribers
    BY <1>7, SelectionAssumption DEF LinkRestored, Numbered, Connections, Typed, TypeOK
  <2>2. conn' \notin subscribers'
    <3>1. conn' \notin Others
      BY <2>1, SelectionAssumption
    <3>2. conn \in Nat /\ conn' \in Nat
      BY <2>1, SelectionAssumption DEF Connections, Typed, TypeOK
    <3>3. conn' \notin sessions
      BY <2>1, <3>2 DEF Numbered
    <3> QED BY <2>1, <3>1, <3>3 DEF Numbered
  <2> QED BY <2>2
<1>8. CASE resolve_all_defaults
  BY <1>8 DEF resolve_all_defaults, gatewayVars, linkVars
<1>9. ASSUME NEW c \in Connections, SessionStep(c) PROVE Subscription'
  BY <1>4, <1>9, SessionTyped
<1> QED BY <1>1, <1>2, <1>3, <1>5, <1>6, <1>7, <1>8, <1>9, NextCases

(* A step that does not ask, and takes no subscriber away except by        *)
(* unsubscribe, keeps the audience.                                        *)
LEMMA AudienceStep ==
    ASSUME Typed, Audience, [Next]_vars
    PROVE  Audience'
<1> USE DEF Audience
<1>1. CASE UNCHANGED vars
  BY <1>1 DEF vars
<1>2. ASSUME NEW r \in Requests, RequestStep(r) PROVE Audience'
  <2>1. CASE begin(r)
    BY <2>1 DEF begin
  <2>2. CASE ~begin(r)
    <3>1. pending' \subseteq pending /\ UNCHANGED subscribers
      BY <1>2, <2>2 DEF RequestStep, Receive, Elapse, timeout, Withdraw, CancelWait,
                        PublishPending, PublishResolved, Answer, resolve, Take
    <3> QED BY <3>1
  <2> QED BY <2>1, <2>2
<1>3. ASSUME NEW u \in UIs, GatewayStep(u) PROVE Audience'
  BY <1>3 DEF GatewayStep, add_selection_client, remove_selection_client, CallSubscribe,
              CallUnsubscribe, Return, Write
<1>4. ASSUME NEW c \in Connections, SessionStep(c) PROVE Audience'
  BY <1>4, SessionTyped, UnsubscribeTyped
<1>5. ASSUME NEW c \in Others, Subscribe(c) \/ Unsubscribe(c) PROVE Audience'
  <2>1. CASE Subscribe(c)
    BY <2>1 DEF Subscribe
  <2>2. CASE Unsubscribe(c)
    BY <2>2, UnsubscribeTyped DEF Unsubscribe
  <2> QED BY <1>5, <2>1, <2>2
<1>6. CASE LinkLost \/ LinkRestored
  BY <1>6 DEF LinkLost, LinkRestored
<1>7. CASE resolve_all_defaults
  BY <1>7, DefaultTyped DEF resolve_all_defaults
<1> QED BY <1>1, <1>2, <1>3, <1>4, <1>5, <1>6, <1>7, NextCases

(* Ending questions by default, or leaving them alone, accepts nothing. *)
LEMMA DefaultsKeep ==
    ASSUME Typed, Open, Sole,
           UNCHANGED <<waiter, result, accepted>>,
           pending' \subseteq pending,
           \A r \in Requests : slot'[r] = slot[r] \/ (r \in pending /\ r \notin pending' /\ slot'[r] = "default")
    PROVE  Open' /\ Sole'
<1>1. Open'
  BY DEF Open
<1>2. ASSUME NEW r \in Requests
      PROVE  slot'[r] \notin {"empty", "default"} => slot'[r] \in accepted'[r]
  BY DEF Sole
<1>3. Sole'
  BY <1>2 DEF Sole
<1> QED BY <1>1, <1>3

(* Every step keeps an open question unanswered and the answer the first. *)
LEMMA AnswerStep ==
    ASSUME Typed, Open, Sole, [Next]_vars
    PROVE  Open' /\ Sole'
<1>1. CASE UNCHANGED vars
  BY <1>1, DefaultsKeep DEF vars
<1>2. ASSUME NEW r \in Requests, RequestStep(r) PROVE Open' /\ Sole'
  <2> USE DEF Typed, TypeOK
  <2>1. CASE begin(r)
    <3>1. Open'
      BY <2>1 DEF begin, Open, Sole
    <3>2. Sole'
      BY <2>1 DEF begin, Sole
    <3> QED BY <3>1, <3>2
  <2>2. CASE Receive(r)
    <3>1. Open'
      BY <2>2 DEF Receive, Open
    <3>2. Sole'
      BY <2>2 DEF Receive, Sole
    <3> QED BY <3>1, <3>2
  <2>3. CASE Elapse(r)
    <3>1. Open'
      BY <2>3 DEF Elapse, Open
    <3>2. Sole'
      BY <2>3 DEF Elapse, Sole
    <3> QED BY <3>1, <3>2
  <2>4. CASE timeout(r)
    <3>1. pending' = pending \ {r}
      BY <2>4 DEF timeout, Withdraw
    <3>2. Open'
      BY <2>4, <3>1 DEF timeout, Open
    <3>3. Sole'
      BY <2>4 DEF timeout, Sole
    <3> QED BY <3>2, <3>3
  <2>5. CASE CancelWait(r)
    <3>1. Open'
      BY <2>5 DEF CancelWait, Open
    <3>2. Sole'
      BY <2>5 DEF CancelWait, Sole
    <3> QED BY <3>1, <3>2
  <2>6. CASE PublishPending(r) \/ PublishResolved(r)
    BY <2>6, DefaultsKeep DEF PublishPending, PublishResolved
  <2>7. ASSUME NEW a \in Outcomes, Answer(r, a) PROVE Open' /\ Sole'
    <3>1. /\ r \in pending /\ pending' = pending \ {r}
          /\ accepted[r] = {} /\ accepted' = [accepted EXCEPT ![r] = {a}]
          /\ slot[r] = "empty" /\ slot' = [slot EXCEPT ![r] = IF waiter[r] = "waiting" THEN a ELSE @]
          /\ waiter[r] # "new"
          /\ UNCHANGED <<waiter, result>>
      BY <2>7 DEF Answer, resolve, Take, Open
    <3>2. a = "cancelled" => KindOf(r) # "hls"
      BY <2>7 DEF Answer, resolve, validate_outcome
    <3>3. Open'
      BY <3>1 DEF Open
    <3>4. Sole'
      BY <3>1, <3>2 DEF Sole, Outcomes
    <3> QED BY <3>3, <3>4
  <2> QED BY <1>2, <2>1, <2>2, <2>3, <2>4, <2>5, <2>6, <2>7 DEF RequestStep
<1>3. ASSUME NEW u \in UIs, GatewayStep(u) PROVE Open' /\ Sole'
  BY <1>3, DefaultsKeep
     DEF GatewayStep, add_selection_client, remove_selection_client, CallSubscribe, CallUnsubscribe,
         Return, Write
<1>4. ASSUME NEW c \in Connections, SessionStep(c) PROVE Open' /\ Sole'
  BY <1>4, SessionTyped, UnsubscribeTyped, DefaultsKeep
<1>5. ASSUME NEW c \in Others, Subscribe(c) \/ Unsubscribe(c) PROVE Open' /\ Sole'
  BY <1>5, UnsubscribeTyped, DefaultsKeep DEF Subscribe, Unsubscribe
<1>6. CASE LinkLost \/ LinkRestored
  BY <1>6, DefaultsKeep DEF LinkLost, LinkRestored
<1>7. CASE resolve_all_defaults
  BY <1>7, DefaultTyped, DefaultsKeep DEF resolve_all_defaults
<1> QED BY <1>1, <1>2, <1>3, <1>4, <1>5, <1>6, <1>7, NextCases

-----------------------------------------------------------------------------
(* The invariant and what follows from it *)

LEMMA Invariance == Spec => []Inv
<1>1. Init => Inv
  BY InitTyped, SelectionAssumption
     DEF Init, Inv, Waiting, Subscription, Numbered, Connections, Audience, Open, Sole
<1>2. Inv /\ [Next]_vars => Inv'
  BY TypedStep, NumberedStep, WaitingStep, SubscriptionStep, AudienceStep, AnswerStep DEF Inv
<1> QED BY <1>1, <1>2, PTL DEF Spec

(* Every variable keeps its type, the gateway's counter included: it is    *)
(* never decremented below zero.                                           *)
THEOREM TypeCorrect == Spec => []TypeOK
<1>1. Inv => TypeOK
  BY DEF Inv, Typed
<1> QED BY <1>1, Invariance, PTL

(* No question is left open without a subscriber. *)
THEOREM AudienceHolds == Spec => []Audience
<1>1. Inv => Audience
  BY DEF Inv
<1> QED BY <1>1, Invariance, PTL

(* When every interface has left, the agent's connection is not            *)
(* subscribed, and a connection it has lost no longer than its session     *)
(* lives.                                                                  *)
THEOREM NobodyIsLeftBehind == Spec => []NobodyLeftBehind
<1>1. Inv => NobodyLeftBehind
  <2> SUFFICES ASSUME Inv, AllOut, NEW c \in subscribers \ Others
               PROVE  Gone(c) /\ c \in sessions
    BY DEF NobodyLeftBehind
  <2>1. c \in sessions
    BY DEF Inv, Numbered
  <2>2. Counted = {}
    BY DEF AllOut, Counted, Present
  <2>3. clients = 0
    BY <2>2, FS_EmptySet DEF Inv, Counter
  <2>4. ASSUME link, NEW i \in DOMAIN wire[conn] PROVE FALSE
    <3>1. wire[conn][i].ui \in UIs
      <4>1. wire[conn] \in Seq(Calls)
        BY DEF Inv, Typed, TypeOK
      <4>2. wire[conn][i] \in Calls
        BY <2>4, <4>1
      <4> QED BY <4>2 DEF Calls
    <3> QED BY <2>4, <3>1 DEF Inv, Waiting, AllOut
  <2>5. ~(link /\ conn \in subscribers)
    BY <2>3, <2>4 DEF Inv, Subscription, AllOut
  <2> QED BY <2>1, <2>5 DEF Gone
<1> QED BY <1>1, Invariance, PTL

(* At most one answer is accepted, and it is the one the download got. *)
THEOREM FirstAnswerWins == Spec => []FirstWins
<1>1. Inv => FirstWins
  <2> SUFFICES ASSUME Inv, NEW r \in Requests
               PROVE  /\ Cardinality(accepted[r]) <= 1
                      /\ result[r] \notin {"empty", "default"} => result[r] \in accepted[r]
                      /\ result[r] = "cancelled" => KindOf(r) # "hls"
    BY DEF FirstWins
  <2>1. CASE accepted[r] = {}
    BY <2>1, FS_EmptySet DEF Inv, Sole
  <2>2. ASSUME NEW a, accepted[r] = {a} PROVE Cardinality(accepted[r]) <= 1
    BY <2>2, FS_Singleton
  <2> QED BY <2>1, <2>2 DEF Inv, Sole
<1> QED BY <1>1, Invariance, PTL

(* A download that has gone on with its default, or with an answer, is not *)
(* answered again.                                                         *)
THEOREM LateAnswersConflict == Spec => LateConflict
<1>1. ASSUME Inv, [Next]_vars, NEW r \in Requests, accepted'[r] # accepted[r]
      PROVE  waiter[r] \notin {"timedout", "unasked", "chosen"}
  <2>1. ~UNCHANGED accepted
    BY <1>1
  <2>2. \E q \in Requests, a \in Outcomes : Answer(q, a)
    BY <1>1, <2>1, NextCases, SessionTyped
       DEF Inv, RequestStep, begin, Receive, Elapse, timeout, CancelWait, PublishPending, PublishResolved,
           GatewayStep, add_selection_client, remove_selection_client, CallSubscribe, CallUnsubscribe,
           Return, Write, Subscribe, Unsubscribe, LinkLost, LinkRestored, resolve_all_defaults, vars
  <2>3. r \in pending
    BY <1>1, <2>2 DEF Answer, resolve, Inv, Typed
  <2> QED BY <1>1, <2>3 DEF Inv, Open
<1>2. Inv /\ [Next]_vars =>
        [\A r \in Requests : accepted'[r] # accepted[r] => waiter[r] \notin {"timedout", "unasked", "chosen"}]_vars
  BY <1>1
<1> QED BY <1>2, Invariance, PTL DEF Spec, LateConflict
=============================================================================

------------------------------ MODULE Selection ------------------------------
(***************************************************************************)
(* Questions to the user: the quality of an HLS stream, the files of a     *)
(* torrent, the variant a plugin found.  A download asks DaemonSelection   *)
(* and waits; the daemon shows the question to the connections that have   *)
(* subscribed; the first valid answer ends it, and so do the deadline, the *)
(* last subscriber's leaving and the shutdown, with a default.             *)
(*                                                                         *)
(* The user interfaces are not connected to the daemon but to the agent,   *)
(* whose gateway counts those that answer questions and subscribes its one *)
(* connection for the first and unsubscribes it for the last of them.      *)
(* Other programs may connect to the daemon directly.                      *)
(*                                                                         *)
(* The two ends of the agent's connection learn of its end on their own: a *)
(* session of the daemon may outlive its client and still read what the    *)
(* client had written.  Each new connection is a new subscriber.           *)
(*                                                                         *)
(* Every step is one critical section.  What the code does after it has    *)
(* left the lock (publishing to the event hub, the agent's call after its  *)
(* counter has moved) is a step of its own.                                *)
(***************************************************************************)
EXTENDS Naturals, Sequences, FiniteSets

CONSTANTS
    Requests,       \* the questions asked, each by its own download
    KindOf(_),      \* Request -> SelectionType
    UIs,            \* clients of the agent with the capability client.selections
    Others,         \* programs connected to the daemon itself
    Answers,        \* choices a user may make, next to Cancelled
    MaxLost         \* bound: how often the agent's connection is lost

Connections == 0..MaxLost   \* the agent's, in their order: RpcSession::connection_id

ASSUME SelectionAssumption ==
    /\ \A r \in Requests : KindOf(r) \in {"hls", "bt", "variant"}
    /\ Answers \cap {"default", "cancelled", "empty"} = {}
    /\ MaxLost \in Nat
    /\ Others \cap Connections = {}
ASSUME UIsAssumption == IsFiniteSet(UIs)

VARIABLES
    subscribers,    \* SelectionState.subscribers
    pending,        \* SelectionState.pending
    slot,           \* request -> what its oneshot channel holds, or "empty"
    waiter,         \* request -> where the asking download stands
    result,         \* request -> what it got
    accepted,       \* request -> the answers resolve has returned Ok to
    announce,       \* requests whose SelectionPending is yet to be published
    retract,        \* requests whose SelectionResolved is yet to be published
    prompts,        \* pending_selections of the event hub
    shown,          \* requests that have been published
    ui,             \* UI -> its standing with the gateway
    clients,        \* GatewayService.selection_clients
    conn,           \* the agent's latest connection
    link,           \* its client still has it
    wire,           \* connection -> calls its client wrote and its session has not read
    sessions        \* connections whose session is in its loop

hubVars == <<announce, retract, prompts, shown>>
gatewayVars == <<ui, clients>>
linkVars == <<conn, link, wire, sessions>>
vars == <<subscribers, pending, slot, waiter, result, accepted, hubVars, gatewayVars, linkVars>>

Init ==
    /\ subscribers = {} /\ pending = {}
    /\ slot = [r \in Requests |-> "empty"]
    /\ waiter = [r \in Requests |-> "new"]
    /\ result = [r \in Requests |-> "empty"]
    /\ accepted = [r \in Requests |-> {}]
    /\ announce = {} /\ retract = {} /\ prompts = {} /\ shown = {}
    /\ ui = [u \in UIs |-> "out"]
    /\ clients = 0
    /\ conn = 0 /\ link = TRUE /\ sessions = {0}
    /\ wire = [c \in Connections |-> <<>>]

-----------------------------------------------------------------------------
(* DaemonSelection *)

(* The requests of S end with their defaults.  What is sent to a receiver  *)
(* that is gone is lost, and the senders do not look.                      *)
Default(S) ==
    /\ pending' = pending \ S
    /\ slot' = [r \in Requests |-> IF r \in S /\ waiter[r] = "waiting" THEN "default" ELSE slot[r]]
    /\ retract' = retract \cup S

(* Mutant: the questions stay open. *)
unsubscribe_KeepsPending(c) ==
    /\ subscribers' = subscribers \ {c}
    /\ UNCHANGED <<pending, slot, retract>>

unsubscribe(c) ==
    /\ subscribers' = subscribers \ {c}
    /\ IF subscribers' # {} THEN UNCHANGED <<pending, slot, retract>> ELSE Default(pending)

(* Twice at shutdown, the second time for what was asked in between. *)
resolve_all_defaults ==
    /\ pending # {}
    /\ Default(pending)
    /\ UNCHANGED <<subscribers, waiter, result, accepted, announce, prompts, shown, gatewayVars, linkVars>>

(* begin: without a subscriber the download goes on with the default. *)
begin(r) ==
    /\ waiter[r] = "new"
    /\ IF subscribers = {}
       THEN /\ waiter' = [waiter EXCEPT ![r] = "unasked"]
            /\ result' = [result EXCEPT ![r] = "default"]
            /\ UNCHANGED <<pending, announce>>
       ELSE /\ waiter' = [waiter EXCEPT ![r] = "waiting"]
            /\ pending' = pending \cup {r}
            /\ announce' = announce \cup {r}
            /\ UNCHANGED result
    /\ UNCHANGED <<subscribers, slot, accepted, retract, prompts, shown, gatewayVars, linkVars>>

validate_outcome(r, outcome) == KindOf(r) = "hls" => outcome # "cancelled"

(* Mutant: the request is looked up but not taken. *)
Take_Leaves(r) == UNCHANGED pending

Take(r) == pending' = pending \ {r}

(* resolve: called for an answer of a user.  An answer to a request that   *)
(* is not pending, or one that does not fit, is refused.                   *)
resolve(r, outcome) ==
    /\ r \in pending
    /\ validate_outcome(r, outcome)
    /\ Take(r)
    /\ accepted' = [accepted EXCEPT ![r] = @ \cup {outcome}]
    /\ slot' = [slot EXCEPT ![r] = IF waiter[r] = "waiting" THEN outcome ELSE @]
    /\ retract' = retract \cup {r}
    /\ UNCHANGED <<subscribers, waiter, result, announce, prompts, shown, gatewayVars, linkVars>>

(* A user answers what has been shown, late or twice perhaps, over any     *)
(* session the daemon still reads, its client there or gone.               *)
Answer(r, outcome) ==
    /\ r \in shown
    /\ Others \cap subscribers # {} \/ sessions # {}
    /\ resolve(r, outcome)

(* select_*: the channel delivers. *)
Receive(r) ==
    /\ waiter[r] = "waiting"
    /\ slot[r] # "empty"
    /\ waiter' = [waiter EXCEPT ![r] = "chosen"]
    /\ result' = [result EXCEPT ![r] = slot[r]]
    /\ slot' = [slot EXCEPT ![r] = "empty"]
    /\ UNCHANGED <<subscribers, pending, accepted, hubVars, gatewayVars, linkVars>>

(* Mutant: the quality of a stream has no deadline. *)
Elapse_NotForStreams(r) ==
    /\ KindOf(r) # "hls"
    /\ waiter[r] = "waiting"
    /\ slot[r] = "empty"
    /\ waiter' = [waiter EXCEPT ![r] = "elapsed"]
    /\ UNCHANGED <<subscribers, pending, slot, result, accepted, hubVars, gatewayVars, linkVars>>

(* The deadline passes before the channel has delivered ... *)
Elapse(r) ==
    /\ waiter[r] = "waiting"
    /\ slot[r] = "empty"
    /\ waiter' = [waiter EXCEPT ![r] = "elapsed"]
    /\ UNCHANGED <<subscribers, pending, slot, result, accepted, hubVars, gatewayVars, linkVars>>

(* Mutant: the entry is left behind. *)
Withdraw_Forgets(r) == UNCHANGED <<pending, retract>>

Withdraw(r) ==
    IF r \in pending THEN pending' = pending \ {r} /\ retract' = retract \cup {r}
    ELSE UNCHANGED <<pending, retract>>

(* ... and the request is withdrawn. *)
timeout(r) ==
    /\ waiter[r] = "elapsed"
    /\ Withdraw(r)
    /\ waiter' = [waiter EXCEPT ![r] = "timedout"]
    /\ result' = [result EXCEPT ![r] = "default"]
    /\ UNCHANGED <<subscribers, slot, accepted, announce, prompts, shown, gatewayVars, linkVars>>

(* A pause drops an HLS download's wait where it stands. *)
CancelWait(r) ==
    /\ KindOf(r) = "hls"
    /\ waiter[r] = "waiting"
    /\ waiter' = [waiter EXCEPT ![r] = "dropped"]
    /\ slot' = [slot EXCEPT ![r] = "empty"]
    /\ UNCHANGED <<subscribers, pending, result, accepted, hubVars, gatewayVars, linkVars>>

-----------------------------------------------------------------------------
(* DaemonEventHub: publish and apply_event for the two events *)
PublishPending(r) ==
    /\ r \in announce
    /\ announce' = announce \ {r}
    /\ prompts' = prompts \cup {r}
    /\ shown' = shown \cup {r}
    /\ UNCHANGED <<subscribers, pending, slot, waiter, result, accepted, retract, gatewayVars, linkVars>>

(* Mutant: the snapshot keeps the request. *)
PublishResolved_KeepsPrompt(r) ==
    /\ r \in retract
    /\ retract' = retract \ {r}
    /\ UNCHANGED <<prompts, subscribers, pending, slot, waiter, result, accepted, announce, shown, gatewayVars, linkVars>>

PublishResolved(r) ==
    /\ r \in retract
    /\ retract' = retract \ {r}
    /\ prompts' = prompts \ {r}
    /\ UNCHANGED <<subscribers, pending, slot, waiter, result, accepted, announce, shown, gatewayVars, linkVars>>

-----------------------------------------------------------------------------
(* The agent's gateway *)

(* add_selection_client: the first one subscribes, and its hello waits. *)
add_selection_client(u) ==
    /\ ui[u] = "out"
    /\ clients' = clients + 1
    /\ ui' = [ui EXCEPT ![u] = IF clients = 0 THEN "joining" ELSE "in"]
    /\ UNCHANGED <<subscribers, pending, slot, waiter, result, accepted, hubVars, linkVars>>

(* Mutant: the counter is compared after the decrement. *)
IsLast_AfterDecrement == clients - 1 = 1

IsLast == clients = 1

(* remove_selection_client *)
remove_selection_client(u) ==
    /\ ui[u] = "in"
    /\ clients' = clients - 1
    /\ ui' = [ui EXCEPT ![u] = IF IsLast THEN "leaving" ELSE "out"]
    /\ UNCHANGED <<subscribers, pending, slot, waiter, result, accepted, hubVars, linkVars>>

(* DaemonClient::call for DAEMON_SELECTION_SUBSCRIBE and _UNSUBSCRIBE: the *)
(* client takes the command and writes it ...                              *)
Write(op, u) ==
    /\ link
    /\ wire' = [wire EXCEPT ![conn] = Append(@, [op |-> op, ui |-> u])]
    /\ UNCHANGED <<subscribers, pending, slot, waiter, result, accepted, hubVars, clients, conn, link, sessions>>

CallSubscribe(u) ==
    /\ ui[u] = "joining"
    /\ ui' = [ui EXCEPT ![u] = "subscribing"]
    /\ Write("subscribe", u)

CallUnsubscribe(u) ==
    /\ ui[u] = "leaving"
    /\ ui' = [ui EXCEPT ![u] = "unsubscribing"]
    /\ Write("unsubscribe", u)

Awaiting(u) == link /\ \E i \in DOMAIN wire[conn] : wire[conn][i].ui = u

(* ... and the caller goes on, whatever the outcome, with the reply, with  *)
(* the loss of the link, or at once when there is none.                    *)
Return(u) ==
    /\ \/ ui[u] \in {"joining", "leaving"} /\ ~link
       \/ ui[u] \in {"subscribing", "unsubscribing"} /\ ~Awaiting(u)
    /\ ui' = [ui EXCEPT ![u] = IF @ \in {"joining", "subscribing"} THEN "in" ELSE "out"]
    /\ UNCHANGED <<subscribers, pending, slot, waiter, result, accepted, hubVars, clients, linkVars>>

-----------------------------------------------------------------------------
(* Connections *)

(* The session of c reads its next call, whether or not its client is      *)
(* still there.                                                            *)
Serve(c) ==
    /\ c \in sessions /\ wire[c] # <<>>
    /\ wire' = [wire EXCEPT ![c] = Tail(@)]
    /\ IF Head(wire[c]).op = "subscribe"
       THEN subscribers' = subscribers \cup {c} /\ UNCHANGED <<pending, slot, retract>>
       ELSE unsubscribe(c)
    /\ UNCHANGED <<waiter, result, accepted, announce, prompts, shown, gatewayVars, conn, link, sessions>>

(* run_connected ends: the client drops its socket.  The session does not  *)
(* know yet.                                                               *)
LinkLost ==
    /\ link /\ conn < MaxLost
    /\ link' = FALSE
    /\ UNCHANGED <<subscribers, pending, slot, waiter, result, accepted, hubVars, gatewayVars, conn, wire, sessions>>

(* It connects again; the subscription is not renewed. *)
LinkRestored ==
    /\ ~link
    /\ link' = TRUE
    /\ conn' = conn + 1
    /\ sessions' = sessions \cup {conn + 1}
    /\ UNCHANGED <<subscribers, pending, slot, waiter, result, accepted, hubVars, gatewayVars, wire>>

(* The client of c has gone. *)
Gone(c) == ~(link /\ c = conn)

(* Mutant: the session leaves its subscription behind. *)
disconnect_KeepsSubscription(c) ==
    /\ sessions' = sessions \ {c}
    /\ UNCHANGED <<subscribers, pending, slot, retract>>

(* run_socket leaves its loop: RpcSession::disconnect *)
disconnect(c) ==
    /\ sessions' = sessions \ {c}
    /\ unsubscribe(c)

(* The session finds its client gone, with calls unread perhaps ... *)
SessionEnds(c) ==
    /\ c \in sessions /\ Gone(c)
    /\ disconnect(c)
    /\ UNCHANGED <<waiter, result, accepted, announce, prompts, shown, gatewayVars, conn, link, wire>>

(* ... or ends first, because it fell behind or could not write. *)
SessionFails(c) ==
    /\ c \in sessions /\ ~Gone(c) /\ conn < MaxLost
    /\ disconnect(c)
    /\ UNCHANGED <<waiter, result, accepted, announce, prompts, shown, gatewayVars, conn, link, wire>>

Subscribe(c) ==
    /\ c \notin subscribers
    /\ subscribers' = subscribers \cup {c}
    /\ UNCHANGED <<pending, slot, waiter, result, accepted, hubVars, gatewayVars, linkVars>>

Unsubscribe(c) ==
    /\ c \in subscribers
    /\ unsubscribe(c)
    /\ UNCHANGED <<waiter, result, accepted, announce, prompts, shown, gatewayVars, linkVars>>

Next ==
    \/ \E r \in Requests :
        \/ begin(r) \/ Receive(r) \/ Elapse(r) \/ timeout(r) \/ CancelWait(r)
        \/ PublishPending(r) \/ PublishResolved(r)
        \/ \E a \in Answers \cup {"cancelled"} : Answer(r, a)
    \/ \E u \in UIs :
        \/ add_selection_client(u) \/ remove_selection_client(u)
        \/ CallSubscribe(u) \/ CallUnsubscribe(u) \/ Return(u)
    \/ \E c \in Connections : Serve(c) \/ SessionEnds(c) \/ SessionFails(c)
    \/ \E c \in Others : Subscribe(c) \/ Unsubscribe(c)
    \/ LinkLost \/ LinkRestored \/ resolve_all_defaults

Spec == Init /\ [][Next]_vars

(* Timers fire, a woken task runs, and a thread that has left the lock     *)
(* goes on to publish; a session whose client has gone reads the end of    *)
(* the stream.  Nobody has to answer, to stay or to leave.                 *)
Fairness ==
    /\ \A r \in Requests :
        /\ WF_vars(Receive(r) \/ Elapse(r))
        /\ WF_vars(timeout(r))
        /\ WF_vars(PublishPending(r))
        /\ WF_vars(PublishResolved(r))
    /\ \A c \in Connections : WF_vars(SessionEnds(c))

FairSpec == Spec /\ Fairness

-----------------------------------------------------------------------------
Standing == {"out", "joining", "subscribing", "in", "leaving", "unsubscribing"}
Calls == [op : {"subscribe", "unsubscribe"}, ui : UIs]

TypeOK ==
    /\ subscribers \subseteq Others \cup Connections
    /\ pending \subseteq Requests
    /\ slot \in [Requests -> Answers \cup {"empty", "default", "cancelled"}]
    /\ waiter \in [Requests -> {"new", "unasked", "waiting", "elapsed", "chosen", "timedout", "dropped"}]
    /\ result \in [Requests -> Answers \cup {"empty", "default", "cancelled"}]
    /\ prompts \subseteq Requests
    /\ ui \in [UIs -> Standing]
    /\ clients \in Nat
    /\ conn \in Connections /\ link \in BOOLEAN
    /\ wire \in [Connections -> Seq(Calls)]
    /\ sessions \subseteq Connections

(***************************************************************************)
(* No question is left open without a subscriber, whatever connections     *)
(* come and go while it is asked.  (The subscriber may be a session that   *)
(* does not know yet that its client has gone; it ends the question.)      *)
(***************************************************************************)
Audience == pending # {} => subscribers # {}

(***************************************************************************)
(* When the last interface has gone and its calls are through, the agent's *)
(* connection is not subscribed: downloads at night do not wait for an     *)
(* answer.  The counter and the call are two steps, those of several       *)
(* sockets mix, and calls fail with the link.  Only a connection whose     *)
(* client has gone may still be subscribed, and no longer than it has a    *)
(* session.                                                                *)
(***************************************************************************)
AllOut == \A u \in UIs : ui[u] = "out"

NobodyLeftBehind == AllOut => \A c \in subscribers \ Others : Gone(c) /\ c \in sessions

(***************************************************************************)
(* And those subscriptions end too, unless an interface comes first: the   *)
(* session of a lost connection takes its own with it, even one that it    *)
(* read after its client had gone.                                         *)
(***************************************************************************)
SubscriptionEnds == AllOut ~> ~AllOut \/ subscribers \subseteq Others

(***************************************************************************)
(* One answer is accepted at most, and a download that got an answer got   *)
(* that one (a cancelled one only where its kind can be cancelled); else   *)
(* it got its default.                                                     *)
(***************************************************************************)
FirstWins ==
    \A r \in Requests :
        /\ Cardinality(accepted[r]) <= 1
        /\ result[r] \notin {"empty", "default"} => result[r] \in accepted[r]
        /\ result[r] = "cancelled" => KindOf(r) # "hls"

(***************************************************************************)
(* A download that has gone on with its default is not answered any more:  *)
(* a late answer is a conflict ("late replies then get conflict").         *)
(***************************************************************************)
LateConflict ==
    [][\A r \in Requests : accepted'[r] # accepted[r] => waiter[r] \notin {"timedout", "unasked", "chosen"}]_vars

(***************************************************************************)
(* No download waits for ever for its user.                                *)
(***************************************************************************)
WaitEnds == \A r \in Requests : waiter[r] = "waiting" ~> waiter[r] # "waiting" /\ waiter[r] # "elapsed"

(***************************************************************************)
(* A question that was on the screens while it was open disappears from    *)
(* them, unless its download was paused over it.                           *)
(***************************************************************************)
PromptCleared == \A r \in Requests : r \in prompts /\ r \in pending ~> r \notin prompts \/ waiter[r] = "dropped"
=============================================================================

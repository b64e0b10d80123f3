------------------------------ MODULE Gateway -------------------------------
(***************************************************************************)
(* A gateway node from boot to exit (main.rs, shutdown.rs): the checks of  *)
(* its routes, what their handlers do to the stores between two awaits,    *)
(* the streams they leave open, and the drain; beside one execution        *)
(* process (Daemon) and the node's own sweeper.                            *)
(*                                                                         *)
(* A connection carries one request at a time.  A request that is refused  *)
(* or only reads leaves its connection as it was.                          *)
(***************************************************************************)
EXTENDS Daemon

CONSTANTS
    Connections,
    Agendas,        \* what may happen in a behaviour: the requests of each connection,
                    \* the deliveries asked for, the permits of the execution process,
                    \* the intervals it may be started with first, whether it and
                    \* whether the node is told to stop
    Configs,        \* the configurations a node may be started with
    Keys,           \* which keys are set: tenants, admin
    DrainTimeout

ASSUME GatewayConstants ==
    /\ DrainTimeout \in Nat \ {0} /\ IsFiniteSet(Connections)
    /\ \A a \in Agendas : a.slots \subseteq Slots

VARIABLES
    agenda,         \* the one of this behaviour
    node,           \* pc, ticks drained, whether the drain saw nothing in flight
    conns,          \* connection -> the handler it is in, and its response
    store,          \* the carrier: read-only, pending limit, the conversation
    late            \* the responses created during a drain (history)

vars == <<daemonVars, agenda, node, conns, store, late>>

Idle == [pc |-> "idle", response |-> None]

Init ==
    /\ DaemonInit
    /\ agenda \in Agendas
    /\ daemon.every \in {HeartbeatEvery(interval) : interval \in agenda.intervals}
    /\ node = [pc |-> "starting", waited |-> 0, drained |-> FALSE]
    /\ conns = [c \in Connections |-> Idle]
    /\ store = [readOnly |-> FALSE, limit |-> 1, conversation |-> FALSE]
    /\ late = {}

----------------------------------------------------------------------------
(* main: configuration, keys, stores, listener.                            *)

ResponsesConfigValid(config) ==
    /\ config.chainDepth > 0 /\ config.chainItems > 0
    /\ config.eventPage > 0 /\ config.maxItems > 0

ConfigValid(config) ==
    /\ config.drain > 0 /\ config.page > 0 /\ config.limit > 0
    /\ ResponsesConfigValid(config)

\* KeyTable::parse, over the entries of the variable.
KeysValid(config) == \A entry \in config.keys : entry.pair /\ entry.length >= 8 /\ entry.tenant

EffectiveLimit(limit) == IF limit = 0 THEN 1 ELSE limit

\* The limit is seeded before the probe of the conversation store, so a node
\* that does not come up may have set it all the same.
Boot ==
    /\ node.pc = "starting"
    /\ \E config \in Configs, healthy \in BOOLEAN :
          LET assembled == ConfigValid(config) /\ KeysValid(config)
          IN  /\ store' = [store EXCEPT !.limit = IF assembled THEN config.limit ELSE @]
              /\ node' = [node EXCEPT !.pc = IF assembled /\ healthy THEN "serving"
                                             ELSE "failed"]
    /\ UNCHANGED <<daemonVars, agenda, conns, late>>

----------------------------------------------------------------------------
(* The routes: what each checks before it calls the service.               *)

AdminRoutes == {"read_only", "pending_limit", "purge"}
OpenRoutes == {"health"}
\* Writes refused while draining.
GatedRoutes == {"create", "create_conversation", "update_conversation", "append_event"}
BodyRoutes == GatedRoutes
IdRoutes == {"retrieve", "stream", "cancel", "delete", "update_conversation",
             "append_event", "events", "delete_conversation", "transcript", "purge"}

Accepting == node.pc = "serving"

Unauthorized(req) ==
    IF req.route \in AdminRoutes THEN Keys.admin /\ req.credential # "admin"
    ELSE req.route \notin OpenRoutes /\ Keys.tenants /\ req.credential # "tenant"

\* The status of the first check that fails, None when the service is called.
Verdict(req) ==
    CASE Unauthorized(req) -> 401
      [] req.route \in GatedRoutes /\ ~Accepting -> 503
      [] req.route \in IdRoutes /\ ~req.id -> IF req.route = "purge" THEN 400 ELSE 404
      [] req.route \in BodyRoutes /\ ~req.body -> 400
      [] OTHER -> None

Listening == node.pc \in {"serving", "draining"}

\* Connection c asks for the route and every check passes.
Asks(c, route) ==
    /\ Listening /\ conns[c] = Idle
    /\ \E req \in agenda.asks[c] : req.route = route /\ Verdict(req) = None

Refuse(c) ==
    /\ Listening /\ conns[c] = Idle
    /\ \E req \in agenda.asks[c] : Verdict(req) # None
    /\ UNCHANGED vars

In(c, pc, r) == conns' = [conns EXCEPT ![c] = [pc |-> pc, response |-> r]]
Answer(c) == conns' = [conns EXCEPT ![c] = Idle]

Writable == ~store.readOnly

----------------------------------------------------------------------------
(* /v1/responses.                                                          *)

Create(c) ==
    /\ Asks(c, "create")
    /\ In(c, "admitting", None)
    /\ UNCHANGED <<daemonVars, agenda, node, store, late>>

\* A create that goes through is answered in one of three ways; a client that
\* asked for a stream keeps its connection.
Admit(c) ==
    /\ conns[c].pc = "admitting"
    /\ IF Writable /\ Cardinality(InFlight) < store.limit
       THEN \E r \in Responses :
               /\ status[r] = "new"
               /\ status' = [status EXCEPT ![r] = "queued"]
               /\ log' = [log EXCEPT ![r] = "open"]
               /\ late' = IF Accepting THEN late ELSE late \cup {r}
               /\ \/ "background" \in agenda.deliveries /\ Answer(c)
                  \/ "sync" \in agenda.deliveries /\ In(c, "waiting", r)
                  \/ "stream" \in agenda.deliveries /\ In(c, "streaming", r)
       ELSE Answer(c) /\ UNCHANGED <<status, log, late>>
    /\ UNCHANGED <<age, tasks, daemon, sweep, agenda, node, store>>

\* Also when no id is left to this model.
AdmitNothing(c) ==
    /\ conns[c].pc = "admitting"
    /\ \A r \in Responses : status[r] # "new"
    /\ Answer(c)
    /\ UNCHANGED <<daemonVars, agenda, node, store, late>>

\* wait_terminal ends with the stream or with sync_wait_timeout_ms.
WaitEnds(c) ==
    /\ conns[c].pc = "waiting"
    /\ Answer(c)
    /\ UNCHANGED <<daemonVars, agenda, node, store, late>>

\* GET ...?stream=true: the probe finds a stream; its record need not be there.
Stream(c) ==
    /\ Asks(c, "stream")
    /\ \E r \in Responses : log[r] # "none" /\ In(c, "streaming", r)
    /\ UNCHANGED <<daemonVars, agenda, node, store, late>>

\* The terminal event, or an error in band once the stream is gone.
StreamEnds(c) ==
    /\ conns[c].pc = "streaming"
    /\ log[conns[c].response] # "open"
    /\ Answer(c)
    /\ UNCHANGED <<daemonVars, agenda, node, store, late>>

Cancel(c) ==
    /\ Asks(c, "cancel") /\ Writable
    /\ \E r \in InFlight :
          /\ status' = [status EXCEPT ![r] = "cancelled"]
          /\ In(c, "cancelling", r)
    /\ UNCHANGED <<log, age, tasks, daemon, sweep, agenda, node, store, late>>

CancelEnds(c) ==
    /\ conns[c].pc = "cancelling"
    /\ EndLog(conns[c].response, Writable)
    /\ Answer(c)
    /\ UNCHANGED <<status, age, tasks, daemon, sweep, agenda, node, store, late>>

Delete(c) ==
    /\ Asks(c, "delete") /\ Writable
    /\ \E r \in Responses :
          /\ status[r] \notin {"new", "deleted"}
          /\ status' = [status EXCEPT ![r] = "deleted"]
          /\ In(c, "deleting", r)
    /\ UNCHANGED <<log, age, tasks, daemon, sweep, agenda, node, store, late>>

DeleteEnds(c) ==
    /\ conns[c].pc = "deleting"
    /\ log' = [log EXCEPT ![conns[c].response] = "none"]
    /\ Answer(c)
    /\ UNCHANGED <<status, age, tasks, daemon, sweep, agenda, node, store, late>>

----------------------------------------------------------------------------
(* /v1/conversations and operations.                                       *)

CreateConversation(c) ==
    /\ Asks(c, "create_conversation") /\ Writable
    /\ store' = [store EXCEPT !.conversation = TRUE]
    /\ UNCHANGED <<daemonVars, agenda, node, conns, late>>

DeleteConversation(c) ==
    /\ Asks(c, "delete_conversation") /\ Writable
    /\ store' = [store EXCEPT !.conversation = FALSE]
    /\ UNCHANGED <<daemonVars, agenda, node, conns, late>>

\* GET .../events: a stream without a last event.
Events(c) ==
    /\ Asks(c, "events") /\ store.conversation
    /\ In(c, "watching", None)
    /\ UNCHANGED <<daemonVars, agenda, node, store, late>>

EventsEnd(c) ==
    /\ conns[c].pc = "watching"
    /\ ~store.conversation
    /\ Answer(c)
    /\ UNCHANGED <<daemonVars, agenda, node, store, late>>

SetReadOnly(c) ==
    /\ Asks(c, "read_only")
    /\ store' = [store EXCEPT !.readOnly = ~@]
    /\ UNCHANGED <<daemonVars, agenda, node, conns, late>>

SetPendingLimit(c) ==
    /\ Asks(c, "pending_limit")
    /\ \E limit \in 0..Cardinality(Responses) :
          store' = [store EXCEPT !.limit = EffectiveLimit(limit)]
    /\ UNCHANGED <<daemonVars, agenda, node, conns, late>>

Stored == {r \in Responses : status[r] \notin {"new", "deleted"}}

\* purge_tenant: the conversations, and then the records.  Streams are left as
\* they are, and can be read without their records.
Purge(c) ==
    /\ Asks(c, "purge") /\ Writable
    /\ store' = [store EXCEPT !.conversation = FALSE]
    /\ In(c, "purging", None)
    /\ UNCHANGED <<daemonVars, agenda, node, late>>

PurgeRecords(c) ==
    /\ conns[c].pc = "purging"
    /\ status' = [r \in Responses |-> IF Writable /\ r \in Stored THEN "deleted" ELSE status[r]]
    /\ Answer(c)
    /\ UNCHANGED <<log, age, tasks, daemon, sweep, agenda, node, store, late>>

\* External: the client of an open stream hangs up.
HangUp(c) ==
    /\ conns[c].pc \in {"waiting", "streaming", "watching"}
    /\ Answer(c)
    /\ UNCHANGED <<daemonVars, agenda, node, store, late>>

----------------------------------------------------------------------------
(* shutdown.                                                               *)

Signal ==
    /\ agenda.signal /\ node.pc = "serving"
    /\ node' = [node EXCEPT !.pc = "draining"]
    /\ UNCHANGED <<daemonVars, agenda, conns, store, late>>

\* Mutant: only what is running counts.
CountedRunning == {r \in Responses : status[r] = "in_progress"}

\* ledger.in_flight().
Counted == InFlight

\* Mutant: the deadline is computed anew at every turn of the loop.
PastDeadlineNever == FALSE

PastDeadline == node.waited >= DrainTimeout

Closing(drained) == node' = [node EXCEPT !.pc = "closing", !.drained = drained]

DrainPoll ==
    /\ node.pc = "draining"
    /\ Counted = {} \/ PastDeadline
    /\ Closing(Counted = {})
    /\ UNCHANGED <<daemonVars, agenda, conns, store, late>>

\* The ledger cannot be asked, which counts as nothing in flight.
DrainBlindly ==
    /\ node.pc = "draining"
    /\ Closing(FALSE)
    /\ UNCHANGED <<daemonVars, agenda, conns, store, late>>

\* External: axum's graceful shutdown accepts no more and waits for the open
\* connections.  Then the service is stopped and main returns, whatever the
\* sweeper is doing.
Exit ==
    /\ node.pc = "closing"
    /\ \A c \in Connections : conns[c] = Idle
    /\ node' = [node EXCEPT !.pc = "exited"]
    /\ UNCHANGED <<daemonVars, agenda, conns, store, late>>

SweeperUp == node.pc \in {"serving", "draining", "closing"}
Sweeps == SweeperUp /\ (Reap \/ CleanUp(Writable)) /\ UNCHANGED <<agenda, node, conns, store, late>>

Tick ==
    /\ DaemonTick
    /\ node' = [node EXCEPT !.waited = IF node.pc = "draining" THEN Capped(@, DrainTimeout)
                                       ELSE @]
    /\ UNCHANGED <<agenda, conns, store, late>>

----------------------------------------------------------------------------
Handlers(c) ==
    \/ Admit(c) \/ AdmitNothing(c) \/ WaitEnds(c) \/ StreamEnds(c) \/ CancelEnds(c)
    \/ DeleteEnds(c) \/ EventsEnd(c) \/ PurgeRecords(c)

Clients(c) ==
    \/ Refuse(c) \/ Create(c) \/ Stream(c) \/ Cancel(c) \/ Delete(c)
    \/ CreateConversation(c) \/ DeleteConversation(c) \/ Events(c) \/ SetReadOnly(c)
    \/ SetPendingLimit(c) \/ Purge(c) \/ HangUp(c)

Daemons ==
    /\ \/ \E s \in agenda.slots : Poll(s)
       \/ agenda.stops /\ Stop
       \/ DaemonGoesOn(Writable)
    /\ UNCHANGED <<agenda, node, conns, store, late>>

Next ==
    \/ Boot \/ Signal \/ DrainPoll \/ DrainBlindly \/ Exit
    \/ \E c \in Connections : Handlers(c) \/ Clients(c)
    \/ Sweeps \/ Daemons \/ Tick

\* The node, its handlers, its sweeper, heartbeats and time go on; nothing is
\* asked of clients, of runners or of whoever stops the daemon.  Time waits for
\* timers that are due, but not for ever (SF).
Fairness ==
    /\ WF_vars(DrainPoll) /\ WF_vars(Exit) /\ SF_vars(Tick) /\ WF_vars(Sweeps)
    /\ \A c \in Connections : WF_vars(Handlers(c))
    /\ \A s \in Slots : WF_vars(Daemons /\ Beat(s))
    /\ WF_vars(Daemons /\ (GiveUp \/ Drained))

Spec == Init /\ [][Next]_vars /\ Fairness

----------------------------------------------------------------------------
\* FR-34: a drain that ends because nothing is in flight has waited for every
\* response accepted before the signal, the queued ones included; what is in
\* flight after it was created by a handler that was past the check by then.
DrainWaitsForTheAccepted ==
    node.drained => InFlight \subseteq late

Served(r) == \E s \in Slots : tasks[s].response = r

\* INV-45: a response whose run was abandoned, by an abort at the stop budget,
\* is ended by the sweeper of a node that stays up.
AbandonedRunsEnd ==
    \A r \in Responses :
        (status[r] = "in_progress" /\ ~Served(r)) ~>
            (status[r] # "in_progress" \/ ~SweeperUp)

Streaming == \E c \in Connections : conns[c].pc \in {"streaming", "watching"}

\* D21: a node that was told to stop exits, however long generations take,
\* unless clients hold streams open: those have no deadline.
OnlyStreamsHoldAnExit ==
    []<>Streaming \/ (node.pc = "draining" ~> node.pc = "exited")
=============================================================================

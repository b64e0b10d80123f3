--------------------------- MODULE GatewayProofs ----------------------------
(***************************************************************************)
(* Theorems of the gateway node and its execution process, for every set   *)
(* of responses, connections and permits, every heartbeat, budget and      *)
(* drain timing, and every agenda of requests.                             *)
(***************************************************************************)
EXTENDS Gateway, FiniteSetTheorems, TLAPS

Statuses == {"new", "queued", "in_progress", "completed", "failed", "cancelled", "deleted"}

Task == [pc : {"free", "spawned", "serving", "settling"},
         response : Responses \cup {None}, beat : Responses \cup {None}]

LoopState == [pc : {"running", "stopping", "stopped"}, every : Nat \ {0}, spent : Nat, elapsed : Nat, held : Nat]

Handler == [pc : {"idle", "admitting", "waiting", "streaming", "cancelling", "deleting",
                  "watching", "purging"},
            response : Responses \cup {None}]

Node == [pc : {"starting", "failed", "serving", "draining", "closing", "exited"},
         waited : Nat, drained : BOOLEAN]

Types ==
    /\ status \in [Responses -> Statuses] /\ age \in [Responses -> Nat]
    /\ tasks \in [Slots -> Task] /\ daemon \in LoopState
    /\ conns \in [Connections -> Handler] /\ node \in Node
    /\ agenda \in Agendas

\* A task that serves a response beats for it and was heard of within the
\* interval, so the sweeper never found it silent if that is within the ttl.
Heard(s) ==
    LET r == tasks[s].response
    IN  /\ r \in Responses /\ tasks[s].beat = r
        /\ age[r] <= daemon.every
        /\ daemon.every <= Ttl => status[r] # "failed"

RunsAreHeard == \A s \in Slots : tasks[s].pc = "serving" => Heard(s)

\* A stop has spent a budget on each task it joined, and what it has waited
\* for the next one.
StopIsPaced ==
    daemon.pc = "stopping" =>
        /\ daemon.spent <= Budget
        /\ Cardinality(Running) <= daemon.held
        /\ daemon.elapsed <= Budget * (daemon.held - Cardinality(Running)) + daemon.spent
        /\ Running = {} => daemon.spent = 0

\* A process that is gone serves nobody, so the next one finds no task.
StopLeavesNothing == daemon.pc = "stopped" => \A s \in Slots : tasks[s].pc = "free"

\* Once the drain saw nothing in flight the node accepts nothing any more.
DrainIsFinal ==
    node.drained => node.pc \in {"closing", "exited"} /\ InFlight \subseteq late

\* The inductive invariant.
GatewayInvariant ==
    Types /\ RunsAreHeard /\ StopIsPaced /\ StopLeavesNothing /\ DrainIsFinal

\* Where the status of a response may go in a step, and on whose account.
StatusMoves(r) ==
    \/ status'[r] = status[r]
    \/ status[r] = "new" /\ status'[r] = "queued" /\ (Accepting \/ r \in late')
    \/ status[r] = "queued" /\ status'[r] = "in_progress"
    \/ status[r] \in {"queued", "in_progress"} /\ status'[r] \in {"completed", "cancelled"}
    \/ status[r] \notin {"new", "deleted"} /\ status'[r] = "deleted"
    \/ status[r] = "in_progress" /\ status'[r] = "failed" /\ age[r] > Ttl

\* What every step that is not the daemon's leaves to the daemon.
DaemonUntouched == UNCHANGED <<age, tasks, daemon, agenda>>

----------------------------------------------------------------------------
(* Steps of the node itself.                                               *)

NodeSteps == Boot \/ Signal \/ DrainPoll \/ DrainBlindly \/ Exit

LEMMA NodeFrame ==
    ASSUME Types, NodeSteps
    PROVE  /\ DaemonUntouched /\ UNCHANGED <<status, conns, late>>
           /\ node' \in Node
<1> USE DEF DaemonUntouched, daemonVars
<1>0. node \in Node BY DEF Types
<1>1. CASE Boot
  <2>1. PICK up \in {"serving", "failed"} : node' = [node EXCEPT !.pc = up]
    BY <1>1 DEF Boot
  <2>2. node' \in Node BY <1>0, <2>1 DEF Node
  <2> QED BY <1>1, <2>2 DEF Boot
<1>2. CASE Signal BY <1>0, <1>2 DEF Signal, Node
<1>3. CASE DrainPoll BY <1>0, <1>3 DEF DrainPoll, Closing, Node
<1>4. CASE DrainBlindly BY <1>0, <1>4 DEF DrainBlindly, Closing, Node
<1>5. CASE Exit BY <1>0, <1>5 DEF Exit, Node
<1> QED BY <1>1, <1>2, <1>3, <1>4, <1>5 DEF NodeSteps

LEMMA NodeKeepsDrain ==
    ASSUME Types, DrainIsFinal, NodeSteps
    PROVE  DrainIsFinal'
<1>0. node \in Node /\ UNCHANGED <<status, late>> BY NodeFrame DEF Types
<1>a. InFlight' = InFlight BY <1>0 DEF InFlight
<1>1. CASE Boot
  <2>1. PICK up \in {"serving", "failed"} : node' = [node EXCEPT !.pc = up]
    BY <1>1 DEF Boot
  <2>2. node'.drained = node.drained /\ node.pc = "starting" BY <1>0, <1>1, <2>1 DEF Node, Boot
  <2> QED BY <2>2 DEF DrainIsFinal
<1>2. CASE Signal
  <2>1. node'.drained = node.drained /\ node.pc = "serving" BY <1>0, <1>2 DEF Node, Signal
  <2> QED BY <2>1 DEF DrainIsFinal
<1>3. CASE DrainPoll
  <2>1. node'.drained = (InFlight = {}) /\ node'.pc = "closing"
    BY <1>0, <1>3 DEF Node, DrainPoll, Closing, Counted
  <2> QED BY <1>a, <2>1 DEF DrainIsFinal
<1>4. CASE DrainBlindly
  <2>1. node'.drained = FALSE BY <1>0, <1>4 DEF Node, DrainBlindly, Closing
  <2> QED BY <2>1 DEF DrainIsFinal
<1>5. CASE Exit
  <2>1. node'.drained = node.drained /\ node'.pc = "exited" BY <1>0, <1>5 DEF Node, Exit
  <2> QED BY <1>0, <1>a, <2>1 DEF DrainIsFinal
<1> QED BY <1>1, <1>2, <1>3, <1>4, <1>5 DEF NodeSteps

----------------------------------------------------------------------------
(* Steps of the connections.                                               *)

\* What a step of a connection may do.
ConnectionStep ==
    /\ DaemonUntouched /\ UNCHANGED node
    /\ late \subseteq late'
    /\ status' \in [Responses -> Statuses] /\ \A r \in Responses : StatusMoves(r)
    /\ conns' \in [Connections -> Handler]

\* A connection that goes to a handler, or back to idle.
ConnectionMoves(c) ==
    \/ UNCHANGED conns
    \/ conns' = [conns EXCEPT ![c] = Idle]
    \/ \E pc \in {"admitting", "waiting", "streaming", "cancelling", "deleting", "watching",
                 "purging"}, r \in Responses \cup {None} :
          conns' = [conns EXCEPT ![c] = [pc |-> pc, response |-> r]]

LEMMA HandlersKeepType ==
    ASSUME Types, NEW c \in Connections, ConnectionMoves(c)
    PROVE  conns' \in [Connections -> Handler]
<1>1. CASE UNCHANGED conns BY <1>1 DEF Types
<1>2. CASE conns' = [conns EXCEPT ![c] = Idle] BY <1>2 DEF Types, Idle, Handler
<1>3. CASE \E pc \in {"admitting", "waiting", "streaming", "cancelling", "deleting", "watching",
                     "purging"}, r \in Responses \cup {None} :
              conns' = [conns EXCEPT ![c] = [pc |-> pc, response |-> r]]
  BY <1>3 DEF Types, Handler
<1> QED BY <1>1, <1>2, <1>3 DEF ConnectionMoves

\* A step of a connection that leaves the ledger alone.
LEMMA QuietConnection ==
    ASSUME Types, NEW c \in Connections, ConnectionMoves(c),
           UNCHANGED <<status, age, tasks, daemon, agenda, node, late>>
    PROVE  ConnectionStep
<1>1. \A r \in Responses : StatusMoves(r) BY DEF StatusMoves
<1>2. conns' \in [Connections -> Handler] BY HandlersKeepType
<1>3. status' \in [Responses -> Statuses] BY DEF Types
<1> QED BY <1>1, <1>2, <1>3 DEF ConnectionStep, DaemonUntouched

LEMMA AdmitIsConnectionStep ==
    ASSUME Types, NEW c \in Connections, Admit(c)
    PROVE  ConnectionStep
<1>1. CASE Writable /\ Cardinality(InFlight) < store.limit
  <2>1. PICK r \in Responses :
             /\ status[r] = "new" /\ status' = [status EXCEPT ![r] = "queued"]
             /\ late' = IF Accepting THEN late ELSE late \cup {r}
             /\ \/ Answer(c)
                \/ In(c, "waiting", r)
                \/ In(c, "streaming", r)
    BY <1>1 DEF Admit
  <2>2. late \subseteq late' /\ (Accepting \/ r \in late') BY <2>1
  <2>3. \A q \in Responses : StatusMoves(q)
    BY <2>1, <2>2 DEF StatusMoves, Types
  <2>4. status' \in [Responses -> Statuses] BY <2>1 DEF Types, Statuses
  <2>5. ConnectionMoves(c) BY <2>1 DEF Answer, In, ConnectionMoves
  <2>6. conns' \in [Connections -> Handler] BY <2>5, HandlersKeepType
  <2> QED BY <2>2, <2>3, <2>4, <2>6 DEF ConnectionStep, DaemonUntouched, Admit
<1>2. CASE ~(Writable /\ Cardinality(InFlight) < store.limit)
  BY <1>2, QuietConnection DEF Admit, Answer, ConnectionMoves
<1> QED BY <1>1, <1>2

LEMMA CancelIsConnectionStep ==
    ASSUME Types, NEW c \in Connections, Cancel(c)
    PROVE  ConnectionStep
<1>1. PICK r \in Responses :
           /\ status[r] \in {"queued", "in_progress"}
           /\ status' = [status EXCEPT ![r] = "cancelled"]
           /\ conns' = [conns EXCEPT ![c] = [pc |-> "cancelling", response |-> r]]
  BY DEF Cancel, InFlight, In
<1>2. \A q \in Responses : StatusMoves(q) BY <1>1 DEF StatusMoves, Types
<1>3. status' \in [Responses -> Statuses] BY <1>1 DEF Types, Statuses
<1>4. conns' \in [Connections -> Handler] BY <1>1, HandlersKeepType DEF ConnectionMoves
<1> QED BY <1>2, <1>3, <1>4 DEF ConnectionStep, DaemonUntouched, Cancel

LEMMA DeleteIsConnectionStep ==
    ASSUME Types, NEW c \in Connections, Delete(c)
    PROVE  ConnectionStep
<1>1. PICK r \in Responses :
           /\ status[r] \notin {"new", "deleted"}
           /\ status' = [status EXCEPT ![r] = "deleted"]
           /\ conns' = [conns EXCEPT ![c] = [pc |-> "deleting", response |-> r]]
  BY DEF Delete, In
<1>2. \A q \in Responses : StatusMoves(q) BY <1>1 DEF StatusMoves, Types
<1>3. status' \in [Responses -> Statuses] BY <1>1 DEF Types, Statuses
<1>4. conns' \in [Connections -> Handler] BY <1>1, HandlersKeepType DEF ConnectionMoves
<1> QED BY <1>2, <1>3, <1>4 DEF ConnectionStep, DaemonUntouched, Delete

LEMMA PurgeRecordsIsConnectionStep ==
    ASSUME Types, NEW c \in Connections, PurgeRecords(c)
    PROVE  ConnectionStep
<1>1. status' \in [Responses -> Statuses]
  BY DEF PurgeRecords, Types, Statuses
<1>2. \A r \in Responses : StatusMoves(r) BY DEF PurgeRecords, StatusMoves, Stored
<1>3. conns' \in [Connections -> Handler]
  BY HandlersKeepType DEF PurgeRecords, Answer, ConnectionMoves
<1> QED BY <1>1, <1>2, <1>3 DEF ConnectionStep, DaemonUntouched, PurgeRecords

LEMMA HandlersAreConnectionSteps ==
    ASSUME Types, NEW c \in Connections, Handlers(c) \/ Clients(c)
    PROVE  ConnectionStep
<1> USE DEF daemonVars, ConnectionMoves
<1>1. CASE AdmitNothing(c) \/ WaitEnds(c) \/ StreamEnds(c) \/ EventsEnd(c) \/ HangUp(c)
  BY <1>1, QuietConnection DEF AdmitNothing, WaitEnds, StreamEnds, EventsEnd, HangUp, Answer
<1>2. CASE CancelEnds(c) \/ DeleteEnds(c)
  BY <1>2, QuietConnection DEF CancelEnds, DeleteEnds, Answer
<1>3. CASE Refuse(c) \/ CreateConversation(c) \/ DeleteConversation(c) \/ SetReadOnly(c)
           \/ SetPendingLimit(c)
  <2>1. UNCHANGED <<status, age, tasks, daemon, agenda, node, late, conns>>
    BY <1>3 DEF Refuse, CreateConversation, DeleteConversation, SetReadOnly, SetPendingLimit, vars
  <2> QED BY <2>1, QuietConnection
<1>4. CASE Create(c)
  <2>1. conns' = [conns EXCEPT ![c] = [pc |-> "admitting", response |-> None]]
    BY <1>4 DEF Create, In
  <2> QED BY <1>4, <2>1, QuietConnection DEF Create
<1>5. CASE Stream(c)
  <2>1. \E r \in Responses :
           conns' = [conns EXCEPT ![c] = [pc |-> "streaming", response |-> r]]
    BY <1>5 DEF Stream, In
  <2> QED BY <1>5, <2>1, QuietConnection DEF Stream
<1>6. CASE Events(c)
  <2>1. conns' = [conns EXCEPT ![c] = [pc |-> "watching", response |-> None]]
    BY <1>6 DEF Events, In
  <2> QED BY <1>6, <2>1, QuietConnection DEF Events
<1>7. CASE Admit(c) BY <1>7, AdmitIsConnectionStep
<1>8. CASE Cancel(c) BY <1>8, CancelIsConnectionStep
<1>9. CASE Delete(c) BY <1>9, DeleteIsConnectionStep
<1>10. CASE Purge(c)
  <2>1. conns' = [conns EXCEPT ![c] = [pc |-> "purging", response |-> None]]
    BY <1>10 DEF Purge, In
  <2> QED BY <1>10, <2>1, QuietConnection DEF Purge
<1>11. CASE PurgeRecords(c) BY <1>11, PurgeRecordsIsConnectionStep
<1> QED BY <1>1, <1>2, <1>3, <1>4, <1>5, <1>6, <1>7, <1>8, <1>9, <1>10, <1>11
        DEF Handlers, Clients

----------------------------------------------------------------------------
(* Steps of the sweeper.                                                   *)

LEMMA SweepsMove ==
    ASSUME Types, Sweeps
    PROVE  /\ DaemonUntouched /\ UNCHANGED <<node, conns, late>>
           /\ status' \in [Responses -> Statuses] /\ \A r \in Responses : StatusMoves(r)
<1>1. CASE Reap
  BY <1>1 DEF Sweeps, Reap, Types, Statuses, StatusMoves, DaemonUntouched
<1>2. CASE CleanUp(Writable)
  BY <1>2 DEF Sweeps, CleanUp, Types, StatusMoves, DaemonUntouched
<1> QED BY <1>1, <1>2 DEF Sweeps

----------------------------------------------------------------------------
(* Steps of the execution process.                                         *)

\* A task that is over, as the loop sees it.
LEMMA JoinedFacts ==
    ASSUME Types, StopIsPaced, NEW s \in Slots, tasks[s].pc # "free", Joined(s)
    PROVE  /\ tasks' \in [Slots -> Task] /\ daemon' \in LoopState /\ StopIsPaced'
           /\ tasks'[s] = Free /\ \A t \in Slots : t # s => tasks'[t] = tasks[t]
           /\ daemon'.every = daemon.every /\ daemon'.pc = daemon.pc
<1>1. Free \in Task BY DEF Free, Task
<1>2. /\ tasks' \in [Slots -> Task]
      /\ tasks'[s] = Free /\ \A t \in Slots : t # s => tasks'[t] = tasks[t]
  BY <1>1 DEF Joined, Types
<1>3. /\ daemon' \in LoopState /\ daemon'.pc = daemon.pc /\ daemon'.spent = 0
      /\ daemon'.elapsed = daemon.elapsed /\ daemon'.held = daemon.held
      /\ daemon'.every = daemon.every
      /\ daemon.elapsed \in Nat /\ daemon.held \in Nat /\ daemon.spent \in Nat
  BY DEF Joined, Types, LoopState
<1>4. Running' = Running \ {s} /\ s \in Running
  BY <1>2 DEF Running, Free
<1>5. /\ IsFiniteSet(Running) /\ Cardinality(Running) \in Nat
      /\ Cardinality(Running') = Cardinality(Running) - 1
  <2>1. Running \subseteq Slots BY DEF Running
  <2>2. IsFiniteSet(Running) BY <2>1, FS_Subset, DaemonConstants
  <2> QED BY <1>4, <2>2, FS_CardinalityType, FS_RemoveElement
<1>6. StopIsPaced'
  <2> SUFFICES ASSUME daemon.pc = "stopping"
               PROVE  /\ Cardinality(Running') <= daemon.held
                      /\ daemon.elapsed <= Budget * (daemon.held - Cardinality(Running')) + 0
                      /\ 0 <= Budget
    BY <1>3 DEF StopIsPaced
  <2> DEFINE n == Cardinality(Running)
             k == daemon.held - n
  <2>1. /\ daemon.spent <= Budget /\ n <= daemon.held
        /\ daemon.elapsed <= Budget * k + daemon.spent
    BY DEF StopIsPaced
  <2>2. k \in Nat /\ daemon.held - Cardinality(Running') = k + 1 BY <1>3, <1>5, <2>1
  <2> HIDE DEF k, n
  <2>3. Budget * (k + 1) = Budget * k + Budget /\ Budget * k \in Nat
    BY <2>2, DaemonConstants
  <2>4. daemon.elapsed <= Budget * (k + 1) + 0 /\ 0 <= Budget
    BY <1>3, <2>1, <2>3, DaemonConstants
  <2>5. Cardinality(Running') <= daemon.held BY <1>3, <1>5, <2>1 DEF n
  <2> QED BY <2>2, <2>4, <2>5
<1> QED BY <1>2, <1>3, <1>6

\* What a step of the execution process may do.
DaemonStep ==
    /\ status' \in [Responses -> Statuses] /\ \A r \in Responses : StatusMoves(r)
    /\ age' \in [Responses -> Nat] /\ tasks' \in [Slots -> Task] /\ daemon' \in LoopState
    /\ RunsAreHeard' /\ StopIsPaced'

\* A step that does not move the loop, nor start or end a task.
LEMMA SameRunning ==
    ASSUME Types, StopIsPaced, UNCHANGED daemon,
           \A s \in Slots : tasks'[s].pc = "free" <=> tasks[s].pc = "free"
    PROVE  StopIsPaced' /\ daemon' \in LoopState
<1>1. Running' = Running BY DEF Running
<1> QED BY <1>1 DEF StopIsPaced, Types

\* A loop that is not being stopped has nothing to keep to.
LEMMA NotStopping ==
    ASSUME daemon'.pc # "stopping"
    PROVE  StopIsPaced'
BY DEF StopIsPaced

\* A run that goes on is heard of as long as time does not pass.
LEMMA HeardOn ==
    ASSUME Types, \A r \in Responses : StatusMoves(r), daemon'.every = daemon.every,
           NEW s \in Slots, Heard(s), tasks'[s] = tasks[s],
           \A r \in Responses : age'[r] = age[r] \/ age'[r] = 0
    PROVE  Heard(s)'
<1> DEFINE r == tasks[s].response
<1>1. /\ r \in Responses /\ tasks[s].beat = r /\ age[r] <= daemon.every
      /\ daemon.every <= Ttl => status[r] # "failed"
  BY DEF Heard
<1>2. age[r] \in Nat /\ daemon.every \in Nat /\ Ttl \in Nat
  BY <1>1, DaemonConstants DEF Types, LoopState
<1> HIDE DEF r
<1>3. age'[r] <= daemon.every BY <1>1, <1>2
<1>4. ASSUME daemon.every <= Ttl PROVE status'[r] # "failed"
  <2>1. ~(age[r] > Ttl) /\ status[r] # "failed" BY <1>1, <1>2, <1>4
  <2> QED BY <1>1, <2>1 DEF StatusMoves
<1> QED BY <1>1, <1>3, <1>4 DEF Heard, r

\* Tasks that end, and ages that return to zero, leave the others as heard of.
LEMMA StillHeard ==
    ASSUME Types, RunsAreHeard, \A r \in Responses : StatusMoves(r),
           daemon'.every = daemon.every,
           \A s \in Slots : tasks'[s].pc = "serving" => tasks'[s] = tasks[s],
           \A r \in Responses : age'[r] = age[r] \/ age'[r] = 0
    PROVE  RunsAreHeard'
<1> SUFFICES ASSUME NEW s \in Slots, tasks'[s].pc = "serving" PROVE Heard(s)'
  BY DEF RunsAreHeard
<1>1. tasks'[s] = tasks[s] /\ tasks[s].pc = "serving" OBVIOUS
<1> QED BY <1>1, HeardOn DEF RunsAreHeard

\* A task that ends with nothing said to the ledger.
LEMMA JoinIsDaemonStep ==
    ASSUME Types, RunsAreHeard, StopIsPaced, NEW s \in Slots, tasks[s].pc # "free", Joined(s),
           UNCHANGED <<status, age>>
    PROVE  DaemonStep
<1>1. /\ tasks' \in [Slots -> Task] /\ daemon' \in LoopState /\ StopIsPaced'
      /\ tasks'[s] = Free /\ \A t \in Slots : t # s => tasks'[t] = tasks[t]
      /\ daemon'.every = daemon.every
  BY JoinedFacts
<1>2. \A t \in Slots : tasks'[t].pc = "serving" => tasks'[t] = tasks[t]
  BY <1>1 DEF Free
<1>3. \A r \in Responses : StatusMoves(r) BY DEF StatusMoves
<1>4. RunsAreHeard' BY <1>1, <1>2, <1>3, StillHeard
<1> QED BY <1>1, <1>3, <1>4 DEF DaemonStep, Types

LEMMA PollIsDaemonStep ==
    ASSUME Types, RunsAreHeard, StopIsPaced, NEW s \in Slots, Poll(s)
    PROVE  DaemonStep
<1>1. tasks[s] \in Task /\ daemon' = daemon /\ daemon.pc = "running"
      /\ UNCHANGED <<status, age>>
  BY DEF Poll, Types
<1>2. /\ tasks' \in [Slots -> Task] /\ tasks'[s].pc = "spawned"
      /\ \A t \in Slots : t # s => tasks'[t] = tasks[t]
  BY <1>1 DEF Poll, Types, Task
<1>3. \A r \in Responses : StatusMoves(r) BY <1>1 DEF StatusMoves
<1>4. \A t \in Slots : tasks'[t].pc = "serving" => tasks'[t] = tasks[t] BY <1>2
<1>5. RunsAreHeard' BY <1>1, <1>3, <1>4, StillHeard
<1>6. StopIsPaced' BY <1>1, NotStopping
<1> QED BY <1>1, <1>2, <1>3, <1>5, <1>6 DEF DaemonStep, Types

LEMMA ClaimIsDaemonStep ==
    ASSUME Types, RunsAreHeard, StopIsPaced, NEW s \in Slots, NEW writable,
           Claim(s, writable)
    PROVE  DaemonStep
<1>1. CASE \E r \in Responses : status[r] = "queued" /\ tasks' = [tasks EXCEPT ![s] = Held(r)]
                                /\ status' = [status EXCEPT ![r] = "in_progress"]
                                /\ age' = [age EXCEPT ![r] = 0]
                                /\ UNCHANGED daemon
  <2>1. PICK r \in Responses : /\ status[r] = "queued"
                               /\ tasks' = [tasks EXCEPT ![s] = Held(r)]
                               /\ status' = [status EXCEPT ![r] = "in_progress"]
                               /\ age' = [age EXCEPT ![r] = 0]
                               /\ UNCHANGED daemon
    BY <1>1
  <2>2. /\ Held(r) \in Task /\ Held(r).pc = "serving" /\ Held(r).response = r
        /\ Held(r).beat = r
    BY DEF Held, Task
  <2>3. /\ tasks' \in [Slots -> Task] /\ tasks'[s] = Held(r)
        /\ \A t \in Slots : t # s => tasks'[t] = tasks[t]
    BY <2>1, <2>2 DEF Types
  <2>4. /\ age' \in [Responses -> Nat] /\ age'[r] = 0
        /\ \A q \in Responses : age'[q] = age[q] \/ age'[q] = 0
    BY <2>1 DEF Types
  <2>5. /\ status' \in [Responses -> Statuses] /\ \A q \in Responses : StatusMoves(q)
        /\ status'[r] = "in_progress"
    BY <2>1 DEF Types, Statuses, StatusMoves
  <2>6. daemon' = daemon /\ daemon.every \in Nat BY <2>1 DEF Types, LoopState
  <2>7. RunsAreHeard'
    <3> SUFFICES ASSUME NEW t \in Slots, tasks'[t].pc = "serving" PROVE Heard(t)'
      BY DEF RunsAreHeard
    <3>1. CASE t = s
      <4>1. tasks'[t].response = r /\ tasks'[t].beat = r BY <2>2, <2>3, <3>1
      <4>2. age'[r] <= daemon'.every /\ status'[r] # "failed" BY <2>4, <2>5, <2>6
      <4> QED BY <4>1, <4>2 DEF Heard
    <3>2. CASE t # s
      <4>1. tasks'[t] = tasks[t] /\ Heard(t) BY <2>3, <3>2 DEF RunsAreHeard
      <4> QED BY <2>4, <2>5, <2>6, <4>1, HeardOn
    <3> QED BY <3>1, <3>2
  <2>8. \A t \in Slots : tasks'[t].pc = "free" <=> tasks[t].pc = "free"
    BY <2>2, <2>3 DEF Claim
  <2>9. StopIsPaced' /\ daemon' \in LoopState BY <2>1, <2>8, SameRunning
  <2> QED BY <2>3, <2>4, <2>5, <2>7, <2>9 DEF DaemonStep
<1>2. CASE Joined(s) /\ UNCHANGED <<status, age>>
  BY <1>2, JoinIsDaemonStep DEF Claim
<1> QED BY <1>1, <1>2 DEF Claim

LEMMA BeatIsDaemonStep ==
    ASSUME Types, RunsAreHeard, StopIsPaced, NEW s \in Slots, Beat(s)
    PROVE  DaemonStep
<1>1. age' \in [Responses -> Nat] /\ \A r \in Responses : age'[r] = age[r] \/ age'[r] = 0
  BY DEF Beat, Types
<1>2. UNCHANGED <<status, tasks, daemon>> BY DEF Beat
<1>3. \A r \in Responses : StatusMoves(r) BY <1>2 DEF StatusMoves
<1>4. RunsAreHeard' BY <1>1, <1>2, <1>3, StillHeard
<1>5. StopIsPaced' /\ daemon' \in LoopState BY <1>2, SameRunning
<1> QED BY <1>1, <1>2, <1>3, <1>4, <1>5 DEF DaemonStep, Types

LEMMA RunEndsIsDaemonStep ==
    ASSUME Types, RunsAreHeard, StopIsPaced, NEW s \in Slots, NEW writable,
           RunEnds(s, writable)
    PROVE  DaemonStep
<1> DEFINE r == tasks[s].response
<1>0. r \in Responses /\ tasks[s].pc = "serving" /\ tasks[s] \in Task /\ UNCHANGED age
  BY DEF RunEnds, RunsAreHeard, Heard, Types
<1>1. CASE Joined(s) /\ UNCHANGED status
  BY <1>0, <1>1, JoinIsDaemonStep
<1>2. CASE ~(Joined(s) /\ UNCHANGED status)
  <2>1. /\ status[r] = "in_progress"
        /\ status' = [status EXCEPT ![r] = "completed"] /\ UNCHANGED daemon
        /\ tasks' = [tasks EXCEPT ![s] = [tasks[s] EXCEPT !.pc = "settling"]]
    BY <1>2 DEF RunEnds
  <2>2. status' \in [Responses -> Statuses] /\ \A q \in Responses : StatusMoves(q)
    BY <1>0, <2>1 DEF Types, Statuses, StatusMoves
  <2>3. /\ tasks' \in [Slots -> Task] /\ tasks'[s].pc = "settling"
        /\ \A t \in Slots : t # s => tasks'[t] = tasks[t]
    BY <1>0, <2>1 DEF Types, Task
  <2>4. \A t \in Slots : tasks'[t].pc = "serving" => tasks'[t] = tasks[t] BY <2>3
  <2>5. RunsAreHeard' BY <1>0, <2>1, <2>2, <2>4, StillHeard
  <2>6. \A t \in Slots : tasks'[t].pc = "free" <=> tasks[t].pc = "free" BY <1>0, <2>3
  <2>7. StopIsPaced' /\ daemon' \in LoopState BY <2>1, <2>6, SameRunning
  <2> QED BY <1>0, <2>2, <2>3, <2>5, <2>7 DEF DaemonStep, Types
<1> QED BY <1>1, <1>2

LEMMA SettleIsDaemonStep ==
    ASSUME Types, RunsAreHeard, StopIsPaced, NEW s \in Slots, NEW writable,
           Settle(s, writable)
    PROVE  DaemonStep
BY JoinIsDaemonStep DEF Settle

\* A process that starts beats at some positive interval.
LEMMA StartedFacts ==
    ASSUME NEW d \in Started
    PROVE  d \in LoopState /\ d.pc = "running"
<1>1. PICK interval \in Intervals : d = Loop("running", HeartbeatEvery(interval))
  BY DEF Started
<1>2. interval \in Nat BY DaemonConstants
<1>3. HeartbeatEvery(interval) \in Nat \ {0} BY <1>2 DEF HeartbeatEvery
<1> QED BY <1>1, <1>3 DEF Loop, LoopState

\* The order to stop takes the tasks there are; the end of a stop and a
\* restart leave nothing to wait for.
LEMMA LoopIsDaemonStep ==
    ASSUME Types, RunsAreHeard, StopIsPaced, StopLeavesNothing,
           Stop \/ Drained \/ GiveUp \/ Restart
    PROVE  DaemonStep
<1>1. UNCHANGED <<status, age>> BY DEF Stop, Drained, GiveUp, Restart
<1>2. \A r \in Responses : StatusMoves(r) BY <1>1 DEF StatusMoves
<1>3. Cardinality(Running) \in Nat
  <2>1. Running \subseteq Slots BY DEF Running
  <2>2. IsFiniteSet(Running) BY <2>1, FS_Subset, DaemonConstants
  <2> QED BY <2>2, FS_CardinalityType
<1>4. daemon.every \in Nat \ {0} /\ daemon \in LoopState /\ Free \in Task
  BY DEF Types, LoopState, Free, Task
<1>5. CASE Stop
  <2>1. /\ daemon' = [pc |-> "stopping", every |-> daemon.every, spent |-> 0, elapsed |-> 0,
                      held |-> Cardinality(Running)]
        /\ UNCHANGED tasks
    BY <1>5 DEF Stop, Loop
  <2>2. daemon' \in LoopState /\ daemon'.every = daemon.every BY <1>3, <1>4, <2>1 DEF LoopState
  <2>3. Running' = Running BY <2>1 DEF Running
  <2>4. StopIsPaced'
    <3>1. /\ daemon'.spent = 0 /\ daemon'.elapsed = 0
          /\ daemon'.held = Cardinality(Running)
      BY <2>1
    <3>2. Budget * (Cardinality(Running) - Cardinality(Running)) = 0 /\ 0 <= Budget
      BY <1>3, DaemonConstants
    <3> QED BY <1>3, <2>3, <3>1, <3>2 DEF StopIsPaced
  <2>5. RunsAreHeard' BY <1>1, <1>2, <2>1, <2>2, StillHeard
  <2> QED BY <1>1, <1>2, <2>1, <2>2, <2>4, <2>5 DEF DaemonStep, Types
<1>6. CASE Drained \/ GiveUp
  <2>1. /\ daemon' = Loop("stopped", daemon.every)
        /\ tasks' \in [Slots -> Task]
        /\ \A s \in Slots : tasks'[s].pc # "serving"
    BY <1>4, <1>6 DEF Drained, GiveUp, Running, Types, Free
  <2>2. daemon' \in LoopState /\ daemon'.pc # "stopping" BY <1>4, <2>1 DEF Loop, LoopState
  <2>3. RunsAreHeard' BY <2>1 DEF RunsAreHeard
  <2> QED BY <1>1, <1>2, <2>1, <2>2, <2>3, NotStopping DEF DaemonStep, Types
<1>7. CASE Restart
  <2>1. daemon' \in LoopState /\ daemon'.pc # "stopping"
    BY <1>7, StartedFacts DEF Restart
  <2>2. UNCHANGED tasks /\ \A s \in Slots : tasks'[s].pc # "serving"
    BY <1>7 DEF Restart, StopLeavesNothing
  <2>3. RunsAreHeard' BY <2>2 DEF RunsAreHeard
  <2> QED BY <1>1, <1>2, <2>1, <2>2, <2>3, NotStopping DEF DaemonStep, Types
<1> QED BY <1>5, <1>6, <1>7

LEMMA DaemonsAreDaemonSteps ==
    ASSUME Types, RunsAreHeard, StopIsPaced, StopLeavesNothing, Daemons
    PROVE  DaemonStep /\ UNCHANGED <<agenda, node, conns, late>>
<1>1. agenda.slots \subseteq Slots BY GatewayConstants DEF Types
<1>2. CASE \E s \in agenda.slots : Poll(s) BY <1>1, <1>2, PollIsDaemonStep DEF Daemons
<1>3. CASE Stop \/ Drained \/ GiveUp \/ Restart BY <1>3, LoopIsDaemonStep DEF Daemons
<1>4. CASE \E s \in Slots : \/ Claim(s, Writable) \/ Beat(s) \/ RunEnds(s, Writable)
                          \/ Settle(s, Writable)
  BY <1>4, ClaimIsDaemonStep, BeatIsDaemonStep, RunEndsIsDaemonStep, SettleIsDaemonStep
     DEF Daemons
<1> QED BY <1>2, <1>3, <1>4 DEF Daemons, DaemonGoesOn

\* Time passes only when no heartbeat is due, so it makes nobody late, and
\* only when the budget is not spent, so it stays within it.
LEMMA TickIsDaemonStep ==
    ASSUME Types, RunsAreHeard, StopIsPaced, Tick
    PROVE  DaemonStep /\ UNCHANGED <<agenda, conns, late>> /\ node' \in Node
           /\ node'.pc = node.pc /\ node'.drained = node.drained
<1>0. /\ UNCHANGED <<status, tasks, agenda, conns, late>>
      /\ ~BeatDue /\ ~OverBudget /\ ~JoinDue
  BY DEF Tick, DaemonTick
<1>1. \A r \in Responses : StatusMoves(r) BY <1>0 DEF StatusMoves
<1>2. /\ age' \in [Responses -> Nat]
      /\ \A r \in Responses : age[r] \in Nat /\ age'[r] <= age[r] + 1
  BY DEF Tick, DaemonTick, Capped, Types
<1>3. RunsAreHeard'
  <2> SUFFICES ASSUME NEW s \in Slots, tasks[s].pc = "serving" PROVE Heard(s)'
    BY <1>0 DEF RunsAreHeard
  <2> DEFINE r == tasks[s].response
  <2>1. /\ r \in Responses /\ tasks[s].beat = r
        /\ daemon.every <= Ttl => status[r] # "failed"
    BY DEF RunsAreHeard, Heard
  <2>2. tasks[s].beat # None BY <2>1, DaemonConstants
  <2>3. ~(age[r] >= daemon.every) BY <1>0, <2>1, <2>2 DEF BeatDue
  <2>4. /\ age'[r] \in Nat /\ age[r] \in Nat /\ age'[r] <= age[r] + 1
        /\ daemon.every \in Nat /\ daemon'.every = daemon.every
    BY <1>2, <2>1 DEF Types, LoopState, Tick, DaemonTick
  <2> HIDE DEF r
  <2>5. age'[r] <= daemon'.every BY <2>3, <2>4
  <2>6. tasks'[s] = tasks[s] /\ status'[r] = status[r] BY <1>0
  <2> QED BY <2>1, <2>4, <2>5, <2>6 DEF r, Heard
<1>4. daemon' \in LoopState /\ StopIsPaced'
  <2>a. Running' = Running BY <1>0 DEF Running
  <2>b. Cardinality(Running) \in Nat
    <3>1. Running \subseteq Slots BY DEF Running
    <3>2. IsFiniteSet(Running) BY <3>1, FS_Subset, DaemonConstants
    <3> QED BY <3>2, FS_CardinalityType
  <2>1. CASE daemon.pc # "stopping"
    <3>1. UNCHANGED daemon BY <2>1 DEF Tick, DaemonTick
    <3> QED BY <2>1, <3>1, NotStopping DEF Types
  <2>2. CASE daemon.pc = "stopping"
    <3>1. /\ daemon \in LoopState /\ daemon.spent \in Nat /\ daemon.elapsed \in Nat
          /\ daemon.held \in Nat /\ Budget \in Nat
      BY DaemonConstants DEF Types, LoopState
    <3>2. Running # {} /\ daemon.spent < Budget
      BY <1>0, <2>2, <3>1 DEF OverBudget, JoinDue
    <3> DEFINE spent == Capped(daemon.spent, Budget)
               elapsed == Capped(daemon.elapsed, MaxElapsed)
    <3>3. daemon' = [daemon EXCEPT !.spent = spent, !.elapsed = elapsed]
      BY <2>2 DEF Tick, DaemonTick
    <3>4. /\ spent = daemon.spent + 1 /\ spent \in Nat
          /\ elapsed \in Nat /\ elapsed <= daemon.elapsed + 1
      BY <3>1, <3>2 DEF Capped
    <3> HIDE DEF spent, elapsed
    <3>5. /\ daemon' \in LoopState /\ daemon'.spent = spent
          /\ daemon'.elapsed = elapsed /\ daemon'.held = daemon.held
      <4>1. spent \in Nat /\ elapsed \in Nat BY <3>4
      <4> QED BY <3>1, <3>3, <4>1 DEF LoopState
    <3> DEFINE b == Budget * (daemon.held - Cardinality(Running))
    <3>6. /\ Cardinality(Running) <= daemon.held
          /\ daemon.elapsed <= b + daemon.spent
      BY <2>2 DEF StopIsPaced
    <3>7. b \in Int BY <2>b, <3>1
    <3> HIDE DEF b
    <3>8. elapsed <= b + (daemon.spent + 1) /\ daemon.spent + 1 <= Budget
      BY <3>1, <3>2, <3>4, <3>6, <3>7
    <3> QED BY <2>a, <3>2, <3>4, <3>5, <3>6, <3>8 DEF StopIsPaced, b
  <2> QED BY <2>1, <2>2
<1>5. node' \in Node /\ node'.pc = node.pc /\ node'.drained = node.drained
  <2>1. node \in Node /\ node.waited \in Nat /\ DrainTimeout \in Nat
    BY GatewayConstants DEF Types, Node
  <2> DEFINE waited == IF node.pc = "draining" THEN Capped(node.waited, DrainTimeout)
                       ELSE node.waited
  <2>2. waited \in Nat BY <2>1 DEF Capped
  <2>3. node' = [node EXCEPT !.waited = waited] BY DEF Tick
  <2> HIDE DEF waited
  <2> QED BY <2>1, <2>2, <2>3 DEF Node
<1> QED BY <1>0, <1>1, <1>2, <1>3, <1>4, <1>5 DEF DaemonStep, Types

----------------------------------------------------------------------------
(* Together.                                                               *)

\* A response enters the ones in flight only by admission, and after a drain
\* only as a late one.
LEMMA DrainKeeps ==
    ASSUME Types, DrainIsFinal, \A r \in Responses : StatusMoves(r),
           late \subseteq late', node'.pc = node.pc, node'.drained = node.drained
    PROVE  DrainIsFinal'
<1> SUFFICES ASSUME node.drained, NEW r \in Responses, status'[r] \in {"queued", "in_progress"}
             PROVE  r \in late'
  BY DEF DrainIsFinal, InFlight
<1>1. ~Accepting BY DEF DrainIsFinal, Accepting
<1>2. CASE status[r] \in {"queued", "in_progress"}
  BY <1>2 DEF DrainIsFinal, InFlight
<1>3. CASE status[r] \notin {"queued", "in_progress"}
  BY <1>1, <1>3 DEF StatusMoves
<1> QED BY <1>2, <1>3

\* Only a running process starts a task, and only one without tasks is gone.
LEMMA NothingLeft ==
    ASSUME Types, StopLeavesNothing, [Next]_vars
    PROVE  StopLeavesNothing'
<1>0. daemon \in LoopState /\ tasks \in [Slots -> Task] BY DEF Types
<1>1. CASE UNCHANGED <<tasks, daemon>>
  BY <1>1 DEF StopLeavesNothing
<1>2. CASE Daemons
  <2>1. CASE \E s \in agenda.slots : Poll(s)
    BY <2>1 DEF Poll, StopLeavesNothing
  <2>2. CASE Stop \/ Restart
    <3>1. daemon'.pc # "stopped" BY <2>2, StartedFacts DEF Stop, Restart, Loop
    <3> QED BY <3>1 DEF StopLeavesNothing
  <2>3. CASE Drained
    BY <2>3 DEF Drained, Running, StopLeavesNothing
  <2>4. CASE GiveUp
    BY <2>4 DEF GiveUp, Free, StopLeavesNothing
  <2>5. CASE \E s \in Slots : \/ Claim(s, Writable) \/ Beat(s) \/ RunEnds(s, Writable)
                            \/ Settle(s, Writable)
    <3>1. daemon'.pc = daemon.pc
      BY <1>0, <2>5 DEF Claim, Beat, RunEnds, Settle, Joined, LoopState
    <3>2. daemon.pc # "stopped" \/ UNCHANGED tasks
      BY <2>5 DEF Claim, Beat, RunEnds, Settle, StopLeavesNothing
    <3> QED BY <3>1, <3>2 DEF StopLeavesNothing
  <2> QED BY <1>2, <2>1, <2>2, <2>3, <2>4, <2>5 DEF Daemons, DaemonGoesOn
<1>3. CASE Tick
  <2>1. UNCHANGED tasks /\ daemon'.pc = daemon.pc
    BY <1>0, <1>3 DEF Tick, DaemonTick, LoopState
  <2> QED BY <2>1 DEF StopLeavesNothing
<1>4. CASE UNCHANGED vars
  BY <1>1, <1>4 DEF vars, daemonVars
<1>5. CASE NodeSteps
  BY <1>0, <1>1, <1>5 DEF NodeSteps, Boot, Signal, DrainPoll, DrainBlindly, Exit, daemonVars
<1>6. CASE Sweeps
  BY <1>1, <1>6 DEF Sweeps, Reap, CleanUp
<1>7. CASE \E c \in Connections : Handlers(c) \/ Clients(c)
  <2>1. UNCHANGED <<tasks, daemon>>
    BY <1>7, HandlersAreConnectionSteps, Types DEF ConnectionStep, DaemonUntouched
  <2> QED BY <1>1, <2>1
<1> QED BY <1>2, <1>3, <1>4, <1>5, <1>6, <1>7 DEF Next, NodeSteps

LEMMA StepPreserves == GatewayInvariant /\ [Next]_vars => GatewayInvariant'
<1> SUFFICES ASSUME GatewayInvariant, [Next]_vars PROVE GatewayInvariant' OBVIOUS
<1>0. Types /\ RunsAreHeard /\ StopIsPaced /\ StopLeavesNothing /\ DrainIsFinal
  BY DEF GatewayInvariant
<1>a. StopLeavesNothing' BY <1>0, NothingLeft
<1>1. CASE NodeSteps
  <2>1. /\ UNCHANGED <<age, tasks, daemon, agenda, status, conns, late>> /\ node' \in Node
    BY <1>0, <1>1, NodeFrame DEF DaemonUntouched
  <2>2. Types' BY <1>0, <2>1 DEF Types
  <2>3. RunsAreHeard' BY <1>0, <2>1 DEF RunsAreHeard, Heard
  <2>4. StopIsPaced' BY <1>0, <2>1, SameRunning
  <2>5. DrainIsFinal' BY <1>0, <1>1, NodeKeepsDrain
  <2> QED BY <1>a, <2>2, <2>3, <2>4, <2>5 DEF GatewayInvariant
<1>2. CASE \E c \in Connections : Handlers(c) \/ Clients(c)
  <2>1. ConnectionStep BY <1>0, <1>2, HandlersAreConnectionSteps
  <2>2. Types' BY <1>0, <2>1 DEF Types, ConnectionStep, DaemonUntouched
  <2>3. RunsAreHeard' BY <1>0, <2>1, StillHeard DEF ConnectionStep, DaemonUntouched
  <2>4. StopIsPaced' BY <1>0, <2>1, SameRunning DEF ConnectionStep, DaemonUntouched
  <2>5. DrainIsFinal' BY <1>0, <2>1, DrainKeeps DEF ConnectionStep
  <2> QED BY <1>a, <2>2, <2>3, <2>4, <2>5 DEF GatewayInvariant
<1>3. CASE Sweeps
  <2>1. /\ UNCHANGED <<age, tasks, daemon, agenda, node, conns, late>>
        /\ status' \in [Responses -> Statuses] /\ \A r \in Responses : StatusMoves(r)
    BY <1>0, <1>3, SweepsMove DEF DaemonUntouched
  <2>2. Types' BY <1>0, <2>1 DEF Types
  <2>3. RunsAreHeard' BY <1>0, <2>1, StillHeard
  <2>4. StopIsPaced' BY <1>0, <2>1, SameRunning
  <2>5. DrainIsFinal' BY <1>0, <2>1, DrainKeeps
  <2> QED BY <1>a, <2>2, <2>3, <2>4, <2>5 DEF GatewayInvariant
<1>4. CASE Daemons
  <2>1. DaemonStep /\ UNCHANGED <<agenda, node, conns, late>>
    BY <1>0, <1>4, DaemonsAreDaemonSteps
  <2>2. Types' BY <1>0, <2>1 DEF Types, DaemonStep
  <2>3. DrainIsFinal' BY <1>0, <2>1, DrainKeeps DEF DaemonStep
  <2> QED BY <1>a, <2>1, <2>2, <2>3 DEF GatewayInvariant, DaemonStep
<1>5. CASE Tick
  <2>1. DaemonStep /\ UNCHANGED <<agenda, conns, late>> /\ node' \in Node
        /\ node'.pc = node.pc /\ node'.drained = node.drained
    BY <1>0, <1>5, TickIsDaemonStep
  <2>2. Types' BY <1>0, <2>1 DEF Types, DaemonStep
  <2>3. DrainIsFinal' BY <1>0, <2>1, DrainKeeps DEF DaemonStep
  <2> QED BY <1>a, <2>1, <2>2, <2>3 DEF GatewayInvariant, DaemonStep
<1>6. CASE UNCHANGED vars
  <2>1. UNCHANGED <<age, tasks, daemon, agenda, status, conns, late, node>>
    BY <1>6 DEF vars, daemonVars
  <2>2. StopIsPaced' BY <1>0, <2>1, SameRunning
  <2>3. InFlight' = InFlight BY <2>1 DEF InFlight
  <2> QED BY <1>a, <1>0, <2>1, <2>2, <2>3
          DEF GatewayInvariant, Types, RunsAreHeard, Heard, DrainIsFinal
<1> QED BY <1>1, <1>2, <1>3, <1>4, <1>5, <1>6 DEF Next, NodeSteps

LEMMA InitEstablishes == Init => GatewayInvariant
<1> SUFFICES ASSUME Init PROVE GatewayInvariant OBVIOUS
<1> USE DEF Init, DaemonInit
<1>1. Types
  <2>1. Free \in Task BY DEF Free, Task
  <2>2. daemon \in LoopState BY StartedFacts
  <2>3. Idle \in Handler BY DEF Idle, Handler
  <2>4. node \in Node BY DEF Node
  <2> QED BY <2>1, <2>2, <2>3, <2>4 DEF Types, Statuses
<1>2. RunsAreHeard BY DEF RunsAreHeard, Free
<1>3. StopIsPaced /\ StopLeavesNothing
  <2>1. daemon.pc = "running" BY StartedFacts
  <2> QED BY <2>1 DEF StopIsPaced, StopLeavesNothing
<1>4. DrainIsFinal BY DEF DrainIsFinal
<1> QED BY <1>1, <1>2, <1>3, <1>4 DEF GatewayInvariant

----------------------------------------------------------------------------
(* Theorems.                                                               *)

\* The invariant holds in every reachable state.
THEOREM GatewayStaysSound == Spec => []GatewayInvariant
BY InitEstablishes, StepPreserves, PTL DEF Spec

\* INV-9: a process whose heartbeat interval, floor included, is within the ttl of
\* the nodes that sweep never loses a run to them, however many permits it has
\* and however long the run (spawn_heartbeat, HeartbeatGuard, reap_expired).
THEOREM HealthyRunsSurvive == Spec => []HealthyRunsAreNotReaped
<1>1. GatewayInvariant => HealthyRunsAreNotReaped
  BY DEF GatewayInvariant, RunsAreHeard, Heard, HealthyRunsAreNotReaped
<1> QED BY <1>1, GatewayStaysSound, PTL

\* AgentRuntimeHandle::stop waits at most a budget for each task it found.
THEOREM StopsAreBounded == Spec => []StopIsBounded
<1>1. GatewayInvariant => StopIsBounded
  <2> SUFFICES ASSUME GatewayInvariant, daemon.pc = "stopping"
               PROVE  daemon.elapsed <= Budget * daemon.held
    BY DEF StopIsBounded
  <2> DEFINE n == Cardinality(Running)
             h == daemon.held
             x == Budget * (h - n)
  <2>1. /\ daemon.spent \in Nat /\ daemon.elapsed \in Nat /\ h \in Nat /\ Budget \in Nat
        /\ daemon.spent <= Budget /\ n <= h /\ daemon.elapsed <= x + daemon.spent
        /\ Running = {} => daemon.spent = 0
    BY DaemonConstants DEF GatewayInvariant, Types, LoopState, StopIsPaced
  <2>2. Running \subseteq Slots BY DEF Running
  <2>3. IsFiniteSet(Running) BY <2>2, FS_Subset, DaemonConstants
  <2>4. n \in Nat /\ (n = 0 <=> Running = {})
    BY <2>3, FS_CardinalityType, FS_EmptySet
  <2> HIDE DEF n
  <2>5. x = Budget * h - Budget * n /\ Budget * h \in Nat /\ Budget * n \in Nat
    BY <2>1, <2>4
  <2>6. CASE n = 0
    <3>1. daemon.spent = 0 /\ Budget * n = 0 BY <2>1, <2>4, <2>6
    <3> HIDE DEF x, h
    <3> QED BY <2>1, <2>5, <3>1 DEF h
  <2>7. CASE n # 0
    <3>1. Budget <= Budget * n BY <2>1, <2>4, <2>7
    <3> HIDE DEF x, h
    <3> QED BY <2>1, <2>5, <3>1 DEF h
  <2> QED BY <2>6, <2>7
<1> QED BY <1>1, GatewayStaysSound, PTL

\* FR-34: a drain that ends because nothing is in flight has waited for
\* everything accepted before the signal (shutdown::drain).
THEOREM DrainsWait == Spec => []DrainWaitsForTheAccepted
<1>1. GatewayInvariant => DrainWaitsForTheAccepted
  BY DEF GatewayInvariant, DrainIsFinal, DrainWaitsForTheAccepted
<1> QED BY <1>1, GatewayStaysSound, PTL
=============================================================================

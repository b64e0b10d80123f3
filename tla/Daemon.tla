------------------------------- MODULE Daemon -------------------------------
(***************************************************************************)
(* The claim loop of an execution process (crates/agent-runtime), its      *)
(* tasks, their heartbeats and its stop, beside the sweeper that reaps     *)
(* whoever is not heard of.  The ledger is reduced to the status of each   *)
(* response and the age of its holder's last heartbeat, the event log to   *)
(* whether a stream has ended; Lifecycle has both in full.                 *)
(*                                                                         *)
(* Time is discrete and passes only when no timer of a live process is     *)
(* due: processes are prompt.                                              *)
(***************************************************************************)
EXTENDS Naturals, FiniteSets

CONSTANTS
    None,
    Responses,
    Slots,          \* the permits of the semaphore
    Intervals,      \* the heartbeat intervals a process may be started with
    Ttl,            \* heartbeat_ttl, of the node that sweeps
    Budget          \* the stop budget

ASSUME DaemonConstants ==
    /\ None \notin Responses
    /\ Intervals \subseteq Nat /\ Ttl \in Nat /\ Budget \in Nat \ {0}
    /\ IsFiniteSet(Slots)

VARIABLES
    status,         \* response -> its status in the ledger, "new" before it is created
    log,            \* response -> its stream: "none", "open", "ended"
    age,            \* response -> ticks since its holder was last heard of
    tasks,          \* slot -> what its task is doing, for whom, and its heartbeat
    daemon,         \* the loop: pc, its heartbeat interval, ticks since a task was
                    \* last joined and in all, tasks held at the stop
    sweep           \* reaped responses the sweeper still has to clean up

daemonVars == <<status, log, age, tasks, daemon, sweep>>

InFlight == {r \in Responses : status[r] \in {"queued", "in_progress"}}

\* No task: the permit is free.
Free == [pc |-> "free", response |-> None, beat |-> None]
Running == {s \in Slots : tasks[s].pc # "free"}

\* A tick is the floor of the interval, MIN_HEARTBEAT_INTERVAL.
HeartbeatEvery(interval) == IF interval < 1 THEN 1 ELSE interval

\* The interval is an argument of the execution process; nothing compares it
\* with the ttl of the nodes that sweep.
Loop(pc, every) == [pc |-> pc, every |-> every, spent |-> 0, elapsed |-> 0, held |-> 0]
Started == {Loop("running", HeartbeatEvery(interval)) : interval \in Intervals}

DaemonInit ==
    /\ status = [r \in Responses |-> "new"]
    /\ log = [r \in Responses |-> "none"]
    /\ age = [r \in Responses |-> 0]
    /\ tasks = [s \in Slots |-> Free]
    /\ daemon \in Started
    /\ sweep = {}

----------------------------------------------------------------------------
(* start: poll, claim, serve.                                              *)

\* The interval elapses and a permit is free.
Poll(s) ==
    /\ daemon.pc = "running" /\ tasks[s] = Free
    /\ tasks' = [tasks EXCEPT ![s].pc = "spawned"]
    /\ UNCHANGED <<status, log, age, daemon, sweep>>

\* A task is over.  When the loop is being stopped it joins the task and waits
\* for the next one with a new deadline.
Joined(s) ==
    /\ tasks' = [tasks EXCEPT ![s] = Free]
    /\ daemon' = [daemon EXCEPT !.spent = 0]

\* Mutant: the guard is dropped where it is made, and the heartbeat with it.
HeldUnbound(r) == [pc |-> "serving", response |-> r, beat |-> None]

Held(r) == [pc |-> "serving", response |-> r, beat |-> r]

\* run_once: one claim, whether or not the loop was stopped meanwhile.  A ledger
\* that is read-only gives nothing.
Claim(s, writable) ==
    /\ tasks[s].pc = "spawned"
    /\ \/ \E r \in Responses :
             /\ writable /\ status[r] = "queued"
             /\ status' = [status EXCEPT ![r] = "in_progress"]
             /\ age' = [age EXCEPT ![r] = 0]
             /\ tasks' = [tasks EXCEPT ![s] = Held(r)]
             /\ UNCHANGED daemon
       \/ /\ ~writable \/ \A r \in Responses : status[r] # "queued"
          /\ Joined(s)
          /\ UNCHANGED <<status, age>>
    /\ UNCHANGED <<log, sweep>>

\* spawn_heartbeat's loop.  The ledger takes every heartbeat, from a holder it
\* gave up and while it is read-only too, so the loop's break is never reached.
Beat(s) ==
    /\ tasks[s].beat # None
    /\ age[tasks[s].beat] >= daemon.every
    /\ age' = [age EXCEPT ![tasks[s].beat] = 0]
    /\ UNCHANGED <<status, log, tasks, daemon, sweep>>

\* The runner returns, well or not, or its probe or its next append finds the
\* fence moved.  A ledger that is read-only refuses the end, and the task is over
\* with the record still in progress.
RunEnds(s, writable) ==
    /\ tasks[s].pc = "serving"
    /\ LET r == tasks[s].response
       IN  \/ /\ writable /\ status[r] = "in_progress"
              /\ status' = [status EXCEPT ![r] = "completed"]
              /\ tasks' = [tasks EXCEPT ![s].pc = "settling"]
              /\ UNCHANGED daemon
           \/ /\ ~writable \/ status[r] # "in_progress"
              /\ Joined(s)
              /\ UNCHANGED status
    /\ UNCHANGED <<log, age, sweep>>

\* The terminal event and the close.  The append starts a stream that was removed
\* again, unless it is refused, and a close finds none then.
EndLog(r, writable) ==
    log' = IF writable \/ log[r] # "none" THEN [log EXCEPT ![r] = "ended"] ELSE log

\* close_stream.
Settle(s, writable) ==
    /\ tasks[s].pc = "settling"
    /\ EndLog(tasks[s].response, writable)
    /\ Joined(s)
    /\ UNCHANGED <<status, age, sweep>>

----------------------------------------------------------------------------
(* stop.                                                                   *)

Stop ==
    /\ daemon.pc = "running"
    /\ daemon' = [Loop("stopping", daemon.every) EXCEPT !.held = Cardinality(Running)]
    /\ UNCHANGED <<status, log, age, tasks, sweep>>

Drained ==
    /\ daemon.pc = "stopping" /\ Running = {}
    /\ daemon' = Loop("stopped", daemon.every)
    /\ UNCHANGED <<status, log, age, tasks, sweep>>

OverBudget == daemon.pc = "stopping" /\ Running # {} /\ daemon.spent >= Budget

\* Mutant: the loop goes on waiting with a new deadline.
WaitAgain ==
    /\ OverBudget
    /\ daemon' = [daemon EXCEPT !.spent = 0]
    /\ UNCHANGED <<status, log, age, tasks, sweep>>

\* Mutant: an aborted task leaves its heartbeat running.
GiveUpBeating ==
    /\ OverBudget
    /\ daemon' = Loop("stopped", daemon.every)
    /\ tasks' = [s \in Slots |-> [Free EXCEPT !.beat = tasks[s].beat]]
    /\ UNCHANGED <<status, log, age, sweep>>

\* The join set is dropped: every task is aborted where it is and its guard
\* stops the heartbeat.
GiveUp ==
    /\ OverBudget
    /\ daemon' = Loop("stopped", daemon.every)
    /\ tasks' = [s \in Slots |-> Free]
    /\ UNCHANGED <<status, log, age, sweep>>

\* The next execution process, with an interval of its own.
Restart ==
    /\ daemon.pc = "stopped"
    /\ daemon' \in Started
    /\ UNCHANGED <<status, log, age, tasks, sweep>>

----------------------------------------------------------------------------
(* The sweeper, while its node is up.                                      *)

Reap ==
    /\ sweep = {}
    /\ LET lost == {r \in Responses : status[r] = "in_progress" /\ age[r] > Ttl}
       IN  /\ lost # {}
           /\ status' = [r \in Responses |-> IF r \in lost THEN "failed" ELSE status[r]]
           /\ sweep' = lost
    /\ UNCHANGED <<log, age, tasks, daemon>>

CleanUp(writable) ==
    /\ \E r \in sweep :
          /\ EndLog(r, writable)
          /\ sweep' = sweep \ {r}
    /\ UNCHANGED <<status, age, tasks, daemon>>

BeatDue == \E s \in Slots : tasks[s].beat # None /\ age[tasks[s].beat] >= daemon.every

Capped(n, max) == IF n < max THEN n + 1 ELSE n
MaxAge == IF daemon.every > Ttl THEN daemon.every ELSE Ttl + 1   \* when a beat and a reap are due
MaxElapsed == Budget * Cardinality(Slots) + 1   \* bound on the time of a stop that is kept

JoinDue == daemon.pc = "stopping" /\ Running = {}

DaemonTick ==
    /\ ~BeatDue /\ ~OverBudget /\ ~JoinDue
    /\ age' = [r \in Responses |->
                  IF status[r] = "in_progress" THEN Capped(age[r], MaxAge) ELSE age[r]]
    /\ daemon' = IF daemon.pc # "stopping" THEN daemon
                 ELSE [daemon EXCEPT !.spent = Capped(@, Budget),
                                     !.elapsed = Capped(@, MaxElapsed)]
    /\ UNCHANGED <<status, log, tasks, sweep>>

\* Everything but a poll and the order to stop.
DaemonGoesOn(writable) ==
    \/ \E s \in Slots :
          Claim(s, writable) \/ Beat(s) \/ RunEnds(s, writable) \/ Settle(s, writable)
    \/ Drained \/ GiveUp \/ Restart

----------------------------------------------------------------------------
\* INV-9: the heartbeat lives as long as the run, however long that is, so a
\* process that beats at least once in a ttl never loses a run to the sweeper.
\* Nothing in the code keeps a process from beating less often, and one that does
\* has its runs reaped while it is healthy.
HealthyRunsAreNotReaped ==
    daemon.every <= Ttl =>
        \A s \in Slots : tasks[s].pc = "serving" => status[tasks[s].response] # "failed"

\* AgentRuntimeHandle::stop is bounded.  Each task that is joined starts the
\* budget again, so the bound is the budget times the tasks held at the stop,
\* not the budget the comment in start speaks of.
StopIsBounded == daemon.pc = "stopping" => daemon.elapsed <= Budget * daemon.held
=============================================================================

----------------------------- MODULE Lifecycle -----------------------------
(***************************************************************************)
(* The life of a response across the three stores: the service's create,   *)
(* cancel and delete (crates/responses/src/service/responses.rs), the      *)
(* execution of crates/agent-runtime/src/runtime.rs, and the sweeper of    *)
(* crates/responses/src/service/sweep.rs, in any number of processes.      *)
(*                                                                         *)
(* A step of a process is one call on a store, the unit the stores make    *)
(* atomic.  Between two steps everything may happen: another process's     *)
(* steps, a clock tick, a degrade, or the end of the process itself - a    *)
(* killed peer, an aborted task, or a request future dropped because its   *)
(* client went away.                                                       *)
(*                                                                         *)
(* At most one process of a kind works on a response: its id is minted by  *)
(* its create, its claim goes to one agent (named after it here), and the  *)
(* ledger lets one of cancel, reap and complete through.                   *)
(***************************************************************************)
EXTENDS LedgerStore, EventLogStore, ConversationStore

CONSTANTS
    Owner,          \* the tenant of every response and conversation
    ConvOf,         \* response -> the conversation of its anchor, or None
    KeyOf,          \* response -> its idempotency key
    Stored,         \* the responses asked for with store = true
    MaxDepth,       \* chain.max_depth, in turns
    MaxDeltas,      \* bound on the output one run produces, in deltas
    RunOutcomes,    \* the statuses a runner may end with: completed, incomplete
    Cancellable, Deletable, Droppable,  \* responses and conversations clients
                                        \* cancel, delete, and delete wholly
    Degradable,     \* whether the read-only degrade is toggled
    Ticking,        \* whether time passes, so that claims are lost and reaped
    MaxCrashes      \* bound on the processes that die

\* An agent is named after the one response it claims, and what a run counts
\* is what it may report.
ASSUME LifecycleConstants ==
    /\ Owner \in Tenants
    /\ ConvOf \in [Responses -> Conversations \cup {None}]
    /\ KeyOf \in [Responses -> Keys]
    /\ Responses \subseteq Agents
    /\ MaxDepth \in Nat /\ MaxDeltas \in Nat /\ MaxCrashes \in Nat
    /\ 0..MaxDeltas \subseteq Usages
    /\ RunOutcomes \subseteq {"completed", "incomplete"}
    /\ TerminalBodies = {"completed", "incomplete", "failed"}
    /\ {"created", "in_progress", "delta"} \subseteq Bodies

VARIABLES
    creator,    \* response -> the create call that minted it: pc, holder met
    engine,     \* response -> the run_once that claimed it; age is the time since
                \* its claim
    cleaner,    \* response -> the cancel call or sweeper tick that ended it, and
                \* its age
    deleter,    \* response -> the delete call on it: pc
    crashes

stores == <<ledgerVars, logs, convVars>>
procs == <<creator, engine, cleaner, deleter>>
vars == <<stores, procs, crashes>>

\* The stores a step leaves alone.
SameLedger == UNCHANGED ledgerVars
SameLogs   == UNCHANGED logs
SameConvs  == UNCHANGED convVars

HasConv(r) == ConvOf[r] # None

Init ==
    /\ LedgerInit /\ LogInit
    /\ unavailable = FALSE
    /\ convs = [c \in Conversations |-> [NoConv EXCEPT !.live = TRUE, !.tenant = Owner]]
    /\ creator = [r \in Responses |-> [pc |-> "resolve", holder |-> None]]
    /\ engine = [r \in Responses |-> [pc |-> "idle", emitted |-> 0,
                                      status |-> "completed", committed |-> FALSE,
                                      age |-> 0]]
    /\ cleaner = [r \in Responses |-> [pc |-> "idle", kind |-> "cancel", output |-> 0,
                                       age |-> 0]]
    /\ deleter = [r \in Responses |-> "idle"]
    /\ crashes = 0

\* Deltas among the events a log holds.
DeltasIn(id) ==
    Cardinality({i \in 1..Len(logs[id].ring) : logs[id].ring[i].body = "delta"})

\* The push of an append whose failure its caller ignores.  An append without
\* an attempt has the read-only gate in front of it; one with an attempt has
\* the ledger's fence there, in a step of its own.
TryPush(r, body) == IF PushOutcome(r) = "ok" THEN LogPush(r, body) ELSE SameLogs
CanAppend(r) == ~readOnly /\ PushOutcome(r) = "ok"
TryAppend(r, body) == IF CanAppend(r) THEN LogPush(r, body) ELSE SameLogs
TryClose(r, age) == IF logs[r].live THEN LogClose(r, age) ELSE SameLogs

\* A release or an archival whose failure is only logged.
TryRelease(r) ==
    IF HasConv(r) /\ ReleaseOutcome(ConvOf[r], Owner, r) = "released"
    THEN ReleaseActive(ConvOf[r], Owner, r) ELSE SameConvs
TryArchive(r, output) ==
    IF TurnOutcome(ConvOf[r], Owner) = "ok"
    THEN AppendTurn(ConvOf[r], Owner, r, output) ELSE SameConvs

----------------------------------------------------------------------------
(* create.                                                                 *)

CreatorGoes(r, pc) ==
    /\ creator' = [creator EXCEPT ![r].pc = pc]
    /\ UNCHANGED <<engine, cleaner, deleter, crashes>>

\* The bounds of the inherited context are checked against the snapshot as it
\* stands now; nothing of it is kept.
Resolve(r) ==
    /\ creator[r].pc = "resolve"
    /\ CreatorGoes(r, IF ~HasConv(r) THEN "admit"
                      ELSE IF /\ SnapshotReadable(ConvOf[r], Owner)
                              /\ Len(convs[ConvOf[r]].turns) < MaxDepth
                           THEN "acquire" ELSE "refused")
    /\ SameLedger /\ SameLogs /\ SameConvs

TakeMarker(r) ==
    LET outcome == AcquireOutcome(ConvOf[r], Owner, r)
    IN  /\ creator[r].pc \in {"acquire", "reacquire"}
        /\ \/ /\ outcome = "acquired"
              /\ AcquireActive(ConvOf[r], Owner, r)
              /\ CreatorGoes(r, "admit")
           \/ /\ outcome = "busy" /\ creator[r].pc = "acquire"
              /\ creator' = [creator EXCEPT ![r] = [pc |-> "busy",
                                                    holder |-> convs[ConvOf[r]].active]]
              /\ UNCHANGED <<engine, cleaner, deleter, crashes>>
              /\ SameConvs
           \/ /\ outcome # "acquired"
              /\ outcome = "busy" => creator[r].pc = "reacquire"
              /\ CreatorGoes(r, "refused")
              /\ SameConvs
        /\ SameLedger /\ SameLogs

\* Mutant: a holder without a record counts as running.
StaleWhenTerminal(holder) == records[holder].status \in Terminal

\* A holder without a record counts as terminal.
Stale(holder) == records[holder].status \notin InFlight

InspectHolder(r) ==
    /\ creator[r].pc = "busy"
    /\ CreatorGoes(r, IF Stale(creator[r].holder) THEN "takeover" ELSE "refused")
    /\ SameLedger /\ SameLogs /\ SameConvs

TakeOver(r) ==
    /\ creator[r].pc = "takeover"
    /\ IF Writable /\ StaleHolder(ConvOf[r], Owner, creator[r].holder)
       THEN ReleaseStale(ConvOf[r], Owner, creator[r].holder) ELSE SameConvs
    /\ CreatorGoes(r, IF Writable THEN "reacquire" ELSE "refused")
    /\ SameLedger /\ SameLogs

Admit(r) ==
    /\ creator[r].pc = "admit"
    /\ \/ /\ \E spec \in Specs : LedgerCreate(r, KeyOf[r], Owner, spec)
          /\ CreatorGoes(r, "announce")
       \/ /\ CreateOutcome(KeyOf[r]) # "accepted"
          /\ CreatorGoes(r, "giveback")
          /\ SameLedger
    /\ SameLogs /\ SameConvs

AnnounceCreated(r) ==
    /\ creator[r].pc = "announce"
    /\ TryAppend(r, "created")
    /\ CreatorGoes(r, IF CanAppend(r) THEN "accepted" ELSE "giveback")
    /\ SameLedger /\ SameConvs

GiveBack(r) ==
    /\ creator[r].pc = "giveback"
    /\ TryRelease(r)
    /\ CreatorGoes(r, "refused")
    /\ SameLedger /\ SameLogs

Creating(r) ==
    \/ Resolve(r) \/ TakeMarker(r) \/ InspectHolder(r) \/ TakeOver(r)
    \/ Admit(r) \/ AnnounceCreated(r) \/ GiveBack(r)

----------------------------------------------------------------------------
(* run_once.                                                               *)

EngineGoes(r, pc) ==
    /\ engine' = [engine EXCEPT ![r].pc = pc]
    /\ UNCHANGED <<creator, cleaner, deleter, crashes>>

Attempt == 1    \* the attempt every claim is given: the first

Claim(r) ==
    /\ LedgerClaim(r, r)
    /\ EngineGoes(r, "announce")
    /\ SameLogs /\ SameConvs

\* A poll that only drops stale queue entries.
PollNothing ==
    /\ queued # <<>>
    /\ LedgerClaimNothing
    /\ SameLogs /\ SameConvs /\ UNCHANGED <<procs, crashes>>

\* The heartbeat task lives as long as serve does.
Serving(r) == engine[r].pc \notin {"idle", "done", "dead"}

\* Mutant: the heartbeat does not wait for a claim.
HeartbeatUnclaimed(r) ==
    /\ LedgerHeartbeat(r)
    /\ SameLogs /\ SameConvs /\ UNCHANGED <<procs, crashes>>

Heartbeat(r) ==
    /\ Serving(r)
    /\ LedgerHeartbeat(r)
    /\ SameLogs /\ SameConvs /\ UNCHANGED <<procs, crashes>>

\* The in_progress event: whatever becomes of it, the run goes on.
AnnounceFence(r) ==
    /\ engine[r].pc = "announce"
    /\ EngineGoes(r, IF FenceOutcome(r, Attempt) = "ok" THEN "announcing" ELSE "context")
    /\ SameLedger /\ SameLogs /\ SameConvs

AnnouncePush(r) ==
    /\ engine[r].pc = "announcing"
    /\ TryPush(r, "in_progress")
    /\ EngineGoes(r, "context")
    /\ SameLedger /\ SameConvs

\* The context the run gets is read once from the anchor; the creation-time
\* bounds are not looked at again.
ReadContext(r) ==
    /\ engine[r].pc = "context"
    /\ EngineGoes(r, IF HasConv(r) /\ ~SnapshotReadable(ConvOf[r], Owner)
                     THEN "fail" ELSE "run")
    /\ SameLedger /\ SameLogs /\ SameConvs

\* One delta through the sink: counted before it is appended.  A moved fence
\* stops the run; any other refusal is a transport error, which fails it.
EmitFence(r) ==
    /\ engine[r].pc = "run" /\ engine[r].emitted < MaxDeltas
    /\ engine' = [engine EXCEPT
            ![r].emitted = @ + 1,
            ![r].pc = CASE FenceOutcome(r, Attempt) = "ok" -> "emitting"
                        [] FenceOutcome(r, Attempt) = "stale_attempt" -> "done"
                        [] OTHER -> "fail"]
    /\ UNCHANGED <<creator, cleaner, deleter, crashes>>
    /\ SameLedger /\ SameLogs /\ SameConvs

EmitPush(r) ==
    /\ engine[r].pc = "emitting"
    /\ TryPush(r, "delta")
    /\ EngineGoes(r, IF PushOutcome(r) = "ok" THEN "run" ELSE "fail")
    /\ SameLedger /\ SameConvs

\* LedgerCancelProbe: only a moved fence wakes the runner.
ProbeFires(r) ==
    /\ engine[r].pc = "run"
    /\ FenceOutcome(r, Attempt) = "stale_attempt"
    /\ EngineGoes(r, "done")
    /\ SameLedger /\ SameLogs /\ SameConvs

\* The runner ends, one way or the other.
RunnerEnds(r) ==
    /\ engine[r].pc = "run"
    /\ \/ \E status \in RunOutcomes :
             engine' = [engine EXCEPT ![r].pc = "complete", ![r].status = status]
       \/ engine' = [engine EXCEPT ![r].pc = "fail"]
    /\ UNCHANGED <<creator, cleaner, deleter, crashes>>
    /\ SameLedger /\ SameLogs /\ SameConvs

Archivable(r) == r \in Stored /\ HasConv(r)

\* Where a run goes once the ledger took its end.
Concluded(r, status, pc) ==
    /\ engine' = [engine EXCEPT ![r].status = status, ![r].pc = pc,
                                ![r].committed = r \in Stored /\ ~HasConv(r)]
    /\ UNCHANGED <<creator, cleaner, deleter, crashes>>

EndStatus(r) == IF engine[r].pc = "fail" THEN "failed" ELSE engine[r].status

\* Mutant: a run the ledger refused to end settles all the same.
ConcludeAnyway(r) ==
    /\ engine[r].pc \in {"complete", "fail"}
    /\ \/ LedgerComplete(r, Attempt, EndStatus(r), engine[r].emitted)
       \/ FenceOutcome(r, Attempt) # "ok" /\ SameLedger
    /\ Concluded(r, EndStatus(r), IF Archivable(r) THEN "archive" ELSE "release")
    /\ SameLogs /\ SameConvs

\* Mutant: the marker is given back without the turn having been archived.
ConcludeAndRelease(r) ==
    /\ engine[r].pc \in {"complete", "fail"}
    /\ LedgerComplete(r, Attempt, EndStatus(r), engine[r].emitted)
    /\ Concluded(r, EndStatus(r), "release")
    /\ SameLogs /\ SameConvs

\* The ledger transition of complete and fail: refused, the run just returns.
Conclude(r) ==
    /\ engine[r].pc \in {"complete", "fail"}
    /\ \/ /\ LedgerComplete(r, Attempt, EndStatus(r), engine[r].emitted)
          /\ Concluded(r, EndStatus(r), IF Archivable(r) THEN "archive" ELSE "release")
       \/ /\ FenceOutcome(r, Attempt) # "ok"
          /\ EngineGoes(r, "done")
          /\ SameLedger
    /\ SameLogs /\ SameConvs

\* What follows the archival of a turn: a stored turn with a reply becomes the
\* conversation's tail.
AfterArchive(r, stored, advancing) ==
    /\ engine' = [engine EXCEPT ![r].committed = stored,
                                ![r].pc = IF advancing THEN "advance" ELSE "release"]
    /\ UNCHANGED <<creator, cleaner, deleter, crashes>>

TurnStored(r) == TurnOutcome(ConvOf[r], Owner) = "ok"

\* Mutant: failed turns, too, become the tail.
ArchiveTurnAdvancing(r) ==
    /\ engine[r].pc = "archive"
    /\ TryArchive(r, engine[r].emitted)
    /\ AfterArchive(r, TurnStored(r), TurnStored(r))
    /\ SameLedger /\ SameLogs

\* Mutant: the output is dropped from the archived turn.
ArchiveTurnInputOnly(r) ==
    /\ engine[r].pc = "archive"
    /\ TryArchive(r, 0)
    /\ AfterArchive(r, TurnStored(r), TurnStored(r) /\ engine[r].status # "failed")
    /\ SameLedger /\ SameLogs

ArchiveTurn(r) ==
    /\ engine[r].pc = "archive"
    /\ TryArchive(r, engine[r].emitted)
    /\ AfterArchive(r, TurnStored(r), TurnStored(r) /\ engine[r].status # "failed")
    /\ SameLedger /\ SameLogs

AdvanceTail(r) ==
    /\ engine[r].pc = "advance"
    /\ IF TurnStored(r) THEN Advance(ConvOf[r], Owner, r) ELSE SameConvs
    /\ EngineGoes(r, "release")
    /\ SameLedger /\ SameLogs

\* A completed turn that could not be stored ends here, without a terminal
\* event and without closing its stream.
SettleMarker(r) ==
    /\ engine[r].pc = "release"
    /\ TryRelease(r)
    /\ EngineGoes(r, IF /\ engine[r].status # "failed"
                        /\ r \in Stored /\ ~engine[r].committed
                     THEN "done" ELSE "terminal")
    /\ SameLedger /\ SameLogs

EndStream(r) ==
    /\ engine[r].pc = "terminal"
    /\ TryAppend(r, engine[r].status)
    /\ EngineGoes(r, "close")
    /\ SameLedger /\ SameConvs

\* The terminal time given is the one the run was claimed at.
CloseStream(r) ==
    /\ engine[r].pc = "close"
    /\ TryClose(r, engine[r].age)
    /\ EngineGoes(r, "done")
    /\ SameLedger /\ SameConvs

\* What the runner decides, and what the runtime around it does.
Running_(r) == EmitFence(r) \/ RunnerEnds(r)
Executing(r) ==
    \/ AnnounceFence(r) \/ AnnouncePush(r) \/ ReadContext(r) \/ EmitPush(r) \/ ProbeFires(r)
    \/ Conclude(r) \/ ArchiveTurn(r) \/ AdvanceTail(r) \/ SettleMarker(r)
    \/ EndStream(r) \/ CloseStream(r)

----------------------------------------------------------------------------
(* cancel and the sweeper's tick: the response is ended from outside.      *)

CleanerGoes(r, pc) ==
    /\ cleaner' = [cleaner EXCEPT ![r].pc = pc]
    /\ UNCHANGED <<creator, engine, deleter, crashes>>

\* Mutant: a cancel reports the end but does not close the stream.
CancelThenNoClose == [read |-> "replay", archive |-> "release", release |-> "terminal",
                      terminal |-> "done", close |-> "done"]

\* What follows each step.  A cancel archives and releases before it ends the
\* stream; the sweeper ends the stream first.
CancelThen == [read |-> "replay", archive |-> "release", release |-> "terminal",
               terminal |-> "close", close |-> "done"]
ReapThen == [terminal |-> "close", close |-> "replay", archive |-> "release",
             release |-> "done"]
Then(r) == IF cleaner[r].kind = "cancel" THEN CancelThen[cleaner[r].pc]
           ELSE ReapThen[cleaner[r].pc]

\* A turn without a snapshot to go to is not replayed.
SkipArchive(r, pc) == IF pc = "replay" /\ ~Archivable(r) THEN "release" ELSE pc

Ending(pc, kind) == [pc |-> pc, kind |-> kind, output |-> 0, age |-> 0]

Cancel(r) ==
    /\ r \in Cancellable
    /\ LedgerCancel(r, Owner)
    /\ cleaner' = [cleaner EXCEPT ![r] = Ending("read", "cancel")]
    /\ UNCHANGED <<creator, engine, deleter, crashes>>
    /\ SameLogs /\ SameConvs

Reap ==
    /\ LostClaims # {}
    /\ LedgerReap
    /\ cleaner' = [r \in Responses |->
                      IF r \in LostClaims THEN Ending("terminal", "reap") ELSE cleaner[r]]
    /\ UNCHANGED <<creator, engine, deleter, crashes>>
    /\ SameLogs /\ SameConvs

\* The cancelled record may have been deleted meanwhile; then only its stream
\* is ended.
ReadBack(r) ==
    /\ cleaner[r].pc = "read"
    /\ CleanerGoes(r, IF Exists(r) THEN SkipArchive(r, Then(r)) ELSE "terminal")
    /\ SameLedger /\ SameLogs /\ SameConvs

\* replay_completed_items from the beginning: a missing, swept or evicted
\* beginning is an error, and the turn is then not archived.
Replay(r) ==
    /\ cleaner[r].pc = "replay"
    /\ IF ReadOutcome(r, -1) \in {"batch", "empty"}
       THEN /\ cleaner' = [cleaner EXCEPT ![r].pc = "archive", ![r].output = DeltasIn(r)]
            /\ UNCHANGED <<creator, engine, deleter, crashes>>
       ELSE CleanerGoes(r, "release")
    /\ SameLedger /\ SameLogs /\ SameConvs

ArchiveReplayed(r) ==
    /\ cleaner[r].pc = "archive"
    /\ TryArchive(r, cleaner[r].output)
    /\ CleanerGoes(r, Then(r))
    /\ SameLedger /\ SameLogs

ReleaseMarker(r) ==
    /\ cleaner[r].pc = "release"
    /\ TryRelease(r)
    /\ CleanerGoes(r, Then(r))
    /\ SameLedger /\ SameLogs

\* Both report the end as a failed event.
AbortStream(r) ==
    /\ cleaner[r].pc = "terminal"
    /\ TryAppend(r, "failed")
    /\ CleanerGoes(r, Then(r))
    /\ SameLedger /\ SameConvs

\* The terminal time given is the one the cancel or the tick began at.
CloseAborted(r) ==
    /\ cleaner[r].pc = "close"
    /\ TryClose(r, cleaner[r].age)
    /\ CleanerGoes(r, SkipArchive(r, Then(r)))
    /\ SameLedger /\ SameConvs

Cleaning(r) ==
    \/ ReadBack(r) \/ Replay(r) \/ ArchiveReplayed(r) \/ ReleaseMarker(r)
    \/ AbortStream(r) \/ CloseAborted(r)

\* The second half of a tick.
Sweep == LogSweep /\ SameLedger /\ SameConvs /\ UNCHANGED <<procs, crashes>>

----------------------------------------------------------------------------
(* delete, and deleting the conversation.                                  *)

DeleterGoes(r, pc) ==
    /\ deleter' = [deleter EXCEPT ![r] = pc]
    /\ UNCHANGED <<creator, engine, cleaner, crashes>>

\* A repeated delete finds no record, removes the stream and announces nothing.
DeleteRecord(r) ==
    /\ r \in Deletable
    /\ \/ /\ LedgerDelete(r)
          /\ DeleterGoes(r, "remove")
       \/ /\ deleter[r] \in {"done", "dead"} /\ ~readOnly /\ ~Exists(r)
          /\ DeleterGoes(r, "removeagain")
          /\ SameLedger
    /\ SameLogs /\ SameConvs

RemoveStream(r) ==
    /\ deleter[r] \in {"remove", "removeagain"}
    /\ IF logs[r].live THEN LogRemove(r) ELSE SameLogs
    /\ DeleterGoes(r, IF HasConv(r) /\ deleter[r] = "remove" THEN "announce" ELSE "done")
    /\ SameLedger /\ SameConvs

AnnounceDeleted(r) ==
    /\ deleter[r] = "announce"
    /\ IF Writable /\ Owned(ConvOf[r], Owner) /\ ~Full(ConvOf[r])
       THEN AppendEvent(ConvOf[r], Owner, "response_deleted", r) ELSE SameConvs
    /\ DeleterGoes(r, "done")
    /\ SameLedger /\ SameLogs

Deleting(r) == RemoveStream(r) \/ AnnounceDeleted(r)

DropConversation(c) ==
    /\ c \in Droppable
    /\ ConvDelete(c, Owner)
    /\ SameLedger /\ SameLogs /\ UNCHANGED <<procs, crashes>>

----------------------------------------------------------------------------
(* The environment.                                                        *)

Degrade ==
    /\ Degradable
    /\ SetReadOnly(~readOnly)
    /\ SameLogs /\ SameConvs /\ UNCHANGED <<procs, crashes>>

\* Times are told apart up to the last bound anything is compared with.
Older(age) == IF age < TombstoneAfter THEN age + 1 ELSE age
\* The time a clean-up was begun at is used until its close, to which a cancel comes
\* after its release and a reap before it.
Ageing(r) ==
    /\ cleaner[r].pc \notin {"idle", "done", "dead"}
    /\ cleaner[r].pc = "release" => cleaner[r].kind = "cancel"

Tick ==
    /\ Ticking
    /\ LedgerTick /\ LogTick
    /\ engine' = [r \in Responses |->
          [engine[r] EXCEPT !.age = IF Serving(r) THEN Older(@) ELSE @]]
    /\ cleaner' = [r \in Responses |->
          [cleaner[r] EXCEPT !.age = IF Ageing(r) THEN Older(@) ELSE @]]
    /\ SameConvs /\ UNCHANGED <<creator, deleter, crashes>>

\* A process ends between two of its steps.
Crash(r) ==
    /\ crashes < MaxCrashes
    /\ crashes' = crashes + 1
    /\ \/ /\ creator[r].pc \notin {"resolve", "accepted", "refused", "dead"}
          /\ creator' = [creator EXCEPT ![r].pc = "dead"]
          /\ UNCHANGED <<engine, cleaner, deleter>>
       \/ /\ Serving(r)
          /\ engine' = [engine EXCEPT ![r].pc = "dead"]
          /\ UNCHANGED <<creator, cleaner, deleter>>
       \/ /\ cleaner[r].pc \notin {"idle", "done", "dead"}
          /\ cleaner' = [cleaner EXCEPT ![r].pc = "dead"]
          /\ UNCHANGED <<creator, engine, deleter>>
       \/ /\ deleter[r] \notin {"idle", "done", "dead"}
          /\ deleter' = [deleter EXCEPT ![r] = "dead"]
          /\ UNCHANGED <<creator, engine, cleaner>>
    /\ UNCHANGED stores

Next ==
    \/ \E r \in Responses :
          \/ Creating(r)
          \/ Claim(r) \/ Heartbeat(r) \/ Running_(r) \/ Executing(r)
          \/ Cancel(r) \/ Cleaning(r)
          \/ DeleteRecord(r) \/ Deleting(r)
          \/ Crash(r)
    \/ PollNothing \/ Reap \/ Sweep \/ Degrade \/ Tick
    \/ \E c \in Conversations : DropConversation(c)

Spec == Init /\ [][Next]_vars
=============================================================================

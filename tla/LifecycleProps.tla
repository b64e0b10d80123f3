--------------------------- MODULE LifecycleProps ---------------------------
(***************************************************************************)
(* What the composition of the services, the runtime and the sweeper owes  *)
(* to clients, stated over the three stores.                               *)
(***************************************************************************)
EXTENDS Lifecycle

TerminalAt(r, i) == logs[r].ring[i].body \in TerminalBodies

----------------------------------------------------------------------------
(* Safety.                                                                 *)

\* A response ends once for its subscribers, and ends as it did in the ledger:
\* the completion, the cancel and the sweeper racing for it never leave two
\* terminal events or one that contradicts the record (EndStream, AbortStream).
StreamAgreesWithLedger ==
    \A r \in Responses :
        LET n == Len(logs[r].ring)
        IN  /\ \A i, j \in 1..n : TerminalAt(r, i) /\ TerminalAt(r, j) => i = j
            /\ \A i \in 1..n :
                  TerminalAt(r, i) /\ Exists(r) =>
                      IF logs[r].ring[i].body = "failed"
                      THEN records[r].status \in {"failed", "cancelled"}
                      ELSE records[r].status = logs[r].ring[i].body

TurnOver(r) ==
    \E i \in 1..Len(convs[ConvOf[r]].events) :
        convs[ConvOf[r]].events[i] = Event("turn_completed", r)

InSnapshot(r) == Archived(convs[ConvOf[r]], r)

\* Section 3.2 of the design and the comment in sweep.rs: a client that sees a
\* turn completed and starts the next one reads a snapshot that holds it.
AnnouncedTurnsAreReadable ==
    \A r \in Responses :
        Archivable(r) /\ TurnOver(r) /\ records[r].status \in {"completed", "incomplete"}
            => InSnapshot(r)

\* INV-55: the tail of a conversation is a turn that committed output, so the
\* next turn never continues from a response without a reply; failed,
\* cancelled and reaped turns do not move it, whoever archived them.
TailHasCommitted ==
    \A c \in Conversations :
        LET tail == convs[c].tail
        IN  tail # None =>
              /\ Archived(convs[c], tail)
              /\ Exists(tail) => records[tail].status \in {"completed", "incomplete"}

\* INV-48 seen from the snapshot: what is archived for a completed turn is what
\* its own run produced, not what another funnel replayed from the stream.
CompletedTurnsKeepTheirOutput ==
    \A r \in Responses :
        HasConv(r) /\ records[r].status \in {"completed", "incomplete"} =>
            \A i \in 1..Len(convs[ConvOf[r]].turns) :
                convs[ConvOf[r]].turns[i].response = r =>
                    convs[ConvOf[r]].turns[i].output = engine[r].emitted

----------------------------------------------------------------------------
(* The composition calls the ledger as the ledger's specification allows.  *)

Started(r) == engine[r].pc # "idle"

\* The ledger's history, read off the keys and the runs.
UsedKeys == {k \in Keys : idem[k] # None}
MintedIds == {idem[k] : k \in UsedKeys}
AdmittedPairs == {<<k, idem[k]>> : k \in UsedKeys}
GrantedClaims == {[id |-> r, attempt |-> Attempt, agent |-> r] :
                     r \in {r \in Responses : Started(r)}}

L == INSTANCE Ledger WITH
        minted   <- MintedIds,
        admitted <- AdmittedPairs,
        granted  <- GrantedClaims,
        UsageCap <- MaxDeltas

\* Every step of the composition is a step of the ledger under arbitrary
\* callers, or leaves it alone: ids are admitted once, agents are fresh, only
\* granted agents send heartbeats.  What is proved of Ledger holds here.
LedgerSpec == L!Spec

----------------------------------------------------------------------------
(* Liveness.                                                               *)

\* The runtime's tasks and the request handlers are polled, the poll loop of
\* some peer keeps claiming, every peer's sweeper ticks and time passes.  A
\* process that crashed has no step left, so nothing is asked of it.
SystemFairness ==
    /\ \A r \in Responses :
          /\ WF_vars(Creating(r)) /\ WF_vars(Claim(r)) /\ WF_vars(Executing(r))
          /\ WF_vars(Cleaning(r)) /\ WF_vars(Deleting(r))
    /\ WF_vars(Reap) /\ WF_vars(Tick) /\ WF_vars(Sweep)

\* The runner, too, ends its run.
RunnerFairness == \A r \in Responses : WF_vars(RunnerEnds(r))

FairSpec == Spec /\ SystemFairness /\ RunnerFairness

\* INV-35: every admitted response reaches a terminal state, though engines,
\* gateways and sweepers die at any step.
EveryResponseEnds ==
    \A r \in Responses :
        (records[r].status \in InFlight) ~> (records[r].status \notin InFlight)

\* INV-58: no conversation is locked for good.  A marker is given back, or its
\* holder is one the next create may take over from.
EveryMarkerIsFreed ==
    \A c \in Conversations, r \in Responses :
        (convs[c].active = r) ~> (convs[c].active # r \/ Stale(r))

\* The stream of every admitted response is closed in the end, which is what
\* ends its subscribers and starts its retention window, whichever of the run,
\* the cancel and the sweeper ends the response.  A process that dies in
\* between leaves it open: nobody takes its place.
EveryStreamEnds ==
    \A r \in Responses :
        (records[r].status \in InFlight)
            ~> (crashes > 0 \/ ~Exists(r) \/ (logs[r].live /\ logs[r].closedFor # -1))

----------------------------------------------------------------------------
(* A promise of the documents that the code does not keep, refuted by a    *)
(* run of its own.                                                         *)

\* FR-44 and the read_snapshot contract ("no other turn appends concurrently"):
\* two responses of one conversation are never in flight together.  The
\* marker is taken before the record exists, and a holder without a record
\* passes for stale.
OneTurnAtATime ==
    \A r, s \in Responses :
        (r # s /\ HasConv(r) /\ ConvOf[r] = ConvOf[s]) =>
            ~(records[r].status \in InFlight /\ records[s].status \in InFlight)
=============================================================================

---------------------------- MODULE LedgerStore ----------------------------
(***************************************************************************)
(* The response ledger: the store behind the ResponseLedger and            *)
(* AdmissionControl ports (verify/mock/server/src/ledger.rs over store.rs).*)
(*                                                                         *)
(* Every method of the ledger is one critical section under the store's    *)
(* mutex, so every method is one action here.  A method that answers with  *)
(* an error writes nothing; the answers that callers distinguish are the   *)
(* operators CreateOutcome, FenceOutcome and CancelOutcome.                *)
(*                                                                         *)
(* Time is kept as elapsed time: heartbeats[a] is how long ago agent a was *)
(* heard from, counted up to the first value that is past the TTL, which   *)
(* is all that reap asks of the clock.                                     *)
(***************************************************************************)
EXTENDS Shared, Integers, Sequences, FiniteSets

CONSTANTS
    Agents,         \* agent ids; run_once mints a fresh one per claim
    Keys,           \* idempotency keys
    Specs,          \* what a caller may ask for (TurnSpec)
    Usages,         \* token counts one attempt may report, 0 among them
    HeartbeatTtl,   \* heartbeat_ttl, in clock ticks
    MaxRecords,     \* max_records
    PendingLimits   \* the values set_pending_limit is called with

ASSUME LedgerConstants ==
    /\ None \notin Agents /\ None \notin Keys /\ None \notin Specs
    /\ Usages \subseteq Nat /\ 0 \in Usages
    /\ HeartbeatTtl \in Nat
    /\ MaxRecords \in Nat \ {0}
    /\ PendingLimits \subseteq Nat

VARIABLES
    records,        \* id -> record; status "none" is an id without a record
    queued,         \* FIFO of ids waiting for a claim, stale ids included
    idem,           \* key -> the id it was accepted for, or None
    heartbeats,     \* agent -> elapsed time since its last heartbeat, or -1
    partialUsage,   \* (id, attempt) -> usage booked for an abandoned attempt
    pendingLimit    \* admission bound on in-flight responses

ledgerVars ==
    <<records, queued, idem, heartbeats, partialUsage, readOnly, pendingLimit>>

Terminal == {"completed", "failed", "incomplete", "cancelled"}
InFlight == {"queued", "in_progress"}

\* No response is re-queued, so its attempt counter is raised at most once by
\* claim and once by cancel or reap.
Attempts == 0..2

NoRecord ==
    [status |-> "none", attempt |-> 0, owner |-> None, usage |-> 0,
     key |-> None, tenant |-> None, spec |-> None]

Record ==
    [status  : Terminal \cup InFlight \cup {"none"},
     attempt : Attempts,
     owner   : Agents \cup {None},
     usage   : Usages,
     key     : Keys \cup {None},
     tenant  : Tenants \cup {None},
     spec    : Specs \cup {None}]

QueuedRecord(key, tenant, spec) ==
    [NoRecord EXCEPT !.status = "queued", !.key = key,
                     !.tenant = tenant, !.spec = spec]

Exists(id) == records[id].status # "none"

\* Inner::in_flight_count and the size of the record map.
InFlightCount == Cardinality({id \in Responses : records[id].status \in InFlight})
RecordCount   == Cardinality({id \in Responses : Exists(id)})

----------------------------------------------------------------------------
(* Answers.                                                                *)

\* Mutant: the gate looks for the record, not for the key's presence.
CreateOutcomeForgetsDeleted(key) ==
    CASE idem[key] # None /\ Exists(idem[key]) -> "duplicate"
      [] OTHER -> IF readOnly THEN "read_only"
                  ELSE IF InFlightCount >= pendingLimit THEN "overloaded"
                  ELSE IF RecordCount >= MaxRecords THEN "unavailable"
                  ELSE "accepted"

\* The whole admission decision, in the order the code takes it.  A replayed
\* key is answered before the read-only and the capacity gates.
CreateOutcome(key) ==
    CASE idem[key] # None /\ Exists(idem[key])  -> "duplicate"
      [] idem[key] # None /\ ~Exists(idem[key]) -> "not_found"
      [] idem[key] = None /\ readOnly           -> "read_only"
      [] OTHER -> IF InFlightCount >= pendingLimit THEN "overloaded"
                  ELSE IF RecordCount >= MaxRecords THEN "unavailable"
                  ELSE "accepted"

\* Mutant: the fence compares the attempt and forgets the status.
FenceOutcomeAttemptOnly(id, attempt) ==
    CASE readOnly    -> "read_only"
      [] ~readOnly /\ ~Exists(id) -> "not_found"
      [] OTHER -> IF records[id].attempt # attempt THEN "stale_attempt" ELSE "ok"

\* check_attempt, and the test complete makes: is `attempt` still the live one?
FenceOutcome(id, attempt) ==
    CASE readOnly    -> "read_only"
      [] ~readOnly /\ ~Exists(id) -> "not_found"
      [] OTHER -> IF records[id].attempt # attempt
                     \/ records[id].status # "in_progress"
                  THEN "stale_attempt" ELSE "ok"

\* Mutant: cancelling what has already finished.
CancelOutcomeAnyStatus(id, tenant) ==
    CASE readOnly    -> "read_only"
      [] ~readOnly /\ (~Exists(id) \/ records[id].tenant # tenant) -> "not_found"
      [] OTHER -> "ok"

\* A record of another tenant answers exactly as a missing one.
CancelOutcome(id, tenant) ==
    CASE readOnly    -> "read_only"
      [] ~readOnly /\ (~Exists(id) \/ records[id].tenant # tenant) -> "not_found"
      [] OTHER -> IF records[id].status \in Terminal
                  THEN "invalid_transition" ELSE "ok"

----------------------------------------------------------------------------
(* Methods.                                                                *)

\* set_pending_limit never stores a limit of zero.
AtLeastOne(limit) == IF limit < 1 THEN 1 ELSE limit

LedgerInit ==
    /\ records = [id \in Responses |-> NoRecord]
    /\ queued = <<>>
    /\ idem = [k \in Keys |-> None]
    /\ heartbeats = [a \in Agents |-> -1]
    /\ partialUsage = [id \in Responses |-> [n \in Attempts |-> 0]]
    /\ readOnly = FALSE
    /\ pendingLimit \in {AtLeastOne(limit) : limit \in PendingLimits}

LedgerCreate(id, key, tenant, spec) ==
    /\ CreateOutcome(key) = "accepted"
    /\ queued' = Append(queued, id)
    /\ idem' = [idem EXCEPT ![key] = id]
    /\ records' = [records EXCEPT ![id] = QueuedRecord(key, tenant, spec)]
    /\ UNCHANGED <<heartbeats, partialUsage, readOnly, pendingLimit>>

Waiting(i) == records[queued[i]].status = "queued"

\* Mutant: the newest waiting entry is taken and everything before it dropped.
PoppedLast(i) == Waiting(i) /\ \A j \in (i + 1)..Len(queued) : ~Waiting(j)

\* claim pops until it meets a waiting response; the entries it drops on its
\* way were cancelled or deleted meanwhile.
Popped(i) == Waiting(i) /\ \A j \in 1..(i - 1) : ~Waiting(j)

\* What claim and complete do to a record.
Running(rec, agent) ==
    [rec EXCEPT !.status = "in_progress", !.attempt = @ + 1, !.owner = agent]
Finished(rec, status, usage) ==
    [rec EXCEPT !.status = status, !.owner = None, !.usage = usage]

\* Mutant: claim looks at the head of the queue and pops it later.
LedgerClaimPeek(id, agent) ==
    /\ ~readOnly
    /\ \E i \in 1..Len(queued) : queued[i] = id /\ Popped(i)
    /\ heartbeats' = [heartbeats EXCEPT ![agent] = 0]
    /\ UNCHANGED <<records, queued, idem, partialUsage, readOnly, pendingLimit>>

LedgerClaim(id, agent) ==
    /\ ~readOnly
    /\ \E i \in 1..Len(queued) :
          /\ queued[i] = id /\ Popped(i)
          /\ queued' = SubSeq(queued, i + 1, Len(queued))
    /\ records' = [records EXCEPT ![id] = Running(@, agent)]
    /\ heartbeats' = [heartbeats EXCEPT ![agent] = 0]
    /\ UNCHANGED <<idem, partialUsage, readOnly, pendingLimit>>

\* A claim that finds nothing still empties the queue of stale ids.
LedgerClaimNothing ==
    /\ ~readOnly
    /\ \A i \in 1..Len(queued) : ~Waiting(i)
    /\ queued' = <<>>
    /\ UNCHANGED <<records, idem, heartbeats, partialUsage, readOnly, pendingLimit>>

LedgerHeartbeat(agent) ==
    /\ heartbeats' = [heartbeats EXCEPT ![agent] = 0]
    /\ UNCHANGED <<records, queued, idem, partialUsage, readOnly, pendingLimit>>

LedgerComplete(id, attempt, status, usage) ==
    /\ status \in Terminal
    /\ FenceOutcome(id, attempt) = "ok"
    /\ records' = [records EXCEPT ![id] = Finished(@, status, usage)]
    /\ UNCHANGED <<queued, idem, heartbeats, partialUsage, readOnly, pendingLimit>>

\* What cancel and reap do to a record: raise the fence, then finish it.
Superseded(rec, status) ==
    [rec EXCEPT !.attempt = @ + 1, !.status = status, !.owner = None]

\* The usage a record carries is booked against the attempt it supersedes.
BookUsage(booked, rec) ==
    IF rec.usage = 0 THEN booked ELSE [booked EXCEPT ![rec.attempt] = rec.usage]

LedgerCancel(id, tenant) ==
    /\ CancelOutcome(id, tenant) = "ok"
    /\ records' = [records EXCEPT ![id] = Superseded(@, "cancelled")]
    /\ partialUsage' = [partialUsage EXCEPT ![id] = BookUsage(@, records[id])]
    /\ UNCHANGED <<queued, idem, heartbeats, readOnly, pendingLimit>>

\* Mutant: a holder that was heard from once is never given up.
LostUnheard(id) ==
    /\ records[id].status = "in_progress"
    /\ records[id].owner = None \/ heartbeats[records[id].owner] = -1

\* Claims whose holder has not been heard from within the TTL, or never was.
Lost(id) ==
    /\ records[id].status = "in_progress"
    /\ \/ records[id].owner = None
       \/ heartbeats[records[id].owner] = -1
       \/ heartbeats[records[id].owner] > HeartbeatTtl

LostClaims == {id \in Responses : Lost(id)}

\* reap is not guarded by the read-only degrade.
LedgerReap ==
    /\ records' = [id \in Responses |-> IF Lost(id) THEN Superseded(records[id], "failed")
                                        ELSE records[id]]
    /\ partialUsage' = [id \in Responses |-> IF Lost(id) THEN BookUsage(partialUsage[id], records[id])
                                             ELSE partialUsage[id]]
    /\ UNCHANGED <<queued, idem, heartbeats, readOnly, pendingLimit>>

LedgerRecordPartialUsage(id, attempt, usage) ==
    /\ Exists(id)
    /\ partialUsage' = [partialUsage EXCEPT ![id][attempt] = @ + usage]
    /\ UNCHANGED <<records, queued, idem, heartbeats, readOnly, pendingLimit>>

\* Removing records keeps their queue entries and their idempotency keys.
Remove(ids) ==
    /\ records' = [id \in Responses |-> IF id \in ids THEN NoRecord ELSE records[id]]
    /\ partialUsage' = [id \in Responses |->
                           IF id \in ids /\ Exists(id) THEN [n \in Attempts |-> 0]
                           ELSE partialUsage[id]]
    /\ UNCHANGED <<queued, idem, heartbeats, readOnly, pendingLimit>>

LedgerDelete(id) == ~readOnly /\ Exists(id) /\ Remove({id})

LedgerDeleteByTenant(tenant) ==
    ~readOnly /\ Remove({id \in Responses : records[id].tenant = tenant})

SetReadOnly(enabled) ==
    /\ readOnly' = enabled
    /\ UNCHANGED <<records, queued, idem, heartbeats, partialUsage, pendingLimit>>

SetPendingLimit(limit) ==
    /\ pendingLimit' = AtLeastOne(limit)
    /\ UNCHANGED <<records, queued, idem, heartbeats, partialUsage, readOnly>>

\* One clock tick without a heartbeat, counted up to just past the TTL.
Aged(elapsed) == IF elapsed = -1 \/ elapsed > HeartbeatTtl THEN elapsed ELSE elapsed + 1

LedgerTick ==
    /\ heartbeats' = [a \in Agents |-> Aged(heartbeats[a])]
    /\ UNCHANGED <<records, queued, idem, partialUsage, readOnly, pendingLimit>>
=============================================================================

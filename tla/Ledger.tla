------------------------------- MODULE Ledger -------------------------------
(***************************************************************************)
(* The ledger under arbitrary callers: any number of gateways, execution   *)
(* processes and sweepers call its methods in any order, with any attempt  *)
(* number, current or stale.  What is promised here is promised whatever   *)
(* the callers do.                                                         *)
(***************************************************************************)
EXTENDS LedgerStore

VARIABLES
    minted,     \* ids ResponseId::new has produced (never the same one twice)
    admitted,   \* history: the <<key, id>> pairs create accepted
    granted     \* history: the claims handed out, as [id, attempt, agent]

CONSTANT UsageCap   \* bound on the usage booked for one attempt

vars == <<ledgerVars, minted, admitted, granted>>
history == <<minted, admitted, granted>>

Grants == [id : Responses, attempt : Attempts, agent : Agents]

TypeOK ==
    /\ records \in [Responses -> Record]
    /\ queued \in Seq(Responses)
    /\ idem \in [Keys -> Responses \cup {None}]
    /\ heartbeats \in [Agents -> Nat \cup {-1}]
    /\ partialUsage \in [Responses -> [Attempts -> Nat]]
    /\ readOnly \in BOOLEAN
    /\ pendingLimit \in Nat \ {0}
    /\ minted \subseteq Responses
    /\ admitted \subseteq Keys \X Responses
    /\ granted \subseteq Grants

Init ==
    /\ LedgerInit
    /\ minted = {} /\ admitted = {} /\ granted = {}

----------------------------------------------------------------------------
Create(id, key, tenant, spec) ==
    /\ id \notin minted
    /\ minted' = minted \cup {id}
    /\ admitted' = admitted \cup {<<key, id>>}
    /\ LedgerCreate(id, key, tenant, spec)
    /\ UNCHANGED granted

\* An agent id is minted for one run_once and never used for another.
Claim(id, agent) ==
    /\ \A g \in granted : g.agent # agent
    /\ LedgerClaim(id, agent)
    /\ granted' = granted \cup {[id |-> id, attempt |-> records[id].attempt + 1,
                                 agent |-> agent]}
    /\ UNCHANGED <<minted, admitted>>

ClaimNothing == LedgerClaimNothing /\ UNCHANGED history

\* The heartbeat task lives as long as its run, which may outlive the claim.
Heartbeat(agent) ==
    /\ \E g \in granted : g.agent = agent
    /\ LedgerHeartbeat(agent)
    /\ UNCHANGED history

Complete(id, attempt, status, usage) ==
    LedgerComplete(id, attempt, status, usage) /\ UNCHANGED history

Cancel(id, tenant) == LedgerCancel(id, tenant) /\ UNCHANGED history

Reap == LostClaims # {} /\ LedgerReap /\ UNCHANGED history

RecordPartialUsage(id, attempt, usage) ==
    /\ partialUsage[id][attempt] + usage <= UsageCap
    /\ LedgerRecordPartialUsage(id, attempt, usage)
    /\ UNCHANGED history

Delete(id) == LedgerDelete(id) /\ UNCHANGED history

DeleteByTenant(tenant) == LedgerDeleteByTenant(tenant) /\ UNCHANGED history

Admin ==
    /\ \/ \E enabled \in BOOLEAN : SetReadOnly(enabled)
       \/ \E limit \in PendingLimits : SetPendingLimit(limit)
    /\ UNCHANGED history

Tick == LedgerTick /\ UNCHANGED history

Next ==
    \/ \E id \in Responses, key \in Keys, tenant \in Tenants, spec \in Specs :
          Create(id, key, tenant, spec)
    \/ \E id \in Responses, agent \in Agents : Claim(id, agent)
    \/ \E agent \in Agents : Heartbeat(agent)
    \/ ClaimNothing
    \/ \E id \in Responses, attempt \in Attempts, status \in Terminal, usage \in Usages :
          Complete(id, attempt, status, usage)
    \/ \E id \in Responses, tenant \in Tenants : Cancel(id, tenant)
    \/ Reap
    \/ \E id \in Responses, attempt \in Attempts, usage \in Usages :
          RecordPartialUsage(id, attempt, usage)
    \/ \E id \in Responses : Delete(id)
    \/ \E tenant \in Tenants : DeleteByTenant(tenant)
    \/ Admin
    \/ Tick

Spec == Init /\ [][Next]_vars

----------------------------------------------------------------------------
(* What the ledger promises.                                               *)

\* Nothing admitted is lost or offered twice: a response waiting for execution
\* has exactly one queue entry, whatever was cancelled, deleted or skipped
\* around it (LedgerStore queued against records; ledger.rs create and claim).
QueuedExactlyOnce ==
    \A id \in Responses :
        records[id].status = "queued" =>
            \E i \in 1..Len(queued) :
                \A j \in 1..Len(queued) : queued[j] = id <=> j = i

\* INV-1: a response is handed to at most one execution, ever.
AtMostOneGrant ==
    \A g, h \in granted : g.id = h.id => g = h

\* INV-6: a claim holder that passes the fence is the recorded owner of a
\* running response, so after a cancel or a reap no holder passes any more
\* (check_attempt, and the same test in complete).
FenceAdmitsOnlyTheOwner ==
    \A g \in granted :
        FenceOutcome(g.id, g.attempt) = "ok" => records[g.id].owner = g.agent

\* The converse direction of the same pairing: a running response always has
\* the holder it was granted to, whose fence is the record's attempt.  Without
\* it a response could run with nobody able to complete it.
RunningHasItsHolder ==
    \A id \in Responses :
        records[id].status = "in_progress" =>
            [id |-> id, attempt |-> records[id].attempt,
             agent |-> records[id].owner] \in granted

\* INV-2: one idempotency key admits one response, also after that response
\* was deleted and while retries of the key race each other.
OneResponsePerKey ==
    \A p, q \in admitted : p[1] = q[1] => p[2] = q[2]

\* INV-5 and the finality of terminal states: the attempt of a record never
\* goes down, and a terminal record is never altered again - not by a late
\* completion, a second cancel or a reap - until it is deleted, for good.
MovesForward(id) ==
    /\ Exists(id) /\ Exists(id)' => records[id].attempt <= records'[id].attempt
    /\ records[id].status \in Terminal => records'[id] \in {records[id], NoRecord}
    /\ id \in minted /\ ~Exists(id) => ~Exists(id)'

RecordsOnlyMoveForward == [][\A id \in Responses : MovesForward(id)]_vars

\* Inner::total_usage over the attempts this model can produce.
TotalUsage(id) ==
    records[id].usage + partialUsage[id][0] + partialUsage[id][1] + partialUsage[id][2]

\* INV-51: usage that was reported for a response, as its final figure or for
\* an attempt, is never un-booked by a later transition of the record.
KeepsUsage(id) == Exists(id) /\ Exists(id)' => TotalUsage(id) <= TotalUsage(id)'

UsageNeverLost == [][\A id \in Responses : KeepsUsage(id)]_vars
=============================================================================

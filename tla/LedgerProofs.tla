---------------------------- MODULE LedgerProofs ----------------------------
(***************************************************************************)
(* Theorems of the ledger, for every set of ids, agents, keys, tenants and *)
(* requests, and every bound.                                              *)
(***************************************************************************)
EXTENDS LedgerInv, LedgerFacts, TLAPS

\* The initial state satisfies the invariant.
LEMMA InitEstablishes == Init => LedgerInvariant
<1> SUFFICES ASSUME Init PROVE LedgerInvariant OBVIOUS
<1> USE LedgerConstants, SharedConstants DEF Init, LedgerInit
<1>1. TypeOK
  <2>1. records \in [Responses -> Record]
    BY DEF NoRecord, Record, Attempts
  <2>2. pendingLimit \in Nat \ {0}
    BY DEF AtLeastOne
  <2>3. partialUsage \in [Responses -> [Attempts -> Nat]]
    BY DEF Attempts
  <2>4. readOnly \in BOOLEAN
    OBVIOUS
  <2>5. queued \in Seq(Responses) /\ idem \in [Keys -> Responses \cup {None}]
    OBVIOUS
  <2>6. heartbeats \in [Agents -> Nat \cup {-1}]
    OBVIOUS
  <2> QED BY <2>1, <2>2, <2>3, <2>4, <2>5, <2>6 DEF TypeOK
<1>2. QueueIsSound BY DEF QueueIsSound
<1>3. StatusMatchesHistory BY DEF StatusMatchesHistory, NoRecord, Exists, InFlight
<1>4. RunningHasItsHolder BY DEF RunningHasItsHolder, NoRecord
<1> QED BY <1>1, <1>2, <1>3, <1>4 DEF LedgerInvariant, GrantsAreMinted, AtMostOneGrant, KeysRemember

\* Admission: the new id is nowhere in the queue yet, so it stays unique there.
LEMMA CreatePreserves ==
    ASSUME LedgerInvariant,
           NEW id \in Responses, NEW key \in Keys, NEW tenant \in Tenants, NEW spec \in Specs,
           Create(id, key, tenant, spec)
    PROVE  LedgerInvariant'
<1> USE LedgerConstants, SharedConstants DEF LedgerInvariant, Create, LedgerCreate
<1>0. idem[key] = None BY AcceptedMeans
<1>1. TypeOK'
  <2>2. records' \in [Responses -> Record]
    BY QueuedRecordFields DEF TypeOK
  <2>3. queued' \in Seq(Responses) /\ idem' \in [Keys -> Responses \cup {None}]
    BY DEF TypeOK
  <2>4. minted' \subseteq Responses /\ admitted' \subseteq Keys \X Responses
    BY DEF TypeOK
  <2> QED BY <2>2, <2>3, <2>4 DEF TypeOK
<1>a. /\ Len(queued) \in Nat /\ Len(queued') = Len(queued) + 1
      /\ \A i \in 1..Len(queued) : i \in 1..Len(queued') /\ queued'[i] = queued[i]
      /\ queued'[Len(queued) + 1] = id
  BY DEF TypeOK
<1>2. QueueIsSound'
  <2>1. \A i \in 1..Len(queued) : queued[i] # id
    BY DEF QueueIsSound
  <2>2. \A i \in 1..Len(queued') : i \in 1..Len(queued) \/ i = Len(queued) + 1
    BY <1>a
  <2> QED BY <2>1, <2>2, <1>a DEF QueueIsSound
<1>3. StatusMatchesHistory'
  <2> SUFFICES ASSUME NEW r \in Responses
               PROVE  StatusMatchesHistory!(r)'
    BY DEF StatusMatchesHistory
  <2>1. CASE r = id
    <3>1. records'[r] = QueuedRecord(key, tenant, spec)
      BY <2>1 DEF TypeOK
    <3>2. \E i \in 1..Len(queued') : queued'[i] = id
      BY <1>a
    <3>3. \A g \in granted : g.id # id
      BY DEF GrantsAreMinted
    <3> QED BY <2>1, <3>1, <3>2, <3>3, QueuedRecordFields DEF Exists
  <2>2. CASE r # id
    <3>1. records'[r] = records[r]
      BY <2>2 DEF TypeOK
    <3> QED BY <3>1, <1>a DEF StatusMatchesHistory, Exists
  <2> QED BY <2>1, <2>2
<1>4. GrantsAreMinted' BY DEF GrantsAreMinted
<1>5. RunningHasItsHolder'
  BY DEF RunningHasItsHolder, QueuedRecord, NoRecord, TypeOK
<1>6. AtMostOneGrant' BY DEF AtMostOneGrant
<1>7. KeysRemember' 
  <2> SUFFICES ASSUME NEW p \in admitted' PROVE idem'[p[1]] = p[2]
    BY DEF KeysRemember
  <2>1. CASE p \in admitted
    BY <1>0, <2>1 DEF KeysRemember, TypeOK
  <2>2. CASE p = <<key, id>>
    BY <2>2 DEF TypeOK
  <2> QED BY <2>1, <2>2
<1> QED BY <1>1, <1>2, <1>3, <1>4, <1>5, <1>6, <1>7

\* A claim removes the one queue entry of the response it takes, and grants a
\* response that had not been granted before.
LEMMA ClaimPreserves ==
    ASSUME LedgerInvariant, NEW id \in Responses, NEW agent \in Agents, Claim(id, agent)
    PROVE  LedgerInvariant'
<1> USE LedgerConstants, SharedConstants DEF LedgerInvariant, Claim, LedgerClaim
<1>0. PICK k \in 1..Len(queued) : /\ queued[k] = id /\ Popped(k)
                                  /\ queued' = SubSeq(queued, k + 1, Len(queued))
  OBVIOUS
<1>a. records[id].status = "queued" /\ records[id].attempt = 0
  BY <1>0 DEF Popped, Waiting, StatusMatchesHistory
<1>b. /\ records'[id].status = "in_progress" /\ records'[id].attempt = 1
      /\ records'[id].owner = agent /\ records'[id].usage = records[id].usage
      /\ records'[id] \in Record
      /\ \A r \in Responses : r # id => records'[r] = records[r]
  BY <1>a, RunningFields DEF TypeOK
<1>c. /\ Len(queued) \in Nat /\ k \in 1..Len(queued)
      /\ queued' \in Seq(Responses) /\ Len(queued') = Len(queued) - k
      /\ \A i \in 1..Len(queued') : queued'[i] = queued[i + k] /\ i + k \in 1..Len(queued)
  <2>1. queued \in Seq(Responses) BY DEF TypeOK
  <2>2. /\ queued' \in Seq(Responses)
        /\ Len(queued) \in Nat /\ Len(queued') = Len(queued) - k
        /\ \A i \in 1..Len(queued') : queued'[i] = queued[i + k] /\ i + k \in 1..Len(queued)
    BY ONLY <1>0, <2>1, PopFacts, k \in 1..Len(queued)
  <2> QED BY ONLY <1>0, <2>2, k \in 1..Len(queued)
<1>d. \A g \in granted : g.id # id
  BY <1>a DEF StatusMatchesHistory
<1>e. granted' = granted \cup {[id |-> id, attempt |-> 1, agent |-> agent]}
  BY <1>a
<1>1. TypeOK'
  <2>1. records' \in [Responses -> Record] BY <1>b DEF TypeOK
  <2>2. heartbeats' \in [Agents -> Nat \cup {-1}] BY DEF TypeOK
  <2>3. granted' \subseteq Grants
    <3>1. [id |-> id, attempt |-> 1, agent |-> agent] \in Grants
      BY DEF Grants, Attempts
    <3> QED BY <1>e, <3>1 DEF TypeOK
  <2> QED BY <2>1, <2>2, <2>3, <1>c DEF TypeOK
<1>2. QueueIsSound'
  <2>1. ASSUME NEW i \in 1..Len(queued'), NEW j \in 1..Len(queued'), queued'[i] = queued'[j]
        PROVE  i = j
    <3>1. i + k = j + k BY <2>1, <1>c DEF QueueIsSound
    <3> QED BY <3>1, <1>c
  <2>2. \A i \in 1..Len(queued') : queued'[i] \in minted
    BY <1>c DEF QueueIsSound
  <2> QED BY <2>1, <2>2 DEF QueueIsSound
<1>3. StatusMatchesHistory'
  <2> SUFFICES ASSUME NEW r \in Responses
               PROVE  StatusMatchesHistory!(r)'
    BY DEF StatusMatchesHistory
  <2>1. CASE r = id
    BY <2>1, <1>a, <1>b DEF StatusMatchesHistory, Exists, InFlight
  <2>2. CASE r # id
    <3>1. records'[r] = records[r] BY <2>2, <1>b
    <3>2. ASSUME records[r].status = "queued"
          PROVE  \E i \in 1..Len(queued') : queued'[i] = r
      <4>1. PICK i \in 1..Len(queued) : queued[i] = r
        BY <3>2 DEF StatusMatchesHistory
      <4>2. i > k
        BY <4>1, <3>2, <1>0, <1>c, <2>2 DEF Popped, Waiting
      <4>3. i - k \in 1..Len(queued') /\ queued'[i - k] = r
        BY ONLY <4>1, <4>2, <1>c, i \in 1..Len(queued)
      <4> QED BY <4>3
    <3>3. records[r].status = "queued" => \A g \in granted' : g.id # r
      BY <1>e, <2>2 DEF StatusMatchesHistory
    <3> QED BY <3>1, <3>2, <3>3 DEF StatusMatchesHistory, Exists
  <2> QED BY <2>1, <2>2
<1>4. GrantsAreMinted'
  BY <1>0, <1>e DEF GrantsAreMinted, QueueIsSound
<1>5. RunningHasItsHolder'
  <2> SUFFICES ASSUME NEW r \in Responses, records'[r].status = "in_progress"
               PROVE  [id |-> r, attempt |-> records'[r].attempt,
                       agent |-> records'[r].owner] \in granted'
    BY DEF RunningHasItsHolder
  <2>1. CASE r = id BY <2>1, <1>b, <1>e
  <2>2. CASE r # id BY <2>2, <1>b, <1>e DEF RunningHasItsHolder
  <2> QED BY <2>1, <2>2
<1>6. AtMostOneGrant'
  BY <1>d, <1>e DEF AtMostOneGrant
<1>7. KeysRemember' BY DEF KeysRemember
<1> QED BY <1>1, <1>2, <1>3, <1>4, <1>5, <1>6, <1>7

\* Every other method leaves the queue and the history alone and, if it touches
\* a record at all, takes it out of flight.  That much preserves the invariant.
LEMMA LeavingFlightPreserves ==
    ASSUME LedgerInvariant, TypeOK',
           queued' = queued, idem' = idem, minted' = minted,
           admitted' = admitted, granted' = granted,
           \A r \in Responses : \/ records'[r] = records[r]
                                \/ /\ records'[r].status \notin InFlight
                                   /\ Exists(r) \/ records'[r].status = "none"
    PROVE  LedgerInvariant'
<1> USE DEF LedgerInvariant
<1>1. QueueIsSound' BY DEF QueueIsSound
<1>2. StatusMatchesHistory'
  BY DEF StatusMatchesHistory, Exists, InFlight
<1>3. GrantsAreMinted' /\ AtMostOneGrant' /\ KeysRemember'
  BY DEF GrantsAreMinted, AtMostOneGrant, KeysRemember
<1>4. RunningHasItsHolder'
  BY DEF RunningHasItsHolder, InFlight
<1> QED BY <1>1, <1>2, <1>3, <1>4

\* A claim that finds no waiting entry empties a queue nobody waits in.
LEMMA ClaimNothingPreserves ==
    ASSUME LedgerInvariant, ClaimNothing
    PROVE  LedgerInvariant'
<1> USE DEF LedgerInvariant, ClaimNothing, LedgerClaimNothing, history
<1>1. TypeOK' BY DEF TypeOK
<1>2. QueueIsSound' BY DEF QueueIsSound
<1>3. StatusMatchesHistory'
  BY DEF StatusMatchesHistory, Exists, Waiting
<1>4. GrantsAreMinted' /\ AtMostOneGrant' /\ KeysRemember'
  BY DEF GrantsAreMinted, AtMostOneGrant, KeysRemember
<1>5. RunningHasItsHolder' BY DEF RunningHasItsHolder
<1> QED BY <1>1, <1>2, <1>3, <1>4, <1>5

LEMMA CompletePreserves ==
    ASSUME LedgerInvariant, NEW id \in Responses, NEW attempt \in Attempts,
           NEW status \in Terminal, NEW usage \in Usages,
           Complete(id, attempt, status, usage)
    PROVE  LedgerInvariant'
<1> USE DEF Complete, LedgerComplete, history
<1>1. Exists(id) BY FenceOkMeans DEF Exists
<1>2. Finished(records[id], status, usage) \in Record
  BY FinishedFields DEF LedgerInvariant, TypeOK
<1>3. records'[id].status = status /\ status \notin InFlight
  BY FinishedFields DEF LedgerInvariant, TypeOK, Terminal, InFlight
<1>4. TypeOK' BY <1>2 DEF LedgerInvariant, TypeOK
<1>5. \A r \in Responses : r # id => records'[r] = records[r]
  BY DEF LedgerInvariant, TypeOK
<1> QED BY <1>1, <1>3, <1>4, <1>5, LeavingFlightPreserves

\* The attempt of a response in flight is 0 or 1, so a fence can be raised.
LEMMA InFlightAttempts ==
    ASSUME LedgerInvariant, NEW id \in Responses, records[id].status \in InFlight
    PROVE  records[id].attempt \in {0, 1} /\ records[id].usage = 0
BY DEF LedgerInvariant, StatusMatchesHistory, InFlight

LEMMA CancelPreserves ==
    ASSUME LedgerInvariant, NEW id \in Responses, NEW tenant \in Tenants, Cancel(id, tenant)
    PROVE  LedgerInvariant'
<1> USE DEF Cancel, LedgerCancel, history
<1>1. Exists(id) /\ records[id].status \in InFlight
  BY CancelOkMeans DEF LedgerInvariant, TypeOK, Record, Exists
<1>2. records[id].attempt \in {0, 1} /\ records[id].usage = 0
  BY <1>1, InFlightAttempts
<1>3. "cancelled" \in Terminal /\ "cancelled" \notin InFlight BY DEF Terminal, InFlight
<1>4. /\ Superseded(records[id], "cancelled") \in Record
      /\ Superseded(records[id], "cancelled").status = "cancelled"
  BY <1>2, <1>3, SupersededFields DEF LedgerInvariant, TypeOK
<1>5. partialUsage' = partialUsage
  BY <1>2 DEF BookUsage, LedgerInvariant, TypeOK
<1>6. TypeOK' BY <1>4, <1>5 DEF LedgerInvariant, TypeOK
<1>7. \A r \in Responses : \/ r # id /\ records'[r] = records[r]
                           \/ r = id /\ records'[r].status = "cancelled"
  BY <1>4 DEF LedgerInvariant, TypeOK
<1> QED BY <1>1, <1>3, <1>6, <1>7, LeavingFlightPreserves

LEMMA ReapPreserves ==
    ASSUME LedgerInvariant, Reap
    PROVE  LedgerInvariant'
<1> USE DEF Reap, LedgerReap, history
<1>1. "failed" \in Terminal /\ "failed" \notin InFlight BY DEF Terminal, InFlight
<1>2. \A r \in Responses : Lost(r) =>
          records[r].status \in InFlight /\ Exists(r)
  BY DEF Lost, InFlight, Exists
<1>3. \A r \in Responses : Lost(r) =>
          /\ Superseded(records[r], "failed") \in Record
          /\ Superseded(records[r], "failed").status = "failed"
          /\ records[r].usage = 0
  BY <1>1, <1>2, InFlightAttempts, SupersededFields DEF LedgerInvariant, TypeOK
<1>4. records' \in [Responses -> Record]
  BY <1>3 DEF LedgerInvariant, TypeOK
<1>5. partialUsage' = partialUsage
  BY <1>3 DEF BookUsage, LedgerInvariant, TypeOK
<1>6. TypeOK' BY <1>4, <1>5 DEF LedgerInvariant, TypeOK
<1>7. \A r \in Responses : \/ records'[r] = records[r]
                           \/ Exists(r) /\ records'[r].status = "failed"
  BY <1>2, <1>3
<1> QED BY <1>1, <1>6, <1>7, LeavingFlightPreserves

\* Deletion, of one record or of a tenant's.
LEMMA RemovePreserves ==
    ASSUME LedgerInvariant, NEW ids, Remove(ids), UNCHANGED history
    PROVE  LedgerInvariant'
<1> USE DEF Remove, history
<1>1. records' \in [Responses -> Record]
  BY NoRecordFields DEF LedgerInvariant, TypeOK
<1>2. partialUsage' \in [Responses -> [Attempts -> Nat]]
  BY DEF LedgerInvariant, TypeOK
<1>3. TypeOK' BY <1>1, <1>2 DEF LedgerInvariant, TypeOK
<1>4. \A r \in Responses : records'[r] = records[r] \/ records'[r].status = "none"
  BY NoRecordFields
<1> QED BY <1>3, <1>4, LeavingFlightPreserves DEF InFlight

\* Heartbeats, the clock, bookings and the administrator touch no record.
LEMMA BookkeepingPreserves ==
    ASSUME LedgerInvariant,
           \/ \E agent \in Agents : Heartbeat(agent)
           \/ \E id \in Responses, attempt \in Attempts, usage \in Usages :
                 RecordPartialUsage(id, attempt, usage)
           \/ Admin
           \/ Tick
    PROVE  LedgerInvariant'
<1>1. CASE \E agent \in Agents : Heartbeat(agent)
  <2>1. TypeOK'
    BY <1>1 DEF LedgerInvariant, TypeOK, Heartbeat, LedgerHeartbeat, history
  <2> QED BY <1>1, <2>1, LeavingFlightPreserves DEF Heartbeat, LedgerHeartbeat, history
<1>2. CASE \E id \in Responses, attempt \in Attempts, usage \in Usages :
              RecordPartialUsage(id, attempt, usage)
  <2>1. PICK id \in Responses, attempt \in Attempts, usage \in Usages :
             RecordPartialUsage(id, attempt, usage)
    BY <1>2
  <2>2. partialUsage[id][attempt] + usage \in Nat
    BY LedgerConstants DEF LedgerInvariant, TypeOK
  <2>3. partialUsage' \in [Responses -> [Attempts -> Nat]]
    BY <2>1, <2>2 DEF LedgerInvariant, TypeOK, RecordPartialUsage, LedgerRecordPartialUsage
  <2>4. TypeOK'
    BY <2>1, <2>3 DEF LedgerInvariant, TypeOK, RecordPartialUsage,
                      LedgerRecordPartialUsage, history
  <2> QED BY <2>1, <2>4, LeavingFlightPreserves
          DEF RecordPartialUsage, LedgerRecordPartialUsage, history
<1>3. CASE Admin
  <2>1. readOnly' \in BOOLEAN
    BY <1>3 DEF LedgerInvariant, TypeOK, Admin, SetReadOnly, SetPendingLimit
  <2>2. pendingLimit' \in Nat \ {0}
    BY <1>3, LedgerConstants
       DEF LedgerInvariant, TypeOK, Admin, SetReadOnly, SetPendingLimit, AtLeastOne
  <2>3. UNCHANGED <<records, queued, idem, heartbeats, partialUsage, minted, admitted, granted>>
    BY <1>3 DEF Admin, SetReadOnly, SetPendingLimit, history
  <2>4. TypeOK' BY <2>1, <2>2, <2>3 DEF LedgerInvariant, TypeOK
  <2> QED BY <2>3, <2>4, LeavingFlightPreserves
<1>4. CASE Tick
  <2>1. heartbeats' \in [Agents -> Nat \cup {-1}]
    BY <1>4 DEF LedgerInvariant, TypeOK, Tick, LedgerTick, Aged
  <2>2. TypeOK'
    BY <1>4, <2>1 DEF LedgerInvariant, TypeOK, Tick, LedgerTick, history
  <2> QED BY <1>4, <2>2, LeavingFlightPreserves DEF Tick, LedgerTick, history
<1> QED BY <1>1, <1>2, <1>3, <1>4

\* Every step of the ledger preserves the invariant.
LEMMA StepPreserves == LedgerInvariant /\ [Next]_vars => LedgerInvariant'
<1> SUFFICES ASSUME LedgerInvariant, [Next]_vars PROVE LedgerInvariant' OBVIOUS
<1>1. CASE \E id \in Responses, key \in Keys, tenant \in Tenants, spec \in Specs :
              Create(id, key, tenant, spec)
  BY <1>1, CreatePreserves
<1>2. CASE \E id \in Responses, agent \in Agents : Claim(id, agent)
  BY <1>2, ClaimPreserves
<1>3. CASE ClaimNothing BY <1>3, ClaimNothingPreserves
<1>4. CASE \E id \in Responses, attempt \in Attempts, status \in Terminal, usage \in Usages :
              Complete(id, attempt, status, usage)
  BY <1>4, CompletePreserves
<1>5. CASE \E id \in Responses, tenant \in Tenants : Cancel(id, tenant)
  BY <1>5, CancelPreserves
<1>6. CASE Reap BY <1>6, ReapPreserves
<1>7. CASE \E id \in Responses : Delete(id)
  BY <1>7, RemovePreserves DEF Delete, LedgerDelete
<1>8. CASE \E tenant \in Tenants : DeleteByTenant(tenant)
  BY <1>8, RemovePreserves DEF DeleteByTenant, LedgerDeleteByTenant
<1>9. CASE \/ \E agent \in Agents : Heartbeat(agent)
           \/ \E id \in Responses, attempt \in Attempts, usage \in Usages :
                 RecordPartialUsage(id, attempt, usage)
           \/ Admin
           \/ Tick
  BY <1>9, BookkeepingPreserves
<1>10. CASE UNCHANGED vars
  <2>1. UNCHANGED <<records, queued, idem, heartbeats, partialUsage, readOnly, pendingLimit,
                    minted, admitted, granted>>
    BY <1>10 DEF vars, ledgerVars
  <2>2. TypeOK' BY <2>1 DEF LedgerInvariant, TypeOK
  <2> QED BY <2>1, <2>2, LeavingFlightPreserves
<1> QED BY <1>1, <1>2, <1>3, <1>4, <1>5, <1>6, <1>7, <1>8, <1>9, <1>10 DEF Next

\* The invariant, type correctness included, holds in every reachable state.
THEOREM LedgerIsInvariant == Spec => []LedgerInvariant
<1>1. Init => LedgerInvariant BY InitEstablishes
<1>2. LedgerInvariant /\ [Next]_vars => LedgerInvariant' BY StepPreserves
<1> QED BY <1>1, <1>2, PTL DEF Spec

\* The ledger's state always has the declared types; in particular no attempt
\* counter ever passes 2, however calls of claim, cancel and reap interleave.
THEOREM LedgerTypeCorrect == Spec => []TypeOK
<1>1. LedgerInvariant => TypeOK BY DEF LedgerInvariant
<1> QED BY <1>1, LedgerIsInvariant, PTL

\* INV-1: a response is handed to at most one execution, ever (claim).
THEOREM SingleClaim == Spec => []AtMostOneGrant
<1>1. LedgerInvariant => AtMostOneGrant BY DEF LedgerInvariant
<1> QED BY <1>1, LedgerIsInvariant, PTL

\* INV-6: only the recorded owner of a running response passes the fence
\* (check_attempt and complete).
THEOREM FenceIsExclusive == Spec => []FenceAdmitsOnlyTheOwner
<1>1. LedgerInvariant => FenceAdmitsOnlyTheOwner
  <2> SUFFICES ASSUME LedgerInvariant, NEW g \in granted, FenceOutcome(g.id, g.attempt) = "ok"
               PROVE  records[g.id].owner = g.agent
    BY DEF FenceAdmitsOnlyTheOwner
  <2>1. g.id \in Responses
    BY DEF LedgerInvariant, TypeOK, Grants
  <2>2. records[g.id].status = "in_progress"
    BY FenceOkMeans
  <2>3. [id |-> g.id, attempt |-> records[g.id].attempt, agent |-> records[g.id].owner] \in granted
    BY <2>1, <2>2 DEF LedgerInvariant, RunningHasItsHolder
  <2>4. [id |-> g.id, attempt |-> records[g.id].attempt, agent |-> records[g.id].owner] = g
    BY <2>3 DEF LedgerInvariant, AtMostOneGrant
  <2> QED BY <2>4
<1> QED BY <1>1, LedgerIsInvariant, PTL

\* A running response always has the holder it was granted to (claim, cancel, reap).
THEOREM RunningIsHeld == Spec => []RunningHasItsHolder
<1>1. LedgerInvariant => RunningHasItsHolder BY DEF LedgerInvariant
<1> QED BY <1>1, LedgerIsInvariant, PTL

\* Nothing admitted is lost or offered twice (create and claim).
THEOREM QueueLosesNothing == Spec => []QueuedExactlyOnce
<1>1. LedgerInvariant => QueuedExactlyOnce
  <2> SUFFICES ASSUME LedgerInvariant, NEW id \in Responses, records[id].status = "queued"
               PROVE  \E i \in 1..Len(queued) :
                          \A j \in 1..Len(queued) : queued[j] = id <=> j = i
    BY DEF QueuedExactlyOnce
  <2>1. PICK i \in 1..Len(queued) : queued[i] = id
    BY DEF LedgerInvariant, StatusMatchesHistory
  <2>2. \A j \in 1..Len(queued) : queued[j] = id <=> j = i
    BY <2>1 DEF LedgerInvariant, QueueIsSound
  <2> QED BY <2>2
<1> QED BY <1>1, LedgerIsInvariant, PTL

\* INV-2: one idempotency key admits one response (create).
THEOREM KeysAreIdempotent == Spec => []OneResponsePerKey
<1>1. LedgerInvariant => OneResponsePerKey
  BY DEF LedgerInvariant, KeysRemember, OneResponsePerKey
<1> QED BY <1>1, LedgerIsInvariant, PTL

----------------------------------------------------------------------------
(* What a step may do to a record.                                         *)

\* The numbers a record carries are numbers.
LEMMA UsageTypes ==
    ASSUME LedgerInvariant, NEW r \in Responses
    PROVE  /\ records[r].attempt \in Int /\ records[r].usage \in Nat
           /\ partialUsage[r] \in [Attempts -> Nat]
           /\ TotalUsage(r) \in Nat
<1>1. records[r] \in Record /\ partialUsage[r] \in [Attempts -> Nat]
  BY DEF LedgerInvariant, TypeOK
<1>2. records[r].attempt \in Int /\ records[r].usage \in Nat
  <2>1. records[r].attempt \in Attempts /\ records[r].usage \in Usages
    BY <1>1 DEF Record
  <2>2. Usages \subseteq Nat BY LedgerConstants
  <2>3. records[r].attempt \in Int
    BY <2>1 DEF Attempts
  <2>4. records[r].usage \in Nat
    BY <2>1, <2>2, Zenon
  <2> QED BY <2>3, <2>4
<1>3. /\ partialUsage[r][0] \in Nat /\ partialUsage[r][1] \in Nat
      /\ partialUsage[r][2] \in Nat
  BY <1>1 DEF Attempts
<1> QED BY <1>1, <1>2, <1>3 DEF TotalUsage

\* A record that a step leaves alone, or deletes.
LEMMA UntouchedMovesForward ==
    ASSUME LedgerInvariant, NEW r \in Responses,
           \/ records'[r] = records[r] /\ partialUsage'[r] = partialUsage[r]
           \/ records'[r] = NoRecord
    PROVE  MovesForward(r) /\ KeepsUsage(r)
<1>1. CASE records'[r] = NoRecord
  BY <1>1, NoRecordFields DEF MovesForward, KeepsUsage, Exists
<1>2. CASE records'[r] = records[r] /\ partialUsage'[r] = partialUsage[r]
  <2>1. records[r].attempt \in Int /\ TotalUsage(r) \in Nat
    BY UsageTypes
  <2>3. TotalUsage(r)' = TotalUsage(r) BY <1>2 DEF TotalUsage
  <2> QED BY <1>2, <2>1, <2>3 DEF MovesForward, KeepsUsage, Exists
<1> QED BY <1>1, <1>2

\* A record in flight whose fence is raised: nothing was booked, nothing is lost.
LEMMA SupersededMovesForward ==
    ASSUME LedgerInvariant, NEW r \in Responses, NEW status \in Terminal,
           records[r].status \in InFlight,
           records'[r] = Superseded(records[r], status),
           partialUsage'[r] = BookUsage(partialUsage[r], records[r])
    PROVE  MovesForward(r) /\ KeepsUsage(r)
<1>1. records[r] \in Record /\ records[r].attempt \in {0, 1} /\ records[r].usage = 0
  BY InFlightAttempts DEF LedgerInvariant, TypeOK
<1>2. records'[r].attempt = records[r].attempt + 1 /\ records'[r].usage = records[r].usage
  BY <1>1, SupersededFields
<1>3. partialUsage'[r] = partialUsage[r] BY <1>1 DEF BookUsage
<1>4. TotalUsage(r) \in Int /\ TotalUsage(r)' = TotalUsage(r)
  BY <1>1, <1>2, <1>3 DEF LedgerInvariant, TypeOK, Attempts, TotalUsage
<1>5. records[r].status \notin Terminal /\ Exists(r) BY DEF Terminal, InFlight, Exists
<1> QED BY <1>1, <1>2, <1>4, <1>5 DEF MovesForward, KeepsUsage

\* No step takes a record back, un-finishes it, revives a deleted one, or
\* un-books usage.  A record is only changed by the method that is called on
\* it, and each of those methods finds it in a status it may leave.
LEMMA StepMovesForward ==
    ASSUME LedgerInvariant, [Next]_vars, NEW r \in Responses
    PROVE  MovesForward(r) /\ KeepsUsage(r)
<1>1. CASE \E id \in Responses, key \in Keys, tenant \in Tenants, spec \in Specs :
              Create(id, key, tenant, spec)
  <2>1. PICK id \in Responses, key \in Keys, tenant \in Tenants, spec \in Specs :
             Create(id, key, tenant, spec)
    BY <1>1
  <2>2. CASE r = id
    <3>1. records[r].status = "none" /\ r \notin minted
      BY <2>1, <2>2 DEF Create, LedgerInvariant, StatusMatchesHistory, Exists
    <3> QED BY <3>1 DEF MovesForward, KeepsUsage, Exists, Terminal
  <2>3. CASE r # id
    <3>1. records'[r] = records[r] /\ partialUsage'[r] = partialUsage[r]
      BY <2>1, <2>3 DEF Create, LedgerCreate, LedgerInvariant, TypeOK
    <3> QED BY <3>1, UntouchedMovesForward
  <2> QED BY <2>2, <2>3
<1>2. CASE \E id \in Responses, agent \in Agents : Claim(id, agent)
  <2>1. PICK id \in Responses, agent \in Agents : Claim(id, agent) BY <1>2
  <2>2. partialUsage' = partialUsage BY <2>1 DEF Claim, LedgerClaim
  <2>3. CASE r = id
    <3>1. records[r].status = "queued" /\ records[r].attempt = 0 /\ records[r] \in Record
      BY <2>1, <2>3 DEF Claim, LedgerClaim, Popped, Waiting,
                        LedgerInvariant, StatusMatchesHistory, TypeOK
    <3>2. records'[r] = Running(records[r], agent)
      BY <2>1, <2>3 DEF Claim, LedgerClaim, LedgerInvariant, TypeOK
    <3>3. records'[r].attempt = 1 /\ records'[r].usage = records[r].usage
      BY <3>1, <3>2, RunningFields
    <3>4. TotalUsage(r) \in Int /\ TotalUsage(r)' = TotalUsage(r)
      BY <2>2, <3>3, UsageTypes DEF TotalUsage
    <3> QED BY <3>1, <3>3, <3>4 DEF MovesForward, KeepsUsage, Exists, Terminal
  <2>4. CASE r # id
    <3>1. records'[r] = records[r]
      BY <2>1, <2>4 DEF Claim, LedgerClaim, LedgerInvariant, TypeOK
    <3> QED BY <2>2, <3>1, UntouchedMovesForward
  <2> QED BY <2>3, <2>4
<1>3. CASE \E id \in Responses, attempt \in Attempts, status \in Terminal, usage \in Usages :
              Complete(id, attempt, status, usage)
  <2>1. PICK id \in Responses, attempt \in Attempts, status \in Terminal, usage \in Usages :
             Complete(id, attempt, status, usage)
    BY <1>3
  <2>2. partialUsage' = partialUsage BY <2>1 DEF Complete, LedgerComplete
  <2>3. CASE r = id
    <3>1. records[r].status = "in_progress" /\ records[r] \in Record
      BY <2>1, <2>3, FenceOkMeans DEF Complete, LedgerComplete, LedgerInvariant, TypeOK
    <3>2. records[r].usage = 0
      BY <3>1 DEF LedgerInvariant, StatusMatchesHistory, InFlight
    <3>3. records'[r] = Finished(records[r], status, usage)
      BY <2>1, <2>3 DEF Complete, LedgerComplete, LedgerInvariant, TypeOK
    <3>4. records'[r].attempt = records[r].attempt /\ records'[r].usage = usage
      BY <3>1, <3>3, FinishedFields
    <3>5. TotalUsage(r) <= TotalUsage(r)' /\ records[r].attempt \in Int
      BY <2>2, <3>1, <3>2, <3>4, LedgerConstants
         DEF LedgerInvariant, TypeOK, Record, Attempts, TotalUsage
    <3> QED BY <3>1, <3>4, <3>5 DEF MovesForward, KeepsUsage, Exists, Terminal
  <2>4. CASE r # id
    <3>1. records'[r] = records[r]
      BY <2>1, <2>4 DEF Complete, LedgerComplete, LedgerInvariant, TypeOK
    <3> QED BY <2>2, <3>1, UntouchedMovesForward
  <2> QED BY <2>3, <2>4
<1>4. CASE \E id \in Responses, tenant \in Tenants : Cancel(id, tenant)
  <2>1. PICK id \in Responses, tenant \in Tenants : Cancel(id, tenant) BY <1>4
  <2>2. CASE r = id
    <3>1. records[r].status \in InFlight
      BY <2>1, <2>2, CancelOkMeans DEF Cancel, LedgerCancel, LedgerInvariant, TypeOK, Record, Exists
    <3>2. /\ records'[r] = Superseded(records[r], "cancelled")
          /\ partialUsage'[r] = BookUsage(partialUsage[r], records[r])
      BY <2>1, <2>2 DEF Cancel, LedgerCancel, LedgerInvariant, TypeOK
    <3>3. "cancelled" \in Terminal BY DEF Terminal
    <3> QED BY <3>1, <3>2, <3>3, SupersededMovesForward
  <2>3. CASE r # id
    <3>1. records'[r] = records[r] /\ partialUsage'[r] = partialUsage[r]
      BY <2>1, <2>3 DEF Cancel, LedgerCancel, LedgerInvariant, TypeOK
    <3> QED BY <3>1, UntouchedMovesForward
  <2> QED BY <2>2, <2>3
<1>5. CASE Reap
  <2>1. CASE Lost(r)
    <3>1. records[r].status \in InFlight BY <2>1 DEF Lost, InFlight
    <3>2. "failed" \in Terminal BY DEF Terminal
    <3> QED BY <1>5, <2>1, <3>1, <3>2, SupersededMovesForward DEF Reap, LedgerReap
  <2>2. CASE ~Lost(r)
    BY <1>5, <2>2, UntouchedMovesForward DEF Reap, LedgerReap
  <2> QED BY <2>1, <2>2
<1>6. CASE (\E id \in Responses : Delete(id)) \/ (\E tenant \in Tenants : DeleteByTenant(tenant))
  <2>1. PICK ids : Remove(ids)
    BY <1>6 DEF Delete, LedgerDelete, DeleteByTenant, LedgerDeleteByTenant
  <2> QED BY <2>1, UntouchedMovesForward DEF Remove
<1>7. CASE \E id \in Responses, attempt \in Attempts, usage \in Usages :
              RecordPartialUsage(id, attempt, usage)
  <2>1. PICK id \in Responses, attempt \in Attempts, usage \in Usages :
             RecordPartialUsage(id, attempt, usage)
    BY <1>7
  <2>2. records' = records BY <2>1 DEF RecordPartialUsage, LedgerRecordPartialUsage
  <2>3. CASE r = id
    <3>0. usage \in Nat BY LedgerConstants
    <3>a. /\ partialUsage[r] \in [Attempts -> Nat]
          /\ records[r].usage \in Nat /\ records[r].attempt \in Int
      BY UsageTypes
    <3>b. partialUsage'[r] = [partialUsage[r] EXCEPT ![attempt] = @ + usage]
      BY <2>1, <2>3 DEF RecordPartialUsage, LedgerRecordPartialUsage, LedgerInvariant, TypeOK
    <3>1. /\ partialUsage[r] \in [Attempts -> Nat] /\ usage \in Nat
          /\ partialUsage'[r] = [partialUsage[r] EXCEPT ![attempt] = @ + usage]
          /\ records[r].usage \in Nat /\ records[r].attempt \in Int
      BY <3>0, <3>a, <3>b
    <3>2. \A n \in Attempts : partialUsage[r][n] \in Nat /\ partialUsage'[r][n] \in Nat
                              /\ partialUsage[r][n] <= partialUsage'[r][n]
      BY <3>1
    <3>3. TotalUsage(r) <= TotalUsage(r)'
      BY <2>2, <3>1, <3>2 DEF TotalUsage, Attempts
    <3> QED BY <2>2, <3>1, <3>3 DEF MovesForward, KeepsUsage, Exists
  <2>4. CASE r # id
    <3>1. partialUsage'[r] = partialUsage[r]
      BY <2>1, <2>4 DEF RecordPartialUsage, LedgerRecordPartialUsage, LedgerInvariant, TypeOK
    <3> QED BY <2>2, <3>1, UntouchedMovesForward
  <2> QED BY <2>3, <2>4
<1>8. CASE \/ ClaimNothing \/ (\E agent \in Agents : Heartbeat(agent))
           \/ Admin \/ Tick \/ UNCHANGED vars
  <2>1. records' = records /\ partialUsage' = partialUsage
    BY <1>8 DEF ClaimNothing, LedgerClaimNothing, Heartbeat, LedgerHeartbeat,
                Admin, SetReadOnly, SetPendingLimit, Tick, LedgerTick, vars, ledgerVars
  <2> QED BY <2>1, UntouchedMovesForward
<1> QED BY <1>1, <1>2, <1>3, <1>4, <1>5, <1>6, <1>7, <1>8 DEF Next

\* INV-5 and finality: attempts never go down, a terminal record is never
\* altered except by deletion, a deleted record never comes back.
THEOREM RecordsNeverRegress == Spec => RecordsOnlyMoveForward
<1>1. LedgerInvariant /\ [Next]_vars => [\A id \in Responses : MovesForward(id)]_vars
  BY StepMovesForward
<1> QED BY <1>1, LedgerIsInvariant, PTL DEF Spec, RecordsOnlyMoveForward

\* INV-51, as far as the ledger goes: booked usage is never lost again.
THEOREM UsageIsNeverUnbooked == Spec => UsageNeverLost
<1>1. LedgerInvariant /\ [Next]_vars => [\A id \in Responses : KeepsUsage(id)]_vars
  BY StepMovesForward
<1> QED BY <1>1, LedgerIsInvariant, PTL DEF Spec, UsageNeverLost
=============================================================================

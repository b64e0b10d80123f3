---------------------------- MODULE LedgerFacts ----------------------------
(***************************************************************************)
(* What the ledger's methods make of a record and of the queue, and what   *)
(* their answers mean: the lemmas every proof about the ledger starts from.*)
(***************************************************************************)
EXTENDS LedgerStore, TLAPS

\* What the methods make of a record, field by field.
LEMMA NoRecordFields ==
    NoRecord \in Record /\ NoRecord.status = "none" /\ NoRecord.usage = 0
BY LedgerConstants, SharedConstants DEF NoRecord, Record, Attempts

LEMMA QueuedRecordFields ==
    ASSUME NEW key \in Keys, NEW tenant \in Tenants, NEW spec \in Specs
    PROVE  /\ QueuedRecord(key, tenant, spec) \in Record
           /\ QueuedRecord(key, tenant, spec).status = "queued"
           /\ QueuedRecord(key, tenant, spec).attempt = 0
           /\ QueuedRecord(key, tenant, spec).usage = 0
<1>1. "queued" \in InFlight BY DEF InFlight
<1>2. QueuedRecord(key, tenant, spec) \in Record
  BY <1>1, NoRecordFields DEF QueuedRecord, Record
<1>3. /\ QueuedRecord(key, tenant, spec).status = "queued"
      /\ QueuedRecord(key, tenant, spec).attempt = 0
      /\ QueuedRecord(key, tenant, spec).usage = 0
  BY DEF QueuedRecord, NoRecord
<1> QED BY <1>2, <1>3

LEMMA RunningFields ==
    ASSUME NEW rec \in Record, rec.attempt = 0, NEW agent \in Agents
    PROVE  /\ Running(rec, agent) \in Record
           /\ Running(rec, agent).status = "in_progress"
           /\ Running(rec, agent).attempt = 1
           /\ Running(rec, agent).owner = agent
           /\ Running(rec, agent).usage = rec.usage
<1>1. rec.attempt + 1 \in Attempts BY DEF Attempts
<1>2. "in_progress" \in InFlight BY DEF InFlight
<1>3. Running(rec, agent) \in Record BY <1>1, <1>2 DEF Running, Record
<1>4. /\ Running(rec, agent).status = "in_progress"
      /\ Running(rec, agent).attempt = 1
      /\ Running(rec, agent).owner = agent
      /\ Running(rec, agent).usage = rec.usage
  BY DEF Running, Record
<1> QED BY <1>3, <1>4

LEMMA FinishedFields ==
    ASSUME NEW rec \in Record, NEW status \in Terminal, NEW usage \in Usages
    PROVE  /\ Finished(rec, status, usage) \in Record
           /\ Finished(rec, status, usage).status = status
           /\ Finished(rec, status, usage).attempt = rec.attempt
           /\ Finished(rec, status, usage).usage = usage
BY DEF Finished, Record

LEMMA SupersededFields ==
    ASSUME NEW rec \in Record, rec.attempt \in {0, 1}, NEW status \in Terminal
    PROVE  /\ Superseded(rec, status) \in Record
           /\ Superseded(rec, status).status = status
           /\ Superseded(rec, status).attempt = rec.attempt + 1
           /\ Superseded(rec, status).usage = rec.usage
<1>1. rec.attempt + 1 \in Attempts BY DEF Attempts
<1>2. Superseded(rec, status) \in Record BY <1>1 DEF Superseded, Record
<1>3. /\ Superseded(rec, status).status = status
      /\ Superseded(rec, status).attempt = rec.attempt + 1
      /\ Superseded(rec, status).usage = rec.usage
  BY DEF Superseded, Record
<1> QED BY <1>2, <1>3

\* What is left of a queue after its first k entries were popped.
LEMMA PopFacts ==
    ASSUME NEW S, NEW q \in Seq(S), NEW k \in 1..Len(q), NEW rest,
           rest = SubSeq(q, k + 1, Len(q))
    PROVE  /\ rest \in Seq(S)
           /\ Len(q) \in Nat /\ Len(rest) = Len(q) - k
           /\ \A i \in 1..Len(rest) : rest[i] = q[i + k] /\ i + k \in 1..Len(q)
<1>1. Len(q) \in Nat OBVIOUS
<1>2. rest \in Seq(S) BY <1>1
<1>3. Len(rest) = Len(q) - k BY <1>1
<1>4. \A i \in 1..Len(rest) : rest[i] = q[i + k] /\ i + k \in 1..Len(q)
  BY <1>1, <1>3
<1> QED BY <1>1, <1>2, <1>3, <1>4

\* The answers a method acts on, as facts about the state.
LEMMA AcceptedMeans ==
    ASSUME NEW key \in Keys, CreateOutcome(key) = "accepted"
    PROVE  idem[key] = None /\ ~readOnly
BY DEF CreateOutcome

LEMMA FenceOkMeans ==
    ASSUME NEW id, NEW attempt, FenceOutcome(id, attempt) = "ok"
    PROVE  records[id].status = "in_progress" /\ records[id].attempt = attempt
BY DEF FenceOutcome

LEMMA CancelOkMeans ==
    ASSUME NEW id, NEW tenant, CancelOutcome(id, tenant) = "ok"
    PROVE  Exists(id) /\ records[id].status \notin Terminal
BY DEF CancelOutcome
=============================================================================

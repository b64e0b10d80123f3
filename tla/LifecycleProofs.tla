--------------------------- MODULE LifecycleProofs ---------------------------
(***************************************************************************)
(* The composition is type correct and implements the ledger's             *)
(* specification, and what it owes to clients holds, for any number of     *)
(* responses, conversations and processes, and every bound.                *)
(***************************************************************************)
EXTENDS LifecycleInv, LedgerFacts, FiniteSetTheorems, TLAPS

----------------------------------------------------------------------------
(* Processes: what a step makes of the record it keeps of its place.       *)

LEMMA CreatorMoved ==
    ASSUME TypeOK, NEW r \in Responses, NEW pc \in Asking \cup Answered, CreatorGoes(r, pc)
    PROVE  /\ creator' \in [Responses -> Creators]
           /\ creator'[r].pc = pc
           /\ \A s \in Responses \ {r} : creator'[s] = creator[s]
           /\ engine' = engine /\ cleaner' = cleaner
           /\ deleter' = deleter /\ crashes' = crashes
<1>1. creator \in [Responses -> Creators] BY DEF TypeOK
<1>2. creator[r] \in Creators BY <1>1
<1>3. [creator[r] EXCEPT !.pc = pc] \in Creators BY <1>2 DEF Creators
<1>4. creator' = [creator EXCEPT ![r] = [creator[r] EXCEPT !.pc = pc]]
  BY <1>1 DEF CreatorGoes
<1>5. [creator[r] EXCEPT !.pc = pc].pc = pc BY <1>2 DEF Creators
<1> QED BY <1>1, <1>3, <1>4, <1>5 DEF CreatorGoes

LEMMA EngineFields ==
    ASSUME TypeOK, NEW r \in Responses
    PROVE  /\ engine \in [Responses -> Engines]
           /\ engine[r].pc \in Working \cup Settling \cup {"idle", "done", "dead"}
           /\ engine[r].emitted \in 0..MaxDeltas
           /\ engine[r].status \in TerminalBodies
           /\ engine[r].age \in 0..TombstoneAfter
<1>1. engine \in [Responses -> Engines] BY DEF TypeOK
<1>2. engine[r] \in Engines BY <1>1
<1> QED BY <1>1, <1>2 DEF Engines

LEMMA EngineMoved ==
    ASSUME TypeOK, NEW r \in Responses,
           NEW pc \in Working \cup Settling \cup {"idle", "done", "dead"}, EngineGoes(r, pc)
    PROVE  /\ engine' \in [Responses -> Engines]
           /\ engine'[r].pc = pc /\ engine'[r].status = engine[r].status
           /\ engine'[r].emitted = engine[r].emitted
           /\ \A s \in Responses \ {r} : engine'[s] = engine[s]
           /\ creator' = creator /\ cleaner' = cleaner
           /\ deleter' = deleter /\ crashes' = crashes
<1>1. engine \in [Responses -> Engines] BY DEF TypeOK
<1>2. engine[r] \in Engines BY <1>1
<1> DEFINE e == [engine[r] EXCEPT !.pc = pc]
<1>3. e \in Engines BY <1>2 DEF Engines
<1>4. engine' = [engine EXCEPT ![r] = e] BY <1>1 DEF EngineGoes
<1>5. e.pc = pc /\ e.status = engine[r].status /\ e.emitted = engine[r].emitted
  BY <1>2 DEF Engines
<1> HIDE DEF e
<1> QED BY <1>1, <1>3, <1>4, <1>5 DEF EngineGoes

LEMMA CleanerMoved ==
    ASSUME TypeOK, NEW r \in Responses,
           NEW pc \in CleanerSteps \cup {"idle", "done", "dead"}, CleanerGoes(r, pc)
    PROVE  /\ cleaner' \in [Responses -> Cleaners]
           /\ cleaner'[r].pc = pc /\ cleaner'[r].kind = cleaner[r].kind
           /\ \A s \in Responses \ {r} : cleaner'[s] = cleaner[s]
           /\ creator' = creator /\ engine' = engine
           /\ deleter' = deleter /\ crashes' = crashes
<1>1. cleaner \in [Responses -> Cleaners] BY DEF TypeOK
<1>2. cleaner[r] \in Cleaners BY <1>1
<1> DEFINE c == [cleaner[r] EXCEPT !.pc = pc]
<1>3. c \in Cleaners BY <1>2 DEF Cleaners
<1>4. cleaner' = [cleaner EXCEPT ![r] = c] BY <1>1 DEF CleanerGoes
<1>5. c.pc = pc /\ c.kind = cleaner[r].kind BY <1>2 DEF Cleaners
<1> HIDE DEF c
<1> QED BY <1>1, <1>3, <1>4, <1>5 DEF CleanerGoes

LEMMA DeleterMoved ==
    ASSUME TypeOK, NEW r \in Responses, NEW pc \in Deleters, DeleterGoes(r, pc)
    PROVE  /\ deleter' \in [Responses -> Deleters]
           /\ creator' = creator /\ engine' = engine
           /\ cleaner' = cleaner /\ crashes' = crashes
BY DEF TypeOK, DeleterGoes

----------------------------------------------------------------------------
(* The ledger's methods, as the composition calls them.                    *)

LEMMA RecordFields ==
    ASSUME TypeOK, NEW r \in Responses
    PROVE  /\ records \in [Responses -> Record] /\ records[r] \in Record
           /\ records[r].status \in Terminal \cup InFlight \cup {"none"}
BY DEF TypeOK, Record

\* Between the records of r only.
OnlyRecord(r) == \A s \in Responses \ {r} : records'[s] = records[s]

LEMMA CreateEffect ==
    ASSUME TypeOK, KeysPair, NEW r \in Responses, NEW spec \in Specs,
           LedgerCreate(r, KeyOf[r], Owner, spec)
    PROVE  /\ records' \in [Responses -> Record] /\ OnlyRecord(r)
           /\ records'[r].status = "queued" /\ records'[r].attempt = 0
           /\ queued' \in Seq(Responses) /\ idem' \in [Keys -> Responses \cup {None}]
           /\ readOnly' = readOnly /\ KeysPair' /\ ~Minted(r) /\ Minted(r)'
           /\ \A s \in Responses \ {r} : Minted(s)' <=> Minted(s)
<1>0. KeyOf \in [Responses -> Keys] /\ KeyOf[r] \in Keys /\ Owner \in Tenants
      /\ None \notin Responses
  BY LifecycleConstants, SharedConstants
<1>1. idem[KeyOf[r]] = None BY <1>0, AcceptedMeans DEF LedgerCreate
<1> DEFINE rec == QueuedRecord(KeyOf[r], Owner, spec)
<1>2. rec \in Record /\ rec.status = "queued" /\ rec.attempt = 0
  BY <1>0, QueuedRecordFields
<1>3. /\ records' = [records EXCEPT ![r] = rec] /\ queued' = Append(queued, r)
      /\ idem' = [idem EXCEPT ![KeyOf[r]] = r] /\ readOnly' = readOnly
  BY DEF LedgerCreate
<1> HIDE DEF rec
<1>4. /\ records \in [Responses -> Record] /\ queued \in Seq(Responses)
      /\ idem \in [Keys -> Responses \cup {None}]
  BY DEF TypeOK
<1>5. idem' \in [Keys -> Responses \cup {None}] /\ idem'[KeyOf[r]] = r
      /\ \A k \in Keys \ {KeyOf[r]} : idem'[k] = idem[k]
  BY <1>0, <1>3, <1>4
<1>6. KeysPair' BY <1>0, <1>5 DEF KeysPair
<1>7. ~Minted(r) /\ Minted(r)' BY <1>0, <1>1, <1>5 DEF Minted
<1>8. ASSUME NEW s \in Responses \ {r} PROVE Minted(s)' <=> Minted(s)
  <2>1. KeyOf[s] \in Keys BY <1>0
  <2>2. CASE KeyOf[s] = KeyOf[r] BY <1>0, <1>1, <1>5, <2>2 DEF Minted
  <2>3. CASE KeyOf[s] # KeyOf[r] BY <1>5, <2>1, <2>3 DEF Minted
  <2> QED BY <2>2, <2>3
<1>9. records' \in [Responses -> Record] /\ OnlyRecord(r) /\ records'[r] = rec
  BY <1>2, <1>3, <1>4 DEF OnlyRecord
<1>10. queued' \in Seq(Responses) BY <1>3, <1>4
<1> QED BY <1>2, <1>3, <1>5, <1>6, <1>7, <1>8, <1>9, <1>10

LEMMA ClaimEffect ==
    ASSUME TypeOK, NEW r \in Responses, LedgerLink(r), LedgerClaim(r, r)
    PROVE  /\ records' \in [Responses -> Record] /\ OnlyRecord(r)
           /\ records[r].status = "queued"
           /\ records'[r].status = "in_progress" /\ records'[r].attempt = 1
           /\ queued' \in Seq(Responses) /\ idem' = idem /\ readOnly' = readOnly
<1>0. r \in Agents BY LifecycleConstants
<1>1. queued \in Seq(Responses) /\ records \in [Responses -> Record] BY DEF TypeOK
<1>2. PICK i \in 1..Len(queued) :
        queued[i] = r /\ Popped(i) /\ queued' = SubSeq(queued, i + 1, Len(queued))
  BY DEF LedgerClaim
<1>3. records[r].status = "queued" BY <1>2 DEF Popped, Waiting
<1>4. records[r].attempt = 0 BY <1>3 DEF LedgerLink
<1>5. queued' \in Seq(Responses) BY <1>1, <1>2, PopFacts
<1> DEFINE rec == Running(records[r], r)
<1>6. rec \in Record /\ rec.status = "in_progress" /\ rec.attempt = 1
  BY <1>0, <1>1, <1>4, RunningFields
<1>7. records' = [records EXCEPT ![r] = rec] /\ idem' = idem /\ readOnly' = readOnly
  BY <1>1 DEF LedgerClaim
<1> HIDE DEF rec
<1> QED BY <1>1, <1>3, <1>5, <1>6, <1>7 DEF OnlyRecord

LEMMA CompleteEffect ==
    ASSUME TypeOK, NEW r \in Responses, NEW attempt, NEW status, NEW usage \in Usages,
           LedgerComplete(r, attempt, status, usage)
    PROVE  /\ records' \in [Responses -> Record] /\ OnlyRecord(r)
           /\ records[r].status = "in_progress"
           /\ status \in Terminal /\ records'[r].status = status
           /\ queued' = queued /\ idem' = idem /\ readOnly' = readOnly
<1>1. records \in [Responses -> Record] BY DEF TypeOK
<1>2. records[r].status = "in_progress" BY FenceOkMeans DEF LedgerComplete
<1>3. status \in Terminal BY DEF LedgerComplete
<1> DEFINE rec == Finished(records[r], status, usage)
<1>4. rec \in Record /\ rec.status = status BY <1>1, <1>3, FinishedFields
<1>5. records' = [records EXCEPT ![r] = rec] /\ queued' = queued /\ idem' = idem
      /\ readOnly' = readOnly
  BY <1>1 DEF LedgerComplete
<1> HIDE DEF rec
<1> QED BY <1>1, <1>2, <1>3, <1>4, <1>5 DEF OnlyRecord

LEMMA InFlightAttempt ==
    ASSUME TypeOK, NEW r \in Responses, LedgerLink(r), Exists(r),
           records[r].status \notin Terminal
    PROVE  records[r].attempt \in {0, 1} /\ records[r].status \in InFlight
BY RecordFields DEF LedgerLink, Exists, InFlight

LEMMA CancelEffect ==
    ASSUME TypeOK, NEW r \in Responses, LedgerLink(r), LedgerCancel(r, Owner)
    PROVE  /\ records' \in [Responses -> Record] /\ OnlyRecord(r)
           /\ records[r].status \in InFlight /\ records'[r].status = "cancelled"
           /\ queued' = queued /\ idem' = idem /\ readOnly' = readOnly
<1>1. records \in [Responses -> Record] BY DEF TypeOK
<1>2. Exists(r) /\ records[r].status \notin Terminal
  BY CancelOkMeans DEF LedgerCancel
<1>3. records[r].attempt \in {0, 1} /\ records[r].status \in InFlight
  BY <1>2, InFlightAttempt
<1> DEFINE rec == Superseded(records[r], "cancelled")
<1>4. rec \in Record /\ rec.status = "cancelled"
  BY <1>1, <1>3, SupersededFields DEF Terminal
<1>5. records' = [records EXCEPT ![r] = rec] /\ queued' = queued /\ idem' = idem
      /\ readOnly' = readOnly
  BY <1>1 DEF LedgerCancel
<1> HIDE DEF rec
<1> QED BY <1>1, <1>3, <1>4, <1>5 DEF OnlyRecord

LEMMA ReapEffect ==
    ASSUME TypeOK, \A r \in Responses : LedgerLink(r), LedgerReap
    PROVE  /\ records' \in [Responses -> Record]
           /\ \A r \in Responses :
                IF r \in LostClaims
                THEN records[r].status = "in_progress" /\ records'[r].status = "failed"
                ELSE records'[r] = records[r]
           /\ queued' = queued /\ idem' = idem /\ readOnly' = readOnly
<1>1. records \in [Responses -> Record] BY DEF TypeOK
<1>2. ASSUME NEW r \in Responses, Lost(r)
      PROVE  /\ records[r].status = "in_progress"
             /\ Superseded(records[r], "failed") \in Record
             /\ Superseded(records[r], "failed").status = "failed"
  <2>1. records[r].status = "in_progress" BY <1>2 DEF Lost
  <2>2. records[r].attempt = 1 BY <2>1 DEF LedgerLink
  <2> QED BY <1>1, <2>1, <2>2, SupersededFields DEF Terminal
<1>3. \A r \in Responses : records'[r] = IF Lost(r) THEN Superseded(records[r], "failed")
                                         ELSE records[r]
  BY DEF LedgerReap
<1>4. records' \in [Responses -> Record]
  <2>1. \A r \in Responses : (IF Lost(r) THEN Superseded(records[r], "failed")
                              ELSE records[r]) \in Record
    BY <1>1, <1>2
  <2> QED BY <2>1 DEF LedgerReap
<1>5. queued' = queued /\ idem' = idem /\ readOnly' = readOnly BY DEF LedgerReap
<1> QED BY <1>2, <1>3, <1>4, <1>5 DEF LostClaims

LEMMA DeleteEffect ==
    ASSUME TypeOK, NEW r \in Responses, LedgerDelete(r)
    PROVE  /\ records' \in [Responses -> Record] /\ OnlyRecord(r)
           /\ Exists(r) /\ records'[r].status = "none"
           /\ queued' = queued /\ idem' = idem /\ readOnly' = readOnly
<1>1. records \in [Responses -> Record] BY DEF TypeOK
<1>2. records' = [id \in Responses |-> IF id \in {r} THEN NoRecord ELSE records[id]]
  BY DEF LedgerDelete, Remove
<1>3. records'[r] = NoRecord /\ OnlyRecord(r) BY <1>2 DEF OnlyRecord
<1>4. records' \in [Responses -> Record] BY <1>1, <1>2, NoRecordFields
<1> QED BY <1>3, <1>4, NoRecordFields DEF LedgerDelete, Remove

----------------------------------------------------------------------------
(* The event log's methods.                                                *)

LEMMA OneMore ==
    ASSUME NEW S, NEW s \in Seq(S), NEW e \in S
    PROVE  /\ Append(s, e) \in Seq(S)
           /\ Len(s) \in Nat /\ Len(Append(s, e)) = Len(s) + 1
           /\ Append(s, e)[Len(s) + 1] = e
           /\ \A i \in 1..Len(s) : Append(s, e)[i] = s[i]
OBVIOUS

LEMMA OneFewer ==
    ASSUME NEW S, NEW s \in Seq(S), s # <<>>
    PROVE  /\ Tail(s) \in Seq(S)
           /\ Len(s) \in Nat /\ Len(Tail(s)) = Len(s) - 1
           /\ \A i \in 1..(Len(s) - 1) : Tail(s)[i] = s[i + 1]
OBVIOUS

LEMMA DeadlineIsNat == TombstoneAfter \in Nat
<1>1. \A a, b \in Nat : a * b \in Nat OBVIOUS
<1> QED BY <1>1, EventLogConstants DEF TombstoneAfter

LEMMA NoLogFields ==
    /\ NoLog \in Log /\ NoLog.ring = <<>> /\ NoLog.closedFor = -1 /\ NoLog.swept = FALSE
BY DeadlineIsNat DEF NoLog, Log

\* The events of a ring after a push: the old ones, moved by k when the first
\* was evicted, and the new one.
RingPushed(old, new, body) ==
    \E k \in {0, 1} :
        /\ Len(new) = Len(old) + 1 - k
        /\ \A i \in 1..Len(new) :
              IF i + k = Len(old) + 1 THEN new[i].body = body
              ELSE i + k \in 1..Len(old) /\ new[i] = old[i + k]

LEMMA PushedFields ==
    ASSUME NEW log \in Log, NEW body \in Bodies
    PROVE  /\ Pushed(log, body) \in Log
           /\ Pushed(log, body).closedFor = log.closedFor
           /\ Pushed(log, body).swept = log.swept
           /\ RingPushed(log.ring, Pushed(log, body).ring, body)
<1> DEFINE E    == [seq : Nat, body : Bodies]
           e    == [seq |-> log.nextSeq, body |-> body]
           s    == log.ring
           t    == Append(s, e)
           full == Len(t) > Capacity
           new  == IF full THEN Tail(t) ELSE t
           n    == log.nextSeq + 1
           m    == IF full THEN log.evictedBefore + 1 ELSE log.evictedBefore
           w    == Pushed(log, body)
<1>1. s \in Seq(E) /\ log.nextSeq \in Nat /\ log.evictedBefore \in Nat BY DEF Log
<1>2. e \in E /\ e.body = body BY <1>1
<1>3. w = [log EXCEPT !.live = TRUE, !.nextSeq = n, !.ring = new, !.evictedBefore = m]
  BY DEF Pushed
<1>4. n \in Nat /\ m \in Nat BY <1>1
<1> HIDE DEF e, s
<1>5. /\ t \in Seq(E) /\ Len(s) \in Nat /\ Len(t) = Len(s) + 1 /\ t[Len(s) + 1] = e
      /\ \A i \in 1..Len(s) : t[i] = s[i]
  <2> HIDE DEF E
  <2> QED BY <1>1, <1>2, OneMore
<1> HIDE DEF t
<1>6. t # <<>> BY <1>5
<1>7. /\ Tail(t) \in Seq(E) /\ Len(Tail(t)) = Len(s)
      /\ \A i \in 1..Len(s) : Tail(t)[i] = t[i + 1]
  <2> HIDE DEF E
  <2> QED BY <1>5, <1>6, OneFewer
<1>8. new \in Seq(E) BY <1>5, <1>7
<1>9. RingPushed(s, new, body)
  <2>1. CASE ~full
    <3>1. \A i \in 1..Len(new) : IF i + 0 = Len(s) + 1 THEN new[i].body = body
                                 ELSE i + 0 \in 1..Len(s) /\ new[i] = s[i + 0]
      BY <1>2, <1>5, <2>1
    <3>2. Len(new) = Len(s) + 1 - 0 BY <1>5, <2>1
    <3> QED BY <3>1, <3>2 DEF RingPushed
  <2>2. CASE full
    <3>1. new = Tail(t) BY <2>2
    <3>2. ASSUME NEW i \in 1..Len(new)
          PROVE  IF i + 1 = Len(s) + 1 THEN new[i].body = body
                 ELSE i + 1 \in 1..Len(s) /\ new[i] = s[i + 1]
      <4>1. i \in 1..Len(s) /\ new[i] = t[i + 1] BY <1>7, <3>1
      <4>2. CASE i + 1 = Len(s) + 1 BY <4>1, <4>2, <1>2, <1>5
      <4>3. CASE i + 1 # Len(s) + 1
        <5>1. i + 1 \in 1..Len(s) BY <1>5, <4>1, <4>3
        <5> QED BY <1>5, <4>1, <4>3, <5>1
      <4> QED BY <4>2, <4>3
    <3>3. Len(new) = Len(s) + 1 - 1 BY <1>5, <1>7, <3>1
    <3> QED BY <3>2, <3>3 DEF RingPushed
  <2> QED BY <2>1, <2>2
<1> HIDE DEF n, m, new, w
<1>10. /\ w \in Log /\ w.closedFor = log.closedFor /\ w.swept = log.swept /\ w.ring = new
  BY <1>3, <1>4, <1>8 DEF Log, E
<1> QED BY <1>9, <1>10 DEF w, s

\* The logs of the other responses.
OnlyLog(r) == \A s \in Responses \ {r} : logs'[s] = logs[s]

LEMMA PushEffect ==
    ASSUME TypeOK, NEW r \in Responses, NEW body \in Bodies,
           TryPush(r, body) \/ TryAppend(r, body)
    PROVE  /\ logs' \in [Responses -> Log] /\ OnlyLog(r)
           /\ \/ logs'[r] = logs[r]
              \/ logs'[r] = Pushed(logs[r], body)
<1>1. logs \in [Responses -> Log] /\ logs[r] \in Log BY DEF TypeOK
<1>2. CASE logs' = logs BY <1>1, <1>2 DEF OnlyLog
<1>3. CASE LogPush(r, body)
  <2>1. Pushed(logs[r], body) \in Log BY <1>1, PushedFields
  <2>2. logs' = [logs EXCEPT ![r] = Pushed(logs[r], body)] BY <1>1, <1>3 DEF LogPush
  <2> QED BY <1>1, <2>1, <2>2 DEF OnlyLog
<1> QED BY <1>2, <1>3 DEF TryPush, TryAppend, SameLogs

LEMMA CloseEffect ==
    ASSUME TypeOK, NEW r \in Responses, NEW age \in 0..TombstoneAfter, TryClose(r, age)
    PROVE  /\ logs' \in [Responses -> Log] /\ OnlyLog(r)
           /\ logs'[r].ring = logs[r].ring /\ logs'[r].swept = logs[r].swept
<1>1. logs \in [Responses -> Log] /\ logs[r] \in Log BY DEF TypeOK
<1>2. CASE logs' = logs BY <1>1, <1>2 DEF OnlyLog
<1>3. CASE LogClose(r, age)
  <2> DEFINE d == IF age > TombstoneAfter THEN TombstoneAfter ELSE age
             w == [logs[r] EXCEPT !.closedFor = d]
  <2>1. d \in -1..TombstoneAfter BY DeadlineIsNat
  <2>2. logs' = [logs EXCEPT ![r] = w] BY <1>1, <1>3 DEF LogClose
  <2> HIDE DEF d
  <2>3. w \in Log /\ w.ring = logs[r].ring /\ w.swept = logs[r].swept BY <1>1, <2>1 DEF Log
  <2> HIDE DEF w
  <2> QED BY <1>1, <2>2, <2>3 DEF OnlyLog
<1> QED BY <1>2, <1>3 DEF TryClose, SameLogs

\* What a sweep leaves of a log.
LEMMA SweptFields ==
    ASSUME NEW log \in Log
    PROVE  /\ Swept(log) \in Log
           /\ Swept(log).ring \in {log.ring, <<>>}
           /\ Swept(log).closedFor # -1 => log.closedFor # -1
           /\ Swept(log).swept => log.swept \/ log.closedFor # -1
<1>1. CASE Swept(log) = NoLog BY <1>1, NoLogFields
<1>2. CASE Swept(log) = log BY <1>2
<1>3. CASE Swept(log) = Emptied(log) /\ PastRetention(log)
  <2>1. \A next \in Nat, ring \in Seq([seq : Nat, body : Bodies]) :
           LET w == [log EXCEPT !.ring = ring, !.evictedBefore = next, !.swept = TRUE]
           IN  w \in Log /\ w.ring = ring /\ w.closedFor = log.closedFor
    BY DEF Log
  <2>2. log.nextSeq \in Nat /\ <<>> \in Seq([seq : Nat, body : Bodies]) BY DEF Log
  <2>3. /\ Emptied(log) \in Log /\ Emptied(log).ring = <<>>
        /\ Emptied(log).closedFor = log.closedFor
    BY <2>1, <2>2, Zenon DEF Emptied
  <2> QED BY <1>3, <2>3 DEF PastRetention
<1> QED BY <1>1, <1>2, <1>3 DEF Swept

LEMMA SweepEffect ==
    ASSUME TypeOK, LogSweep
    PROVE  /\ logs' \in [Responses -> Log]
           /\ \A r \in Responses : logs'[r] = Swept(logs[r]) /\ logs[r] \in Log
<1>1. \A r \in Responses : logs[r] \in Log BY DEF TypeOK
<1>2. \A r \in Responses : Swept(logs[r]) \in Log BY <1>1, SweptFields
<1> QED BY <1>1, <1>2 DEF LogSweep

LEMMA LogTickEffect ==
    ASSUME TypeOK, LogTick
    PROVE  /\ logs' \in [Responses -> Log]
           /\ \A r \in Responses :
                /\ logs'[r].ring = logs[r].ring /\ logs'[r].swept = logs[r].swept
                /\ logs'[r].closedFor # -1 => logs[r].closedFor # -1
<1> DEFINE d(r) == IF logs[r].closedFor = -1 \/ logs[r].closedFor >= TombstoneAfter
                   THEN logs[r].closedFor ELSE logs[r].closedFor + 1
           w(r) == [logs[r] EXCEPT !.closedFor = d(r)]
<1>1. logs' = [r \in Responses |-> w(r)] BY DEF LogTick
<1>2. ASSUME NEW r \in Responses
      PROVE  /\ w(r) \in Log /\ w(r).ring = logs[r].ring /\ w(r).swept = logs[r].swept
             /\ w(r).closedFor # -1 => logs[r].closedFor # -1
  <2>1. logs[r] \in Log BY DEF TypeOK
  <2>2. logs[r].closedFor \in -1..TombstoneAfter BY <2>1 DEF Log
  <2>3. d(r) \in -1..TombstoneAfter /\ (d(r) # -1 => logs[r].closedFor # -1)
    BY <2>2, DeadlineIsNat
  <2> HIDE DEF d
  <2> QED BY <2>1, <2>3 DEF Log
<1> HIDE DEF w
<1> QED BY <1>1, <1>2

LEMMA RemoveEffect ==
    ASSUME TypeOK, NEW r \in Responses, IF logs[r].live THEN LogRemove(r) ELSE SameLogs
    PROVE  /\ logs' \in [Responses -> Log] /\ OnlyLog(r)
           /\ logs'[r] \in {logs[r], NoLog}
<1>1. logs \in [Responses -> Log] BY DEF TypeOK
<1>2. CASE logs' = logs BY <1>1, <1>2 DEF OnlyLog
<1>3. CASE LogRemove(r) BY <1>1, <1>3, NoLogFields DEF LogRemove, OnlyLog
<1> QED BY <1>2, <1>3 DEF SameLogs

----------------------------------------------------------------------------
(* The conversation store's methods.                                       *)

Said(conv, e) == \E i \in 1..Len(conv.events) : conv.events[i] = e

\* A write that leaves the turns and the tail of a conversation alone, and
\* announces e if anything.
Marked(old, new, e) ==
    /\ new \in CountedConv
    /\ new.live = old.live /\ new.tenant = old.tenant
    /\ new.turns = old.turns /\ new.tail = old.tail
    /\ \A x : Said(new, x) => Said(old, x) \/ x = e

OnlyConv(c) == \A d \in Conversations \ {c} : convs'[d] = convs[d]

LEMMA WriteConv ==
    ASSUME TypeOK, NEW c, NEW w, c \in Conversations => w \in CountedConv,
           convs' = [convs EXCEPT ![c] = w]
    PROVE  /\ convs' \in [Conversations -> CountedConv] /\ OnlyConv(c)
           /\ c \in Conversations => convs'[c] = w
BY DEF TypeOK, OnlyConv

LEMMA NoConvFields ==
    /\ NoConv \in CountedConv /\ NoConv.live = FALSE /\ NoConv.tail = None
    /\ NoConv.turns = <<>> /\ NoConv.events = <<>>
BY DEF NoConv, CountedConv

LEMMA SameIsMarked ==
    ASSUME NEW v \in CountedConv, NEW e
    PROVE  Marked(v, v, e)
BY DEF Marked

LEMMA AnnouncedIsMarked ==
    ASSUME NEW v \in CountedConv, NEW kind \in EventKinds, NEW r \in Responses \cup {None}
    PROVE  Marked(v, Announced(v, kind, r), Event(kind, r))
<1> DEFINE E == [kind : EventKinds, response : Responses \cup {None}]
           e == Event(kind, r)
           s == v.events
           t == Append(s, e)
           w == [v EXCEPT !.events = t]
<1>1. e \in E BY DEF Event
<1>2. s \in Seq(E) BY DEF CountedConv
<1>3. w = Announced(v, kind, r) BY DEF Announced
<1> HIDE DEF e, s
<1>4. /\ t \in Seq(E) /\ Len(s) \in Nat /\ Len(t) = Len(s) + 1 /\ t[Len(s) + 1] = e
      /\ \A i \in 1..Len(s) : t[i] = s[i]
  <2> HIDE DEF E
  <2> QED BY <1>1, <1>2, OneMore
<1> HIDE DEF t
<1>5. /\ w \in CountedConv /\ w.live = v.live /\ w.tenant = v.tenant
      /\ w.turns = v.turns /\ w.tail = v.tail
      /\ w.events = t
  BY <1>4 DEF CountedConv, E
<1> HIDE DEF w
<1>6. ASSUME NEW x, Said(w, x) PROVE Said(v, x) \/ x = e
  <2>1. PICK i \in 1..Len(t) : t[i] = x BY <1>5, <1>6 DEF Said
  <2>2. CASE i = Len(s) + 1 BY <1>4, <2>1, <2>2
  <2>3. CASE i \in 1..Len(s) BY <1>4, <2>1, <2>3 DEF Said, s
  <2> QED BY <1>4, <2>2, <2>3
<1> QED BY <1>3, <1>5, <1>6 DEF Marked, e

\* Setting the marker on top of an announcement.
LEMMA HeldIsMarked ==
    ASSUME NEW v \in CountedConv, NEW r \in Responses
    PROVE  Marked(v, Held(v, r), Event("turn_started", r))
<1> DEFINE a == Announced(v, "turn_started", r)
           n == Len(v.events)
           w == [a EXCEPT !.active = r, !.lockSeq = n]
<1>1. "turn_started" \in EventKinds BY DEF EventKinds
<1>2. Marked(v, a, Event("turn_started", r)) BY <1>1, AnnouncedIsMarked
<1>3. n \in Nat BY DEF CountedConv
<1>4. w = Held(v, r) BY DEF Held
<1> HIDE DEF a, n
<1>5. a \in CountedConv BY <1>2 DEF Marked
<1>6. /\ w \in CountedConv /\ w.live = a.live /\ w.tenant = a.tenant
      /\ w.turns = a.turns /\ w.tail = a.tail
      /\ w.events = a.events
  BY <1>3, <1>5 DEF CountedConv
<1> HIDE DEF w
<1> QED BY <1>2, <1>4, <1>6 DEF Marked, Said

LEMMA FreedIsMarked ==
    ASSUME NEW v \in CountedConv, NEW r \in Responses
    PROVE  Marked(v, Freed(v, r), Event("turn_completed", r))
<1> DEFINE a == Announced(v, "turn_completed", r)
           w == [a EXCEPT !.active = None, !.completed = r]
<1>1. "turn_completed" \in EventKinds BY DEF EventKinds
<1>2. Marked(v, a, Event("turn_completed", r)) BY <1>1, AnnouncedIsMarked
<1>4. w = Freed(v, r) BY DEF Freed
<1> HIDE DEF a
<1>5. a \in CountedConv BY <1>2 DEF Marked
<1>6. /\ w \in CountedConv /\ w.live = a.live /\ w.tenant = a.tenant
      /\ w.turns = a.turns /\ w.tail = a.tail
      /\ w.events = a.events
  BY <1>5 DEF CountedConv
<1> HIDE DEF w
<1> QED BY <1>2, <1>4, <1>6 DEF Marked, Said

\* Taking over a marker announces nothing.
LEMMA ClearedIsMarked ==
    ASSUME NEW v \in CountedConv, NEW e
    PROVE  Marked(v, [v EXCEPT !.active = None], e)
<1> DEFINE w == [v EXCEPT !.active = None]
<1>1. /\ w \in CountedConv /\ w.live = v.live /\ w.tenant = v.tenant
      /\ w.turns = v.turns /\ w.tail = v.tail
      /\ w.events = v.events
  BY DEF CountedConv
<1> HIDE DEF w
<1> QED BY <1>1 DEF Marked, Said, w

\* The steps that touch the marker or the stream of c, as seen from outside.
MarksOnly(c, e) ==
    /\ convs' \in [Conversations -> CountedConv] /\ unavailable' = unavailable
    /\ OnlyConv(c)
    /\ c \in Conversations => Marked(convs[c], convs'[c], e)

LEMMA SameMarks ==
    ASSUME TypeOK, NEW c, NEW e, SameConvs
    PROVE  MarksOnly(c, e)
BY SameIsMarked DEF TypeOK, SameConvs, convVars, MarksOnly, OnlyConv

LEMMA AcquireEffect ==
    ASSUME TypeOK, NEW c, NEW r \in Responses, AcquireActive(c, Owner, r)
    PROVE  MarksOnly(c, Event("turn_started", r))
<1>1. c \in Conversations => convs[c] \in CountedConv BY DEF TypeOK
<1> DEFINE w == Held(convs[c], r)
<1>2. c \in Conversations => Marked(convs[c], w, Event("turn_started", r))
  BY <1>1, HeldIsMarked
<1>3. convs' = [convs EXCEPT ![c] = w] /\ unavailable' = unavailable
  BY DEF AcquireActive
<1> HIDE DEF w
<1>4. c \in Conversations => w \in CountedConv BY <1>2 DEF Marked
<1>5. /\ convs' \in [Conversations -> CountedConv] /\ OnlyConv(c)
      /\ c \in Conversations => convs'[c] = w
  BY <1>3, <1>4, WriteConv
<1> QED BY <1>2, <1>3, <1>5 DEF MarksOnly

LEMMA ReleaseEffect ==
    ASSUME TypeOK, NEW r \in Responses, TryRelease(r)
    PROVE  MarksOnly(ConvOf[r], Event("turn_completed", r))
<1> DEFINE c == ConvOf[r]
<1>1. CASE SameConvs BY <1>1, SameMarks
<1>2. CASE ReleaseActive(c, Owner, r)
  <2>1. c \in Conversations => convs[c] \in CountedConv BY DEF TypeOK
  <2> DEFINE w == Freed(convs[c], r)
  <2>2. c \in Conversations => Marked(convs[c], w, Event("turn_completed", r))
    BY <2>1, FreedIsMarked
  <2>3. convs' = [convs EXCEPT ![c] = w] /\ unavailable' = unavailable
    BY <1>2 DEF ReleaseActive
  <2> HIDE DEF w, c
  <2>4. c \in Conversations => w \in CountedConv BY <2>2 DEF Marked
  <2>5. /\ convs' \in [Conversations -> CountedConv] /\ OnlyConv(c)
        /\ c \in Conversations => convs'[c] = w
    BY <2>3, <2>4, WriteConv
  <2> QED BY <2>2, <2>3, <2>5 DEF MarksOnly, c
<1> QED BY <1>1, <1>2 DEF TryRelease

LEMMA StaleEffect ==
    ASSUME TypeOK, NEW c, NEW holder, NEW e, ReleaseStale(c, Owner, holder)
    PROVE  MarksOnly(c, e)
<1>1. c \in Conversations => convs[c] \in CountedConv BY DEF TypeOK
<1> DEFINE w == [convs[c] EXCEPT !.active = None]
<1>2. c \in Conversations => Marked(convs[c], w, e)
  BY <1>1, ClearedIsMarked
<1>3. convs' = [convs EXCEPT ![c] = w] /\ unavailable' = unavailable
  BY DEF ReleaseStale
<1> HIDE DEF w
<1>4. c \in Conversations => w \in CountedConv BY <1>2 DEF Marked
<1>5. /\ convs' \in [Conversations -> CountedConv] /\ OnlyConv(c)
      /\ c \in Conversations => convs'[c] = w
  BY <1>3, <1>4, WriteConv
<1> QED BY <1>2, <1>3, <1>5 DEF MarksOnly

LEMMA EventEffect ==
    ASSUME TypeOK, NEW c, NEW r \in Responses,
           AppendEvent(c, Owner, "response_deleted", r)
    PROVE  MarksOnly(c, Event("response_deleted", r))
<1>0. "response_deleted" \in EventKinds BY DEF EventKinds
<1>1. c \in Conversations => convs[c] \in CountedConv BY DEF TypeOK
<1> DEFINE w == Announced(convs[c], "response_deleted", r)
<1>2. c \in Conversations => Marked(convs[c], w, Event("response_deleted", r))
  BY <1>0, <1>1, AnnouncedIsMarked
<1>3. convs' = [convs EXCEPT ![c] = w] /\ unavailable' = unavailable
  BY DEF AppendEvent
<1> HIDE DEF w
<1>4. c \in Conversations => w \in CountedConv BY <1>2 DEF Marked
<1>5. /\ convs' \in [Conversations -> CountedConv] /\ OnlyConv(c)
      /\ c \in Conversations => convs'[c] = w
  BY <1>3, <1>4, WriteConv
<1> QED BY <1>2, <1>3, <1>5 DEF MarksOnly

\* Archival adds at most the one turn, and never takes one away.
TurnAdded(old, new, turn) ==
    /\ new \in CountedConv
    /\ new.live = old.live /\ new.tenant = old.tenant
    /\ new.tail = old.tail /\ new.events = old.events
    /\ \A i \in 1..Len(new.turns) :
          \/ i \in 1..Len(old.turns) /\ new.turns[i] = old.turns[i]
          \/ new.turns[i] = turn
    /\ \A s : Archived(old, s) => Archived(new, s)

LEMMA WithTurnAdds ==
    ASSUME NEW v \in CountedConv, NEW r \in Responses, NEW output \in Nat
    PROVE  /\ TurnAdded(v, WithTurn(v, r, output), Turn(r, output))
           /\ Archived(WithTurn(v, r, output), r)
<1>1. CASE Archived(v, r) BY <1>1 DEF TurnAdded, WithTurn
<1>2. CASE ~Archived(v, r)
  <2> DEFINE S == [response : Responses, output : Nat]
             t == Turn(r, output)
             s == v.turns
             u == Append(s, t)
             w == [v EXCEPT !.turns = u]
  <2>1. t \in S /\ t.response = r BY DEF Turn
  <2>2. s \in Seq(S) BY DEF CountedConv
  <2>3. w = WithTurn(v, r, output) BY <1>2 DEF WithTurn
  <2> HIDE DEF t, s
  <2>4. /\ u \in Seq(S) /\ Len(s) \in Nat /\ Len(u) = Len(s) + 1 /\ u[Len(s) + 1] = t
        /\ \A i \in 1..Len(s) : u[i] = s[i]
    <3> HIDE DEF S
    <3> QED BY <2>1, <2>2, OneMore
  <2> HIDE DEF u
  <2>5. /\ w \in CountedConv /\ w.live = v.live /\ w.tenant = v.tenant
        /\ w.tail = v.tail /\ w.events = v.events
        /\ w.turns = u
    BY <2>4 DEF CountedConv, S
  <2> HIDE DEF w
  <2>6. \A i \in 1..Len(u) : (i \in 1..Len(s) /\ u[i] = s[i]) \/ u[i] = t
    BY <2>4
  <2>7. \A x : Archived(v, x) => Archived(w, x)
    <3>1. \A i \in 1..Len(s) : i \in 1..Len(u) /\ u[i] = s[i] BY <2>4
    <3> QED BY <2>5, <3>1 DEF Archived, s
  <2>8. Archived(w, r)
    <3>1. Len(s) + 1 \in 1..Len(u) /\ u[Len(s) + 1].response = r BY <2>1, <2>4
    <3> QED BY <2>5, <3>1 DEF Archived
  <2>9. TurnAdded(v, w, t) BY <2>5, <2>6, <2>7 DEF TurnAdded, s
  <2> QED BY <2>3, <2>8, <2>9 DEF t
<1> QED BY <1>1, <1>2

LEMMA ArchiveEffect ==
    ASSUME TypeOK, NEW r \in Responses, NEW output \in Nat, TryArchive(r, output)
    PROVE  /\ convs' \in [Conversations -> CountedConv] /\ unavailable' = unavailable
           /\ OnlyConv(ConvOf[r])
           /\ ConvOf[r] \in Conversations =>
                 /\ TurnAdded(convs[ConvOf[r]], convs'[ConvOf[r]], Turn(r, output))
                 /\ TurnStored(r) => Archived(convs'[ConvOf[r]], r)
<1> DEFINE c == ConvOf[r]
<1>0. /\ convs \in [Conversations -> CountedConv]
      /\ c \in Conversations => convs[c] \in CountedConv
  BY DEF TypeOK
<1>1. CASE ~TurnStored(r)
  <2>1. convs' = convs /\ unavailable' = unavailable
    BY <1>1 DEF TryArchive, TurnStored, SameConvs, convVars
  <2>2. c \in Conversations => TurnAdded(convs[c], convs[c], Turn(r, output))
    BY <1>0 DEF TurnAdded
  <2> QED BY <1>0, <1>1, <2>1, <2>2 DEF OnlyConv
<1>2. CASE TurnStored(r)
  <2> DEFINE w == WithTurn(convs[c], r, output)
  <2>1. c \in Conversations =>
           TurnAdded(convs[c], w, Turn(r, output)) /\ Archived(w, r)
    BY <1>0, WithTurnAdds
  <2>2. convs' = [convs EXCEPT ![c] = w] /\ unavailable' = unavailable
    BY <1>2 DEF TryArchive, TurnStored, AppendTurn
  <2> HIDE DEF w, c
  <2>3. c \in Conversations => w \in CountedConv BY <2>1 DEF TurnAdded
  <2>4. /\ convs' \in [Conversations -> CountedConv] /\ OnlyConv(c)
        /\ c \in Conversations => convs'[c] = w
    BY <2>2, <2>3, WriteConv
  <2> QED BY <2>1, <2>2, <2>4 DEF c
<1> QED BY <1>1, <1>2

LEMMA AdvanceEffect ==
    ASSUME TypeOK, NEW r \in Responses,
           IF TurnStored(r) THEN Advance(ConvOf[r], Owner, r) ELSE SameConvs
    PROVE  /\ convs' \in [Conversations -> CountedConv] /\ unavailable' = unavailable
           /\ OnlyConv(ConvOf[r])
           /\ ConvOf[r] \in Conversations =>
                 LET old == convs[ConvOf[r]]
                     new == convs'[ConvOf[r]]
                 IN  /\ new.live = old.live /\ new.tenant = old.tenant /\ new.turns = old.turns
                     /\ new.events = old.events
                     /\ \/ new.tail = old.tail
                        \/ new.tail = r /\ old.live
<1> DEFINE c == ConvOf[r]
<1>0. /\ convs \in [Conversations -> CountedConv]
      /\ c \in Conversations => convs[c] \in CountedConv
  BY DEF TypeOK
<1>1. CASE ~TurnStored(r)
  <2>1. convs' = convs /\ unavailable' = unavailable
    BY <1>1 DEF SameConvs, convVars
  <2> QED BY <1>0, <2>1 DEF OnlyConv
<1>2. CASE TurnStored(r)
  <2>0. convs[c].live BY <1>2 DEF TurnStored, TurnOutcome, Owned, Refusal
  <2> DEFINE w == [convs[c] EXCEPT !.tail = r]
  <2>1. c \in Conversations =>
          /\ w \in CountedConv /\ w.live = convs[c].live /\ w.tenant = convs[c].tenant
          /\ w.turns = convs[c].turns
          /\ w.events = convs[c].events /\ w.tail = r
    BY <1>0 DEF CountedConv
  <2>2. convs' = [convs EXCEPT ![c] = w] /\ unavailable' = unavailable
    BY <1>2 DEF Advance
  <2> HIDE DEF w, c
  <2>4. /\ convs' \in [Conversations -> CountedConv] /\ OnlyConv(c)
        /\ c \in Conversations => convs'[c] = w
    BY <2>1, <2>2, WriteConv
  <2> QED BY <2>0, <2>1, <2>2, <2>4 DEF c
<1> QED BY <1>1, <1>2

LEMMA DropEffect ==
    ASSUME TypeOK, NEW c \in Conversations, ConvDelete(c, Owner)
    PROVE  /\ convs' \in [Conversations -> CountedConv] /\ unavailable' = unavailable
           /\ OnlyConv(c) /\ convs'[c] = NoConv
BY NoConvFields DEF TypeOK, ConvDelete, OnlyConv

----------------------------------------------------------------------------
(* The steps of the composition: what each leaves alone and what it does   *)
(* to the response it is about.                                            *)

\* The ledger knows every response before the others do.
Linked == TypeOK /\ KeysPair /\ \A r \in Responses : LedgerLink(r)

LedgerKept == records' = records /\ idem' = idem /\ queued' = queued /\ readOnly' = readOnly
ConvsKept == convs' = convs /\ unavailable' = unavailable

LEMMA Unchanged_ ==
    /\ SameLedger => LedgerKept
    /\ SameLogs => logs' = logs
    /\ SameConvs => ConvsKept
BY DEF SameLedger, SameLogs, SameConvs, ledgerVars, convVars, LedgerKept, ConvsKept

OnlyCreator(r) == \A s \in Responses \ {r} : creator'[s] = creator[s]
OnlyEngine(r) == \A s \in Responses \ {r} : engine'[s] = engine[s]
OnlyCleaner(r) == \A s \in Responses \ {r} : cleaner'[s] = cleaner[s]

Anchored(pc) == pc \in {"acquire", "reacquire", "busy", "takeover"}

\* A create that has not reached the ledger.
LEMMA AskingStep ==
    ASSUME TypeOK, NEW r \in Responses,
           Resolve(r) \/ TakeMarker(r) \/ InspectHolder(r) \/ TakeOver(r)
    PROVE  /\ TypeOK' /\ LedgerKept /\ logs' = logs
           /\ engine' = engine /\ cleaner' = cleaner
           /\ creator[r].pc \in Asking /\ creator'[r].pc \in Asking \cup {"refused"}
           /\ OnlyCreator(r)
           /\ MarksOnly(ConvOf[r], Event("turn_started", r))
<1> DEFINE e == Event("turn_started", r)
           Goes(pc) == CreatorGoes(r, pc)
<1>0. /\ "refused" \in Answered
      /\ {"acquire", "reacquire", "busy", "takeover", "admit"} \subseteq Asking
  BY DEF Asking, Answered
<1>1. SUFFICES ASSUME LedgerKept, logs' = logs, creator[r].pc \in Asking,
                      MarksOnly(ConvOf[r], e), engine' = engine, cleaner' = cleaner,
                      deleter' = deleter, crashes' = crashes, OnlyCreator(r),
                      creator'[r].pc \in Asking \cup {"refused"},
                      Anchored(creator'[r].pc) => HasConv(r),
                      creator' \in [Responses -> Creators]
               PROVE  TypeOK'
  <2>1. ASSUME NEW pc \in Asking \cup Answered, Goes(pc),
               pc \in Asking \cup {"refused"}, Anchored(pc) => HasConv(r)
        PROVE  /\ engine' = engine /\ cleaner' = cleaner /\ deleter' = deleter
               /\ crashes' = crashes /\ OnlyCreator(r)
               /\ creator'[r].pc \in Asking \cup {"refused"}
               /\ Anchored(creator'[r].pc) => HasConv(r)
               /\ creator' \in [Responses -> Creators]
    BY <2>1, CreatorMoved DEF OnlyCreator
  <2>2. CASE Resolve(r)
    <3>1. LedgerKept /\ logs' = logs /\ SameConvs BY <2>2, Unchanged_ DEF Resolve
    <3>2. MarksOnly(ConvOf[r], e) BY <3>1, SameMarks
    <3>3. creator[r].pc \in Asking BY <2>2 DEF Resolve, Asking
    <3>4. Goes("admit") \/ Goes("refused") \/ (Goes("acquire") /\ HasConv(r))
      BY <2>2 DEF Resolve
    <3> QED BY <1>0, <1>1, <2>1, <3>1, <3>2, <3>3, <3>4 DEF Anchored
  <2>3. CASE TakeMarker(r)
    <3>1. LedgerKept /\ logs' = logs BY <2>3, Unchanged_ DEF TakeMarker
    <3>2. creator[r].pc \in {"acquire", "reacquire"} BY <2>3 DEF TakeMarker
    <3>3. HasConv(r) BY <3>2 DEF TypeOK
    <3>4. CASE AcquireActive(ConvOf[r], Owner, r) /\ Goes("admit")
      BY <1>0, <1>1, <2>1, <3>1, <3>2, <3>4, AcquireEffect DEF Anchored
    <3>5. CASE SameConvs /\ Goes("refused")
      BY <1>0, <1>1, <2>1, <3>1, <3>2, <3>5, SameMarks DEF Anchored
    <3>6. CASE /\ creator' = [creator EXCEPT ![r] = [pc |-> "busy",
                                                     holder |-> convs[ConvOf[r]].active]]
               /\ UNCHANGED <<engine, cleaner, deleter, crashes>> /\ SameConvs
      <4>1. ConvOf[r] \in Conversations BY <3>3, LifecycleConstants DEF HasConv
      <4>2. convs[ConvOf[r]].active \in Responses \cup {None}
        BY <4>1 DEF TypeOK, CountedConv
      <4> DEFINE w == [pc |-> "busy", holder |-> convs[ConvOf[r]].active]
      <4>3. w \in Creators /\ w.pc = "busy" BY <1>0, <4>2 DEF Creators
      <4>4. creator \in [Responses -> Creators] BY DEF TypeOK
      <4> HIDE DEF w
      <4>5. creator' = [creator EXCEPT ![r] = w] BY <3>6 DEF w
      <4>6. creator' \in [Responses -> Creators] /\ OnlyCreator(r) /\ creator'[r] = w
        BY <4>3, <4>4, <4>5 DEF OnlyCreator
      <4>7. MarksOnly(ConvOf[r], e) BY <3>6, SameMarks
      <4> QED BY <1>0, <1>1, <3>1, <3>2, <3>3, <3>6, <4>3, <4>6, <4>7
    <3> QED BY <2>3, <3>4, <3>5, <3>6 DEF TakeMarker
  <2>4. CASE InspectHolder(r)
    <3>1. LedgerKept /\ logs' = logs /\ SameConvs BY <2>4, Unchanged_ DEF InspectHolder
    <3>2. MarksOnly(ConvOf[r], e) BY <3>1, SameMarks
    <3>3. creator[r].pc = "busy" BY <2>4 DEF InspectHolder
    <3>4. HasConv(r) BY <3>3 DEF TypeOK
    <3>5. Goes("takeover") \/ Goes("refused") BY <2>4 DEF InspectHolder
    <3> QED BY <1>0, <1>1, <2>1, <3>1, <3>2, <3>3, <3>4, <3>5
  <2>5. CASE TakeOver(r)
    <3>1. LedgerKept /\ logs' = logs BY <2>5, Unchanged_ DEF TakeOver
    <3>2. MarksOnly(ConvOf[r], e)
      <4>1. SameConvs \/ ReleaseStale(ConvOf[r], Owner, creator[r].holder)
        BY <2>5 DEF TakeOver
      <4> QED BY <4>1, SameMarks, StaleEffect
    <3>3. creator[r].pc = "takeover" BY <2>5 DEF TakeOver
    <3>4. HasConv(r) BY <3>3 DEF TypeOK
    <3>5. Goes("reacquire") \/ Goes("refused") BY <2>5 DEF TakeOver
    <3> QED BY <1>0, <1>1, <2>1, <3>1, <3>2, <3>3, <3>4, <3>5
  <2> QED BY <2>2, <2>3, <2>4, <2>5
<1>2. \A s \in Responses : Anchored(creator'[s].pc) => HasConv(s)
  BY <1>1 DEF TypeOK, OnlyCreator, Anchored
<1> QED BY <1>1, <1>2 DEF TypeOK, LedgerKept, MarksOnly, Anchored

\* The other steps of a create: none goes back to asking.
LEMMA AnsweredTypes ==
    ASSUME TypeOK, NEW r \in Responses, NEW pc \in Answered, CreatorGoes(r, pc)
    PROVE  /\ creator' \in [Responses -> Creators]
           /\ creator'[r].pc = pc /\ OnlyCreator(r)
           /\ engine' = engine /\ cleaner' = cleaner
           /\ deleter' = deleter /\ crashes' = crashes
           /\ \A s \in Responses :
                 /\ Anchored(creator'[s].pc) => HasConv(s)
                 /\ cleaner'[s].kind = "reap" => cleaner'[s].pc # "read"
<1>1. /\ creator' \in [Responses -> Creators] /\ creator'[r].pc = pc /\ OnlyCreator(r)
      /\ engine' = engine /\ cleaner' = cleaner /\ deleter' = deleter /\ crashes' = crashes
  BY CreatorMoved DEF OnlyCreator
<1>2. \A s \in Responses : Anchored(creator'[s].pc) => HasConv(s)
  BY <1>1 DEF TypeOK, OnlyCreator, Anchored, Answered
<1> QED BY <1>1, <1>2 DEF TypeOK

LEMMA AdmitStep ==
    ASSUME TypeOK, KeysPair, NEW r \in Responses, Admit(r)
    PROVE  /\ TypeOK' /\ logs' = logs /\ ConvsKept /\ engine' = engine /\ cleaner' = cleaner
           /\ creator[r].pc = "admit" /\ OnlyCreator(r)
           /\ \/ /\ LedgerKept /\ creator'[r].pc = "giveback"
              \/ /\ creator'[r].pc = "announce" /\ OnlyRecord(r)
                 /\ \E spec \in Specs : LedgerCreate(r, KeyOf[r], Owner, spec)
                 /\ records'[r].status = "queued" /\ records'[r].attempt = 0
                 /\ KeysPair' /\ ~Minted(r) /\ Minted(r)'
                 /\ \A s \in Responses \ {r} : Minted(s)' <=> Minted(s)
<1>1. logs' = logs /\ ConvsKept /\ creator[r].pc = "admit" BY Unchanged_ DEF Admit
<1>2. CASE CreatorGoes(r, "giveback") /\ SameLedger
  <2>1. LedgerKept BY <1>2, Unchanged_
  <2>2. "giveback" \in Answered BY DEF Answered
  <2>3. /\ creator' \in [Responses -> Creators]
        /\ creator'[r].pc = "giveback" /\ OnlyCreator(r)
        /\ engine' = engine /\ cleaner' = cleaner
        /\ deleter' = deleter /\ crashes' = crashes
        /\ \A s \in Responses :
              /\ Anchored(creator'[s].pc) => HasConv(s)
              /\ cleaner'[s].kind = "reap" => cleaner'[s].pc # "read"
    BY <1>2, <2>2, AnsweredTypes
  <2>4. TypeOK' BY <1>1, <2>1, <2>3 DEF TypeOK, LedgerKept, ConvsKept, Anchored
  <2> QED BY <1>1, <2>1, <2>3, <2>4
<1>3. CASE CreatorGoes(r, "announce") /\ \E spec \in Specs : LedgerCreate(r, KeyOf[r], Owner, spec)
  <2>1. PICK spec \in Specs : LedgerCreate(r, KeyOf[r], Owner, spec) BY <1>3
  <2>2. /\ records' \in [Responses -> Record] /\ OnlyRecord(r)
        /\ records'[r].status = "queued" /\ records'[r].attempt = 0
        /\ queued' \in Seq(Responses) /\ idem' \in [Keys -> Responses \cup {None}]
        /\ readOnly' = readOnly /\ KeysPair' /\ ~Minted(r) /\ Minted(r)'
        /\ \A s \in Responses \ {r} : Minted(s)' <=> Minted(s)
    BY <2>1, CreateEffect
  <2>3. "announce" \in Answered BY DEF Answered
  <2>4. /\ creator' \in [Responses -> Creators]
        /\ creator'[r].pc = "announce" /\ OnlyCreator(r)
        /\ engine' = engine /\ cleaner' = cleaner
        /\ deleter' = deleter /\ crashes' = crashes
        /\ \A s \in Responses :
              /\ Anchored(creator'[s].pc) => HasConv(s)
              /\ cleaner'[s].kind = "reap" => cleaner'[s].pc # "read"
    BY <1>3, <2>3, AnsweredTypes
  <2>5. TypeOK' BY <1>1, <2>2, <2>4 DEF TypeOK, ConvsKept, Anchored
  <2> QED BY <1>1, <1>3, <2>2, <2>4, <2>5
<1> QED BY <1>2, <1>3 DEF Admit

\* The push of a created event, or of none.
LogAppended(r, bodies) ==
    /\ OnlyLog(r)
    /\ \/ logs'[r] = logs[r]
       \/ \E body \in bodies : logs'[r] = Pushed(logs[r], body)

LEMMA AnnounceCreatedStep ==
    ASSUME TypeOK, NEW r \in Responses, AnnounceCreated(r)
    PROVE  /\ TypeOK' /\ LedgerKept /\ ConvsKept /\ engine' = engine /\ cleaner' = cleaner
           /\ LogAppended(r, {"created"})
           /\ creator[r].pc = "announce" /\ OnlyCreator(r)
           /\ creator'[r].pc \in {"accepted", "giveback"}
           /\ creator'[r].pc = "giveback" => ~CanAppend(r) /\ logs' = logs
<1>1. LedgerKept /\ ConvsKept /\ creator[r].pc = "announce"
  BY Unchanged_ DEF AnnounceCreated
<1>2. "created" \in Bodies BY LifecycleConstants
<1>3. /\ logs' \in [Responses -> Log] /\ LogAppended(r, {"created"})
  BY <1>2, PushEffect DEF AnnounceCreated, LogAppended
<1>4. PICK pc \in {"accepted", "giveback"} :
        CreatorGoes(r, pc) /\ (pc = "giveback" => ~CanAppend(r) /\ logs' = logs)
  BY DEF AnnounceCreated, TryAppend, SameLogs
<1>5. pc \in Answered BY DEF Answered
<1>6. /\ creator' \in [Responses -> Creators]
      /\ creator'[r].pc = pc /\ OnlyCreator(r)
      /\ engine' = engine /\ cleaner' = cleaner
      /\ deleter' = deleter /\ crashes' = crashes
      /\ \A s \in Responses :
            /\ Anchored(creator'[s].pc) => HasConv(s)
            /\ cleaner'[s].kind = "reap" => cleaner'[s].pc # "read"
  BY <1>4, <1>5, AnsweredTypes
<1>7. TypeOK' BY <1>1, <1>3, <1>6 DEF TypeOK, LedgerKept, ConvsKept, Anchored
<1> QED BY <1>1, <1>3, <1>4, <1>6, <1>7

LEMMA GiveBackStep ==
    ASSUME TypeOK, NEW r \in Responses, GiveBack(r)
    PROVE  /\ TypeOK' /\ LedgerKept /\ logs' = logs /\ engine' = engine /\ cleaner' = cleaner
           /\ creator[r].pc = "giveback" /\ creator'[r].pc = "refused" /\ OnlyCreator(r)
           /\ MarksOnly(ConvOf[r], Event("turn_completed", r))
<1>1. LedgerKept /\ logs' = logs /\ creator[r].pc = "giveback"
  BY Unchanged_ DEF GiveBack
<1>2. MarksOnly(ConvOf[r], Event("turn_completed", r)) BY ReleaseEffect DEF GiveBack
<1>3. "refused" \in Answered BY DEF Answered
<1>4. /\ creator' \in [Responses -> Creators]
      /\ creator'[r].pc = "refused" /\ OnlyCreator(r)
      /\ engine' = engine /\ cleaner' = cleaner
      /\ deleter' = deleter /\ crashes' = crashes
      /\ \A s \in Responses :
            /\ Anchored(creator'[s].pc) => HasConv(s)
            /\ cleaner'[s].kind = "reap" => cleaner'[s].pc # "read"
  BY <1>3, AnsweredTypes DEF GiveBack
<1>5. TypeOK' BY <1>1, <1>2, <1>4 DEF TypeOK, LedgerKept, MarksOnly, Anchored
<1> QED BY <1>1, <1>2, <1>4, <1>5

\* A poll that finds nothing, a heartbeat and the degrade.
LEMMA AroundStep ==
    ASSUME TypeOK, PollNothing \/ Degrade \/ \E r \in Responses : Heartbeat(r)
    PROVE  /\ TypeOK' /\ records' = records /\ idem' = idem
           /\ logs' = logs /\ ConvsKept
           /\ creator' = creator /\ engine' = engine /\ cleaner' = cleaner
           /\ readOnly' = readOnly \/ Degradable
<1>1. /\ records' = records /\ idem' = idem /\ logs' = logs /\ ConvsKept
      /\ UNCHANGED <<procs, crashes>>
  BY Unchanged_ DEF PollNothing, Heartbeat, Degrade, LedgerClaimNothing, LedgerHeartbeat,
                    SetReadOnly
<1>2. queued' \in Seq(Responses)
  <2>1. queued' = <<>> \/ queued' = queued
    BY DEF PollNothing, Heartbeat, Degrade, LedgerClaimNothing, LedgerHeartbeat, SetReadOnly
  <2>2. <<>> \in Seq(Responses) /\ queued \in Seq(Responses) BY DEF TypeOK
  <2> QED BY <2>1, <2>2
<1>3. readOnly' = readOnly \/ (Degradable /\ readOnly' = ~readOnly)
  BY DEF PollNothing, Heartbeat, Degrade, LedgerClaimNothing, LedgerHeartbeat, SetReadOnly
<1>4. readOnly' \in BOOLEAN BY <1>3 DEF TypeOK
<1>5. creator' = creator /\ engine' = engine /\ cleaner' = cleaner /\ deleter' = deleter
      /\ crashes' = crashes
  BY <1>1 DEF procs
<1> QED BY <1>1, <1>2, <1>3, <1>4, <1>5 DEF TypeOK, ConvsKept

----------------------------------------------------------------------------
(* The steps of a run.                                                     *)

LEMMA ClaimStep ==
    ASSUME TypeOK, NEW r \in Responses, LedgerLink(r), Claim(r)
    PROVE  /\ TypeOK' /\ OnlyRecord(r) /\ idem' = idem /\ readOnly' = readOnly
           /\ logs' = logs /\ ConvsKept /\ creator' = creator /\ cleaner' = cleaner
           /\ records[r].status = "queued" /\ records[r].attempt = 0 /\ engine[r].pc = "idle"
           /\ records'[r].status = "in_progress" /\ records'[r].attempt = 1
           /\ engine'[r].pc = "announce" /\ OnlyEngine(r)
<1>1. logs' = logs /\ ConvsKept BY Unchanged_ DEF Claim
<1>2. /\ records' \in [Responses -> Record] /\ OnlyRecord(r)
      /\ records[r].status = "queued"
      /\ records'[r].status = "in_progress" /\ records'[r].attempt = 1
      /\ queued' \in Seq(Responses) /\ idem' = idem /\ readOnly' = readOnly
  BY ClaimEffect DEF Claim
<1>3. "announce" \in Working BY DEF Working
<1>4. /\ engine' \in [Responses -> Engines] /\ engine'[r].pc = "announce" /\ OnlyEngine(r)
      /\ creator' = creator /\ cleaner' = cleaner /\ deleter' = deleter /\ crashes' = crashes
  BY <1>3, EngineMoved DEF Claim, OnlyEngine
<1>5. records[r].attempt = 0 /\ engine[r].pc = "idle" BY <1>2 DEF LedgerLink, Started
<1>6. TypeOK' BY <1>1, <1>2, <1>4 DEF TypeOK, ConvsKept
<1> QED BY <1>1, <1>2, <1>4, <1>5, <1>6

\* A run the ledger has not seen the end of: it changes its own place, appends
\* to its own stream, and nothing else.
StillWorking(r) ==
    /\ LedgerKept /\ ConvsKept /\ creator' = creator /\ cleaner' = cleaner
    /\ LogAppended(r, {"in_progress", "delta"}) /\ OnlyEngine(r)
    /\ engine[r].pc \in Working /\ engine'[r].pc \in Working \cup {"done"}

LEMMA SameLogAppended ==
    ASSUME NEW r, NEW bodies, logs' = logs
    PROVE  LogAppended(r, bodies)
BY DEF LogAppended, OnlyLog

LEMMA WorkingGoes ==
    ASSUME TypeOK, NEW r \in Responses, NEW pc \in Working \cup {"done"}, EngineGoes(r, pc)
    PROVE  /\ engine' \in [Responses -> Engines] /\ OnlyEngine(r)
           /\ engine'[r].pc \in Working \cup {"done"}
           /\ creator' = creator /\ cleaner' = cleaner /\ deleter' = deleter
           /\ crashes' = crashes
<1>1. pc \in Working \cup Settling \cup {"idle", "done", "dead"} OBVIOUS
<1> QED BY <1>1, EngineMoved DEF OnlyEngine

LEMMA WorkingStep ==
    ASSUME TypeOK, NEW r \in Responses,
           \/ AnnounceFence(r) \/ AnnouncePush(r) \/ ReadContext(r) \/ Running_(r)
           \/ EmitPush(r) \/ ProbeFires(r)
    PROVE  TypeOK' /\ StillWorking(r)
<1> DEFINE Goes(pc) == EngineGoes(r, pc)
<1>0. /\ {"announcing", "context", "run", "emitting", "complete", "fail"} \subseteq Working
      /\ {"announce", "announcing", "context", "run", "emitting"} \subseteq Working
  BY DEF Working
<1>1. SUFFICES ASSUME LedgerKept, ConvsKept, logs' \in [Responses -> Log],
                      LogAppended(r, {"in_progress", "delta"}), engine[r].pc \in Working,
                      engine' \in [Responses -> Engines], OnlyEngine(r),
                      engine'[r].pc \in Working \cup {"done"},
                      creator' = creator, cleaner' = cleaner, deleter' = deleter,
                      crashes' = crashes
               PROVE  TypeOK' /\ StillWorking(r)
  <2>0. logs \in [Responses -> Log] /\ "in_progress" \in Bodies /\ "delta" \in Bodies
    BY LifecycleConstants DEF TypeOK
  <2>1. CASE AnnounceFence(r)
    <3>1. LedgerKept /\ ConvsKept /\ logs' = logs BY <2>1, Unchanged_ DEF AnnounceFence
    <3>2. engine[r].pc = "announce" /\ (Goes("announcing") \/ Goes("context"))
      BY <2>1 DEF AnnounceFence
    <3> QED BY <1>0, <1>1, <2>0, <3>1, <3>2, WorkingGoes, SameLogAppended
  <2>2. CASE AnnouncePush(r)
    <3>1. LedgerKept /\ ConvsKept BY <2>2, Unchanged_ DEF AnnouncePush
    <3>2. engine[r].pc = "announcing" /\ Goes("context") BY <2>2 DEF AnnouncePush
    <3>3. logs' \in [Responses -> Log] /\ LogAppended(r, {"in_progress", "delta"})
      BY <2>0, <2>2, PushEffect DEF AnnouncePush, LogAppended
    <3> QED BY <1>0, <1>1, <3>1, <3>2, <3>3, WorkingGoes
  <2>3. CASE ReadContext(r)
    <3>1. LedgerKept /\ ConvsKept /\ logs' = logs BY <2>3, Unchanged_ DEF ReadContext
    <3>2. engine[r].pc = "context" /\ (Goes("fail") \/ Goes("run"))
      BY <2>3 DEF ReadContext
    <3> QED BY <1>0, <1>1, <2>0, <3>1, <3>2, WorkingGoes, SameLogAppended
  <2>4. CASE EmitFence(r)
    <3>1. LedgerKept /\ ConvsKept /\ logs' = logs BY <2>4, Unchanged_ DEF EmitFence
    <3>2. engine[r].pc = "run" /\ engine[r].emitted < MaxDeltas BY <2>4 DEF EmitFence
    <3> DEFINE p == CASE FenceOutcome(r, Attempt) = "ok" -> "emitting"
                      [] FenceOutcome(r, Attempt) = "stale_attempt" -> "done"
                      [] OTHER -> "fail"
               n == engine[r].emitted + 1
               w == [engine[r] EXCEPT !.emitted = n, !.pc = p]
    <3>3. p \in {"emitting", "done", "fail"} OBVIOUS
    <3>4. n \in 0..MaxDeltas BY <3>2, EngineFields, LifecycleConstants
    <3>5. engine \in [Responses -> Engines] /\ engine[r] \in Engines BY DEF TypeOK
    <3>6. engine' = [engine EXCEPT ![r] = w] BY <2>4, <3>5 DEF EmitFence
    <3> HIDE DEF p, n
    <3>7. w \in Engines /\ w.pc = p BY <1>0, <3>3, <3>4, <3>5 DEF Engines
    <3> HIDE DEF w
    <3>8. engine' \in [Responses -> Engines] /\ OnlyEngine(r) /\ engine'[r].pc = p
      BY <3>5, <3>6, <3>7 DEF OnlyEngine
    <3>9. creator' = creator /\ cleaner' = cleaner /\ deleter' = deleter
          /\ crashes' = crashes
      BY <2>4 DEF EmitFence
    <3> QED BY <1>0, <1>1, <2>0, <3>1, <3>2, <3>3, <3>8, <3>9, SameLogAppended
  <2>5. CASE EmitPush(r)
    <3>1. LedgerKept /\ ConvsKept BY <2>5, Unchanged_ DEF EmitPush
    <3>2. engine[r].pc = "emitting" /\ (Goes("run") \/ Goes("fail")) BY <2>5 DEF EmitPush
    <3>3. logs' \in [Responses -> Log] /\ LogAppended(r, {"in_progress", "delta"})
      BY <2>0, <2>5, PushEffect DEF EmitPush, LogAppended
    <3> QED BY <1>0, <1>1, <3>1, <3>2, <3>3, WorkingGoes
  <2>6. CASE ProbeFires(r)
    <3>1. LedgerKept /\ ConvsKept /\ logs' = logs BY <2>6, Unchanged_ DEF ProbeFires
    <3>2. engine[r].pc = "run" /\ Goes("done") BY <2>6 DEF ProbeFires
    <3> QED BY <1>0, <1>1, <2>0, <3>1, <3>2, WorkingGoes, SameLogAppended
  <2>7. CASE RunnerEnds(r)
    <3>1. LedgerKept /\ ConvsKept /\ logs' = logs /\ engine[r].pc = "run"
      BY <2>7, Unchanged_ DEF RunnerEnds
    <3>2. creator' = creator /\ cleaner' = cleaner /\ deleter' = deleter
          /\ crashes' = crashes
      BY <2>7 DEF RunnerEnds
    <3>3. CASE engine' = [engine EXCEPT ![r].pc = "fail"]
      <4>1. Goes("fail") BY <3>2, <3>3 DEF EngineGoes
      <4> QED BY <1>0, <1>1, <2>0, <3>1, <4>1, WorkingGoes, SameLogAppended
    <3>4. CASE \E status \in RunOutcomes :
                 engine' = [engine EXCEPT ![r].pc = "complete", ![r].status = status]
      <4>1. PICK status \in RunOutcomes :
                 engine' = [engine EXCEPT ![r].pc = "complete", ![r].status = status]
        BY <3>4
      <4>2. status \in TerminalBodies BY LifecycleConstants
      <4>3. engine \in [Responses -> Engines] /\ engine[r] \in Engines BY DEF TypeOK
      <4> DEFINE w == [engine[r] EXCEPT !.pc = "complete", !.status = status]
      <4>4. engine' = [engine EXCEPT ![r] = w] BY <4>1, <4>3
      <4>5. w \in Engines /\ w.pc = "complete" BY <1>0, <4>2, <4>3 DEF Engines
      <4> HIDE DEF w
      <4>6. engine' \in [Responses -> Engines] /\ OnlyEngine(r)
            /\ engine'[r].pc = "complete"
        BY <4>3, <4>4, <4>5 DEF OnlyEngine
      <4> QED BY <1>0, <1>1, <2>0, <3>1, <3>2, <4>6, SameLogAppended
    <3> QED BY <2>7, <3>3, <3>4 DEF RunnerEnds
  <2> QED BY <2>1, <2>2, <2>3, <2>4, <2>5, <2>6, <2>7 DEF Running_
<1>2. TypeOK' BY <1>1 DEF TypeOK, LedgerKept, ConvsKept
<1> QED BY <1>1, <1>2 DEF StillWorking

LEMMA ConcludeStep ==
    ASSUME TypeOK, NEW r \in Responses, Conclude(r)
    PROVE  \/ TypeOK' /\ StillWorking(r)
           \/ /\ TypeOK' /\ OnlyRecord(r) /\ idem' = idem /\ readOnly' = readOnly
              /\ logs' = logs /\ ConvsKept /\ creator' = creator /\ cleaner' = cleaner
              /\ engine[r].pc \in {"complete", "fail"} /\ OnlyEngine(r)
              /\ records[r].status = "in_progress"
              /\ records'[r].status \in TerminalBodies
              /\ engine'[r].status = records'[r].status
              /\ engine'[r].pc = IF Archivable(r) THEN "archive" ELSE "release"
              /\ engine'[r].emitted = engine[r].emitted
              /\ LedgerComplete(r, Attempt, EndStatus(r), engine[r].emitted)
<1>1. logs' = logs /\ ConvsKept /\ engine[r].pc \in {"complete", "fail"}
  BY Unchanged_ DEF Conclude
<1>2. CASE EngineGoes(r, "done") /\ SameLedger
  <2>1. LedgerKept BY <1>2, Unchanged_
  <2>2. /\ engine' \in [Responses -> Engines] /\ OnlyEngine(r)
        /\ engine'[r].pc \in Working \cup {"done"}
        /\ creator' = creator /\ cleaner' = cleaner /\ deleter' = deleter
        /\ crashes' = crashes
    BY <1>2, WorkingGoes
  <2>3. LogAppended(r, {"in_progress", "delta"}) BY <1>1, SameLogAppended
  <2>4. engine[r].pc \in Working BY <1>1 DEF Working
  <2>5. TypeOK' BY <1>1, <2>1, <2>2 DEF TypeOK, LedgerKept, ConvsKept
  <2> QED BY <1>1, <2>1, <2>2, <2>3, <2>4, <2>5 DEF StillWorking
<1>3. CASE /\ LedgerComplete(r, Attempt, EndStatus(r), engine[r].emitted)
           /\ Concluded(r, EndStatus(r), IF Archivable(r) THEN "archive" ELSE "release")
  <2> DEFINE status == EndStatus(r)
             pc == IF Archivable(r) THEN "archive" ELSE "release"
             b == r \in Stored /\ ~HasConv(r)
             w == [engine[r] EXCEPT !.status = status, !.pc = pc, !.committed = b]
  <2>1. engine \in [Responses -> Engines] /\ engine[r] \in Engines BY DEF TypeOK
  <2>2. status \in TerminalBodies
    BY EngineFields, LifecycleConstants DEF EndStatus
  <2>3. engine[r].emitted \in Usages BY EngineFields, LifecycleConstants
  <2>4. /\ records' \in [Responses -> Record] /\ OnlyRecord(r)
        /\ records[r].status = "in_progress" /\ records'[r].status = status
        /\ queued' = queued /\ idem' = idem /\ readOnly' = readOnly
    <3> HIDE DEF status
    <3> QED BY <1>3, <2>3, CompleteEffect DEF status
  <2>5. b \in BOOLEAN OBVIOUS
  <2>6. pc \in Settling BY DEF Settling
  <2>7. /\ engine' = [engine EXCEPT ![r] = w]
        /\ creator' = creator /\ cleaner' = cleaner /\ deleter' = deleter
        /\ crashes' = crashes
    BY <1>3, <2>1 DEF Concluded
  <2> HIDE DEF status, pc, b
  <2>8. /\ w \in Engines /\ w.status = status /\ w.pc = pc
        /\ w.emitted = engine[r].emitted
    BY <2>1, <2>2, <2>5, <2>6 DEF Engines
  <2> HIDE DEF w
  <2>9. engine' \in [Responses -> Engines] /\ OnlyEngine(r) /\ engine'[r] = w
    BY <2>1, <2>7, <2>8 DEF OnlyEngine
  <2>10. TypeOK' BY <1>1, <2>4, <2>7, <2>9 DEF TypeOK, ConvsKept
  <2> QED BY <1>1, <1>3, <2>2, <2>4, <2>7, <2>8, <2>9, <2>10 DEF pc
<1> QED BY <1>2, <1>3 DEF Conclude

\* The steps of a run whose end the ledger took.
LEMMA ArchiveTurnStep ==
    ASSUME TypeOK, NEW r \in Responses, ArchiveTurn(r)
    PROVE  /\ TypeOK' /\ LedgerKept /\ logs' = logs /\ creator' = creator /\ cleaner' = cleaner
           /\ engine[r].pc = "archive" /\ OnlyEngine(r)
           /\ engine'[r].pc = IF TurnStored(r) /\ engine[r].status # "failed"
                              THEN "advance" ELSE "release"
           /\ engine'[r].status = engine[r].status /\ engine'[r].emitted = engine[r].emitted
           /\ unavailable' = unavailable /\ OnlyConv(ConvOf[r])
           /\ ConvOf[r] \in Conversations =>
                 /\ TurnAdded(convs[ConvOf[r]], convs'[ConvOf[r]], Turn(r, engine[r].emitted))
                 /\ TurnStored(r) => Archived(convs'[ConvOf[r]], r)
<1>1. LedgerKept /\ logs' = logs /\ engine[r].pc = "archive"
  BY Unchanged_ DEF ArchiveTurn
<1>2. engine[r].emitted \in Nat BY EngineFields, LifecycleConstants
<1>3. /\ convs' \in [Conversations -> CountedConv] /\ unavailable' = unavailable
      /\ OnlyConv(ConvOf[r])
      /\ ConvOf[r] \in Conversations =>
            /\ TurnAdded(convs[ConvOf[r]], convs'[ConvOf[r]], Turn(r, engine[r].emitted))
            /\ TurnStored(r) => Archived(convs'[ConvOf[r]], r)
  BY <1>2, ArchiveEffect DEF ArchiveTurn
<1> DEFINE b == TurnStored(r)
           pc == IF TurnStored(r) /\ engine[r].status # "failed" THEN "advance" ELSE "release"
           w == [engine[r] EXCEPT !.committed = b, !.pc = pc]
<1>4. engine \in [Responses -> Engines] /\ engine[r] \in Engines BY DEF TypeOK
<1>5. b \in BOOLEAN BY DEF TurnStored
<1>6. pc \in Settling BY DEF Settling
<1>7. /\ engine' = [engine EXCEPT ![r] = w] /\ creator' = creator /\ cleaner' = cleaner
      /\ deleter' = deleter /\ crashes' = crashes
  BY <1>4 DEF ArchiveTurn, AfterArchive
<1> HIDE DEF b, pc
<1>8. /\ w \in Engines /\ w.pc = pc /\ w.status = engine[r].status
      /\ w.emitted = engine[r].emitted
  BY <1>4, <1>5, <1>6 DEF Engines
<1> HIDE DEF w
<1>9. engine' \in [Responses -> Engines] /\ OnlyEngine(r) /\ engine'[r] = w
  BY <1>4, <1>7, <1>8 DEF OnlyEngine
<1>10. TypeOK' BY <1>1, <1>3, <1>7, <1>9 DEF TypeOK, LedgerKept
<1> QED BY <1>1, <1>3, <1>7, <1>8, <1>9, <1>10 DEF pc

LEMMA SettlingGoes ==
    ASSUME TypeOK, NEW r \in Responses, NEW pc \in Settling \cup {"done"}, EngineGoes(r, pc)
    PROVE  /\ engine' \in [Responses -> Engines] /\ OnlyEngine(r)
           /\ engine'[r].pc = pc /\ engine'[r].status = engine[r].status
           /\ engine'[r].emitted = engine[r].emitted
           /\ creator' = creator /\ cleaner' = cleaner /\ deleter' = deleter
           /\ crashes' = crashes
<1>1. pc \in Working \cup Settling \cup {"idle", "done", "dead"} OBVIOUS
<1> QED BY <1>1, EngineMoved DEF OnlyEngine

LEMMA AdvanceTailStep ==
    ASSUME TypeOK, NEW r \in Responses, AdvanceTail(r)
    PROVE  /\ TypeOK' /\ LedgerKept /\ logs' = logs /\ creator' = creator /\ cleaner' = cleaner
           /\ engine[r].pc = "advance" /\ OnlyEngine(r) /\ engine'[r].pc = "release"
           /\ engine'[r].status = engine[r].status /\ engine'[r].emitted = engine[r].emitted
           /\ unavailable' = unavailable /\ OnlyConv(ConvOf[r])
           /\ ConvOf[r] \in Conversations =>
                 LET old == convs[ConvOf[r]]
                     new == convs'[ConvOf[r]]
                 IN  /\ new.live = old.live /\ new.tenant = old.tenant /\ new.turns = old.turns
                     /\ new.events = old.events
                     /\ \/ new.tail = old.tail
                        \/ new.tail = r /\ old.live
<1>1. LedgerKept /\ logs' = logs /\ engine[r].pc = "advance"
  BY Unchanged_ DEF AdvanceTail
<1>2. "release" \in Settling BY DEF Settling
<1>3. /\ engine' \in [Responses -> Engines] /\ OnlyEngine(r)
      /\ engine'[r].pc = "release" /\ engine'[r].status = engine[r].status
      /\ engine'[r].emitted = engine[r].emitted
      /\ creator' = creator /\ cleaner' = cleaner /\ deleter' = deleter
      /\ crashes' = crashes
  BY <1>2, SettlingGoes DEF AdvanceTail
<1>4. /\ convs' \in [Conversations -> CountedConv] /\ unavailable' = unavailable
      /\ OnlyConv(ConvOf[r])
      /\ ConvOf[r] \in Conversations =>
            LET old == convs[ConvOf[r]]
                new == convs'[ConvOf[r]]
            IN  /\ new.live = old.live /\ new.tenant = old.tenant /\ new.turns = old.turns
                /\ new.events = old.events
                /\ \/ new.tail = old.tail
                   \/ new.tail = r /\ old.live
  BY AdvanceEffect DEF AdvanceTail
<1>5. TypeOK' BY <1>1, <1>3, <1>4 DEF TypeOK, LedgerKept
<1> QED BY <1>1, <1>3, <1>4, <1>5

LEMMA SettleMarkerStep ==
    ASSUME TypeOK, NEW r \in Responses, SettleMarker(r)
    PROVE  /\ TypeOK' /\ LedgerKept /\ logs' = logs /\ creator' = creator /\ cleaner' = cleaner
           /\ engine[r].pc = "release" /\ OnlyEngine(r)
           /\ engine'[r].pc \in {"done", "terminal"}
           /\ engine'[r].status = engine[r].status /\ engine'[r].emitted = engine[r].emitted
           /\ MarksOnly(ConvOf[r], Event("turn_completed", r))
<1>1. LedgerKept /\ logs' = logs /\ engine[r].pc = "release"
  BY Unchanged_ DEF SettleMarker
<1>2. PICK pc \in {"done", "terminal"} : EngineGoes(r, pc) BY DEF SettleMarker
<1>3. pc \in Settling \cup {"done"} BY DEF Settling
<1>4. /\ engine' \in [Responses -> Engines] /\ OnlyEngine(r)
      /\ engine'[r].pc = pc /\ engine'[r].status = engine[r].status
      /\ engine'[r].emitted = engine[r].emitted
      /\ creator' = creator /\ cleaner' = cleaner /\ deleter' = deleter
      /\ crashes' = crashes
  BY <1>2, <1>3, SettlingGoes
<1>5. MarksOnly(ConvOf[r], Event("turn_completed", r)) BY ReleaseEffect DEF SettleMarker
<1>6. TypeOK' BY <1>1, <1>4, <1>5 DEF TypeOK, LedgerKept, MarksOnly
<1> QED BY <1>1, <1>2, <1>4, <1>5, <1>6

LEMMA EndStreamStep ==
    ASSUME TypeOK, NEW r \in Responses, EndStream(r)
    PROVE  /\ TypeOK' /\ LedgerKept /\ ConvsKept /\ creator' = creator /\ cleaner' = cleaner
           /\ engine[r].pc = "terminal" /\ OnlyEngine(r) /\ engine'[r].pc = "close"
           /\ engine'[r].status = engine[r].status /\ engine'[r].emitted = engine[r].emitted
           /\ LogAppended(r, {engine[r].status})
<1>1. LedgerKept /\ ConvsKept /\ engine[r].pc = "terminal"
  BY Unchanged_ DEF EndStream
<1>2. "close" \in Settling BY DEF Settling
<1>3. /\ engine' \in [Responses -> Engines] /\ OnlyEngine(r)
      /\ engine'[r].pc = "close" /\ engine'[r].status = engine[r].status
      /\ engine'[r].emitted = engine[r].emitted
      /\ creator' = creator /\ cleaner' = cleaner /\ deleter' = deleter
      /\ crashes' = crashes
  BY <1>2, SettlingGoes DEF EndStream
<1>4. engine[r].status \in Bodies BY EngineFields, EventLogConstants
<1>5. logs' \in [Responses -> Log] /\ LogAppended(r, {engine[r].status})
  BY <1>4, PushEffect DEF EndStream, LogAppended
<1>6. TypeOK' BY <1>1, <1>3, <1>5 DEF TypeOK, LedgerKept, ConvsKept
<1> QED BY <1>1, <1>3, <1>5, <1>6

\* A log whose events stay as they are.
RingKept(r) ==
    OnlyLog(r) /\ logs'[r].ring = logs[r].ring /\ logs'[r].swept = logs[r].swept

LEMMA CloseStreamStep ==
    ASSUME TypeOK, NEW r \in Responses, CloseStream(r)
    PROVE  /\ TypeOK' /\ LedgerKept /\ ConvsKept /\ creator' = creator /\ cleaner' = cleaner
           /\ engine[r].pc = "close" /\ OnlyEngine(r) /\ engine'[r].pc = "done"
           /\ engine'[r].status = engine[r].status /\ engine'[r].emitted = engine[r].emitted
           /\ RingKept(r)
<1>1. LedgerKept /\ ConvsKept /\ engine[r].pc = "close"
  BY Unchanged_ DEF CloseStream
<1>2. /\ engine' \in [Responses -> Engines] /\ OnlyEngine(r)
      /\ engine'[r].pc = "done" /\ engine'[r].status = engine[r].status
      /\ engine'[r].emitted = engine[r].emitted
      /\ creator' = creator /\ cleaner' = cleaner /\ deleter' = deleter
      /\ crashes' = crashes
  BY SettlingGoes DEF CloseStream
<1>3. engine[r].age \in 0..TombstoneAfter BY EngineFields
<1>4. logs' \in [Responses -> Log] /\ RingKept(r)
  BY <1>3, CloseEffect DEF CloseStream, RingKept
<1>5. TypeOK' BY <1>1, <1>2, <1>4 DEF TypeOK, LedgerKept, ConvsKept
<1> QED BY <1>1, <1>2, <1>4, <1>5

----------------------------------------------------------------------------
(* The steps of a cancel and of the sweeper.                               *)

LEMMA ThenFacts ==
    /\ CancelThen["read"] = "replay" /\ CancelThen["archive"] = "release"
    /\ CancelThen["release"] = "terminal" /\ CancelThen["terminal"] = "close"
    /\ CancelThen["close"] = "done"
    /\ ReapThen["terminal"] = "close" /\ ReapThen["close"] = "replay"
    /\ ReapThen["archive"] = "release" /\ ReapThen["release"] = "done"
BY DEF CancelThen, ReapThen

LEMMA CleanerFields ==
    ASSUME TypeOK, NEW r \in Responses
    PROVE  /\ cleaner \in [Responses -> Cleaners] /\ cleaner[r] \in Cleaners
           /\ cleaner[r].pc \in CleanerSteps \cup {"idle", "done", "dead"}
           /\ cleaner[r].kind \in {"cancel", "reap"}
           /\ cleaner[r].output \in Nat /\ cleaner[r].age \in 0..TombstoneAfter
           /\ cleaner[r].kind = "reap" => cleaner[r].pc # "read"
<1>1. cleaner \in [Responses -> Cleaners] BY DEF TypeOK
<1>2. cleaner[r] \in Cleaners BY <1>1
<1>3. cleaner[r].kind = "reap" => cleaner[r].pc # "read" BY DEF TypeOK
<1> QED BY <1>1, <1>2, <1>3 DEF Cleaners

LEMMA EndingFields ==
    ASSUME NEW pc \in CleanerSteps, NEW kind \in {"cancel", "reap"}
    PROVE  /\ Ending(pc, kind) \in Cleaners
           /\ Ending(pc, kind).pc = pc /\ Ending(pc, kind).kind = kind
<1>1. 0 \in 0..TombstoneAfter BY DeadlineIsNat
<1> QED BY <1>1 DEF Ending, Cleaners

LEMMA CancelStep ==
    ASSUME TypeOK, NEW r \in Responses, LedgerLink(r), Cancel(r)
    PROVE  /\ TypeOK' /\ OnlyRecord(r) /\ idem' = idem /\ readOnly' = readOnly
           /\ logs' = logs /\ ConvsKept /\ creator' = creator /\ engine' = engine
           /\ records[r].status \in InFlight /\ records'[r].status = "cancelled"
           /\ cleaner'[r].pc = "read" /\ cleaner'[r].kind = "cancel" /\ OnlyCleaner(r)
           /\ LedgerCancel(r, Owner)
<1>1. /\ logs' = logs /\ ConvsKept /\ creator' = creator /\ engine' = engine
      /\ deleter' = deleter /\ crashes' = crashes /\ LedgerCancel(r, Owner)
  BY Unchanged_ DEF Cancel
<1>2. /\ records' \in [Responses -> Record] /\ OnlyRecord(r)
      /\ records[r].status \in InFlight /\ records'[r].status = "cancelled"
      /\ queued' = queued /\ idem' = idem /\ readOnly' = readOnly
  BY <1>1, CancelEffect
<1>3. "read" \in CleanerSteps BY DEF CleanerSteps
<1> DEFINE w == Ending("read", "cancel")
<1>4. w \in Cleaners /\ w.pc = "read" /\ w.kind = "cancel" BY <1>3, EndingFields
<1>5. cleaner' = [cleaner EXCEPT ![r] = w] BY DEF Cancel
<1> HIDE DEF w
<1>6. cleaner' \in [Responses -> Cleaners] /\ OnlyCleaner(r) /\ cleaner'[r] = w
  BY <1>4, <1>5, CleanerFields DEF OnlyCleaner
<1>7. \A s \in Responses : cleaner'[s].kind = "reap" => cleaner'[s].pc # "read"
  BY <1>4, <1>6, CleanerFields DEF OnlyCleaner
<1>8. TypeOK' BY <1>1, <1>2, <1>6, <1>7 DEF TypeOK, ConvsKept
<1> QED BY <1>1, <1>2, <1>4, <1>6, <1>8

LEMMA ReapStep ==
    ASSUME TypeOK, \A r \in Responses : LedgerLink(r), Reap
    PROVE  /\ TypeOK' /\ idem' = idem /\ readOnly' = readOnly
           /\ logs' = logs /\ ConvsKept /\ creator' = creator /\ engine' = engine
           /\ \A r \in Responses :
                IF r \in LostClaims
                THEN /\ records[r].status = "in_progress" /\ records'[r].status = "failed"
                     /\ cleaner'[r].pc = "terminal" /\ cleaner'[r].kind = "reap"
                ELSE records'[r] = records[r] /\ cleaner'[r] = cleaner[r]
<1>1. /\ logs' = logs /\ ConvsKept /\ creator' = creator /\ engine' = engine
      /\ deleter' = deleter /\ crashes' = crashes
  BY Unchanged_ DEF Reap
<1>2. /\ records' \in [Responses -> Record]
      /\ \A r \in Responses :
           IF r \in LostClaims
           THEN records[r].status = "in_progress" /\ records'[r].status = "failed"
           ELSE records'[r] = records[r]
      /\ queued' = queued /\ idem' = idem /\ readOnly' = readOnly
  BY ReapEffect DEF Reap
<1>3. "terminal" \in CleanerSteps BY DEF CleanerSteps
<1> DEFINE w == Ending("terminal", "reap")
<1>4. w \in Cleaners /\ w.pc = "terminal" /\ w.kind = "reap" BY <1>3, EndingFields
<1>5. cleaner' = [r \in Responses |-> IF r \in LostClaims THEN w ELSE cleaner[r]]
  BY DEF Reap
<1> HIDE DEF w
<1>6. cleaner' \in [Responses -> Cleaners] BY <1>4, <1>5, CleanerFields
<1>7. \A r \in Responses : cleaner'[r] = IF r \in LostClaims THEN w ELSE cleaner[r]
  BY <1>5
<1>8. \A r \in Responses : cleaner'[r].kind = "reap" => cleaner'[r].pc # "read"
  BY <1>4, <1>7, CleanerFields
<1>9. TypeOK' BY <1>1, <1>2, <1>6, <1>8 DEF TypeOK, ConvsKept
<1> QED BY <1>1, <1>2, <1>4, <1>7, <1>9

\* A cleaner at work, whose kind stays what it is.
LEMMA CleanerTypes ==
    ASSUME TypeOK, NEW r \in Responses,
           NEW pc \in (CleanerSteps \cup {"done"}) \ {"read"}, CleanerGoes(r, pc)
    PROVE  /\ cleaner' \in [Responses -> Cleaners] /\ OnlyCleaner(r)
           /\ cleaner'[r].pc = pc /\ cleaner'[r].kind = cleaner[r].kind
           /\ creator' = creator /\ engine' = engine /\ deleter' = deleter
           /\ crashes' = crashes
           /\ \A s \in Responses : cleaner'[s].kind = "reap" => cleaner'[s].pc # "read"
<1>1. pc \in CleanerSteps \cup {"idle", "done", "dead"} /\ pc # "read" OBVIOUS
<1>2. /\ cleaner' \in [Responses -> Cleaners] /\ OnlyCleaner(r)
      /\ cleaner'[r].pc = pc /\ cleaner'[r].kind = cleaner[r].kind
      /\ creator' = creator /\ engine' = engine /\ deleter' = deleter
      /\ crashes' = crashes
  BY <1>1, CleanerMoved DEF OnlyCleaner
<1>3. \A s \in Responses : cleaner'[s].kind = "reap" => cleaner'[s].pc # "read"
  BY <1>1, <1>2, CleanerFields DEF OnlyCleaner
<1> QED BY <1>2, <1>3

LEMMA DeltasAreCounted ==
    ASSUME TypeOK, NEW r \in Responses
    PROVE  DeltasIn(r) \in Nat
<1> DEFINE n == Len(logs[r].ring)
           S == {i \in 1..n : logs[r].ring[i].body = "delta"}
<1>1. logs[r] \in Log BY DEF TypeOK
<1>2. n \in Nat BY <1>1 DEF Log
<1> HIDE DEF n
<1>3. IsFiniteSet(1..n) BY <1>2, FS_Interval
<1>4. IsFiniteSet(S) BY <1>3, FS_Subset
<1> HIDE DEF S
<1>5. Cardinality(S) \in Nat BY <1>4, FS_CardinalityType
<1> QED BY <1>5 DEF S, n, DeltasIn

LEMMA ReadBackStep ==
    ASSUME TypeOK, NEW r \in Responses, ReadBack(r)
    PROVE  /\ TypeOK' /\ LedgerKept /\ logs' = logs /\ ConvsKept
           /\ creator' = creator /\ engine' = engine
           /\ cleaner[r].pc = "read" /\ cleaner[r].kind = "cancel" /\ OnlyCleaner(r)
           /\ cleaner'[r].kind = "cancel"
           /\ \/ cleaner'[r].pc \in {"release", "terminal"}
              \/ cleaner'[r].pc = "replay" /\ Archivable(r)
<1>1. LedgerKept /\ logs' = logs /\ ConvsKept /\ cleaner[r].pc = "read"
  BY Unchanged_ DEF ReadBack
<1>2. cleaner[r].kind = "cancel" BY <1>1, CleanerFields
<1>3. Then(r) = "replay" BY <1>1, <1>2, ThenFacts DEF Then
<1>4. PICK pc : /\ CleanerGoes(r, pc)
                /\ pc \in {"release", "terminal"} \/ (pc = "replay" /\ Archivable(r))
  BY <1>3 DEF ReadBack, SkipArchive
<1>5. pc \in (CleanerSteps \cup {"done"}) \ {"read"} BY <1>4 DEF CleanerSteps
<1>6. /\ cleaner' \in [Responses -> Cleaners] /\ OnlyCleaner(r)
      /\ cleaner'[r].pc = pc /\ cleaner'[r].kind = cleaner[r].kind
      /\ creator' = creator /\ engine' = engine /\ deleter' = deleter
      /\ crashes' = crashes
      /\ \A s \in Responses : cleaner'[s].kind = "reap" => cleaner'[s].pc # "read"
  BY <1>4, <1>5, CleanerTypes
<1>7. TypeOK' BY <1>1, <1>6 DEF TypeOK, LedgerKept, ConvsKept
<1> QED BY <1>1, <1>2, <1>4, <1>6, <1>7

LEMMA ReplayStep ==
    ASSUME TypeOK, NEW r \in Responses, Replay(r)
    PROVE  /\ TypeOK' /\ LedgerKept /\ logs' = logs /\ ConvsKept
           /\ creator' = creator /\ engine' = engine
           /\ cleaner[r].pc = "replay" /\ OnlyCleaner(r)
           /\ cleaner'[r].pc \in {"archive", "release"}
           /\ cleaner'[r].kind = cleaner[r].kind
<1>1. LedgerKept /\ logs' = logs /\ ConvsKept /\ cleaner[r].pc = "replay"
  BY Unchanged_ DEF Replay
<1>0. {"archive", "release"} \subseteq CleanerSteps BY DEF CleanerSteps
<1>2. CASE CleanerGoes(r, "release")
  <2>1. "release" \in (CleanerSteps \cup {"done"}) \ {"read"} BY <1>0
  <2>2. /\ cleaner' \in [Responses -> Cleaners] /\ OnlyCleaner(r)
        /\ cleaner'[r].pc = "release" /\ cleaner'[r].kind = cleaner[r].kind
        /\ creator' = creator /\ engine' = engine /\ deleter' = deleter
        /\ crashes' = crashes
        /\ \A s \in Responses : cleaner'[s].kind = "reap" => cleaner'[s].pc # "read"
    BY <1>2, <2>1, CleanerTypes
  <2>3. TypeOK' BY <1>1, <2>2 DEF TypeOK, LedgerKept, ConvsKept
  <2> QED BY <1>1, <2>2, <2>3
<1>3. CASE /\ cleaner' = [cleaner EXCEPT ![r].pc = "archive", ![r].output = DeltasIn(r)]
           /\ UNCHANGED <<creator, engine, deleter, crashes>>
  <2> DEFINE n == DeltasIn(r)
             w == [cleaner[r] EXCEPT !.pc = "archive", !.output = n]
  <2>1. n \in Nat BY DeltasAreCounted
  <2>2. cleaner' = [cleaner EXCEPT ![r] = w] BY <1>3, CleanerFields
  <2> HIDE DEF n
  <2>3. w \in Cleaners /\ w.pc = "archive" /\ w.kind = cleaner[r].kind
    BY <1>0, <2>1, CleanerFields DEF Cleaners
  <2> HIDE DEF w
  <2>4. cleaner' \in [Responses -> Cleaners] /\ OnlyCleaner(r) /\ cleaner'[r] = w
    BY <2>2, <2>3, CleanerFields DEF OnlyCleaner
  <2>5. \A s \in Responses : cleaner'[s].kind = "reap" => cleaner'[s].pc # "read"
    BY <2>3, <2>4, CleanerFields DEF OnlyCleaner
  <2>6. TypeOK' BY <1>1, <1>3, <2>4, <2>5 DEF TypeOK, LedgerKept, ConvsKept
  <2> QED BY <1>1, <1>3, <2>3, <2>4, <2>6
<1> QED BY <1>2, <1>3 DEF Replay

LEMMA ArchiveReplayedStep ==
    ASSUME TypeOK, NEW r \in Responses, ArchiveReplayed(r)
    PROVE  /\ TypeOK' /\ LedgerKept /\ logs' = logs /\ creator' = creator /\ engine' = engine
           /\ cleaner[r].pc = "archive" /\ OnlyCleaner(r) /\ cleaner'[r].pc = "release"
           /\ cleaner'[r].kind = cleaner[r].kind
           /\ cleaner[r].output \in Nat
           /\ unavailable' = unavailable /\ OnlyConv(ConvOf[r])
           /\ ConvOf[r] \in Conversations =>
                 TurnAdded(convs[ConvOf[r]], convs'[ConvOf[r]], Turn(r, cleaner[r].output))
<1>1. LedgerKept /\ logs' = logs /\ cleaner[r].pc = "archive"
  BY Unchanged_ DEF ArchiveReplayed
<1>2. Then(r) = "release" BY <1>1, CleanerFields, ThenFacts DEF Then
<1>3. CleanerGoes(r, "release") BY <1>2 DEF ArchiveReplayed
<1>4. "release" \in (CleanerSteps \cup {"done"}) \ {"read"} BY DEF CleanerSteps
<1>5. /\ cleaner' \in [Responses -> Cleaners] /\ OnlyCleaner(r)
      /\ cleaner'[r].pc = "release" /\ cleaner'[r].kind = cleaner[r].kind
      /\ creator' = creator /\ engine' = engine /\ deleter' = deleter
      /\ crashes' = crashes
      /\ \A s \in Responses : cleaner'[s].kind = "reap" => cleaner'[s].pc # "read"
  BY <1>3, <1>4, CleanerTypes
<1>6. cleaner[r].output \in Nat BY CleanerFields
<1>7. /\ convs' \in [Conversations -> CountedConv] /\ unavailable' = unavailable
      /\ OnlyConv(ConvOf[r])
      /\ ConvOf[r] \in Conversations =>
            TurnAdded(convs[ConvOf[r]], convs'[ConvOf[r]], Turn(r, cleaner[r].output))
  BY <1>6, ArchiveEffect DEF ArchiveReplayed
<1>8. TypeOK' BY <1>1, <1>5, <1>7 DEF TypeOK, LedgerKept
<1> QED BY <1>1, <1>5, <1>6, <1>7, <1>8

LEMMA ReleaseMarkerStep ==
    ASSUME TypeOK, NEW r \in Responses, ReleaseMarker(r)
    PROVE  /\ TypeOK' /\ LedgerKept /\ logs' = logs /\ creator' = creator /\ engine' = engine
           /\ cleaner[r].pc = "release" /\ OnlyCleaner(r)
           /\ cleaner'[r].kind = cleaner[r].kind
           /\ cleaner'[r].pc = IF cleaner[r].kind = "cancel" THEN "terminal" ELSE "done"
           /\ MarksOnly(ConvOf[r], Event("turn_completed", r))
<1>1. LedgerKept /\ logs' = logs /\ cleaner[r].pc = "release"
  BY Unchanged_ DEF ReleaseMarker
<1> DEFINE pc == IF cleaner[r].kind = "cancel" THEN "terminal" ELSE "done"
<1>2. Then(r) = pc BY <1>1, CleanerFields, ThenFacts DEF Then
<1>3. CleanerGoes(r, pc) BY <1>2 DEF ReleaseMarker
<1>4. pc \in (CleanerSteps \cup {"done"}) \ {"read"} BY DEF CleanerSteps
<1>5. /\ cleaner' \in [Responses -> Cleaners] /\ OnlyCleaner(r)
      /\ cleaner'[r].pc = pc /\ cleaner'[r].kind = cleaner[r].kind
      /\ creator' = creator /\ engine' = engine /\ deleter' = deleter
      /\ crashes' = crashes
      /\ \A s \in Responses : cleaner'[s].kind = "reap" => cleaner'[s].pc # "read"
  <2> HIDE DEF pc
  <2> QED BY <1>3, <1>4, CleanerTypes
<1>6. MarksOnly(ConvOf[r], Event("turn_completed", r)) BY ReleaseEffect DEF ReleaseMarker
<1> HIDE DEF pc
<1>7. TypeOK' BY <1>1, <1>5, <1>6 DEF TypeOK, LedgerKept, MarksOnly
<1> QED BY <1>1, <1>5, <1>6, <1>7 DEF pc

LEMMA AbortStreamStep ==
    ASSUME TypeOK, NEW r \in Responses, AbortStream(r)
    PROVE  /\ TypeOK' /\ LedgerKept /\ ConvsKept /\ creator' = creator /\ engine' = engine
           /\ cleaner[r].pc = "terminal" /\ OnlyCleaner(r) /\ cleaner'[r].pc = "close"
           /\ cleaner'[r].kind = cleaner[r].kind
           /\ LogAppended(r, {"failed"})
<1>1. LedgerKept /\ ConvsKept /\ cleaner[r].pc = "terminal"
  BY Unchanged_ DEF AbortStream
<1>2. Then(r) = "close" BY <1>1, CleanerFields, ThenFacts DEF Then
<1>3. CleanerGoes(r, "close") BY <1>2 DEF AbortStream
<1>4. "close" \in (CleanerSteps \cup {"done"}) \ {"read"} BY DEF CleanerSteps
<1>5. /\ cleaner' \in [Responses -> Cleaners] /\ OnlyCleaner(r)
      /\ cleaner'[r].pc = "close" /\ cleaner'[r].kind = cleaner[r].kind
      /\ creator' = creator /\ engine' = engine /\ deleter' = deleter
      /\ crashes' = crashes
      /\ \A s \in Responses : cleaner'[s].kind = "reap" => cleaner'[s].pc # "read"
  BY <1>3, <1>4, CleanerTypes
<1>6. "failed" \in Bodies BY LifecycleConstants, EventLogConstants
<1>7. logs' \in [Responses -> Log] /\ LogAppended(r, {"failed"})
  BY <1>6, PushEffect DEF AbortStream, LogAppended
<1>8. TypeOK' BY <1>1, <1>5, <1>7 DEF TypeOK, LedgerKept, ConvsKept
<1> QED BY <1>1, <1>5, <1>7, <1>8

LEMMA CloseAbortedStep ==
    ASSUME TypeOK, NEW r \in Responses, CloseAborted(r)
    PROVE  /\ TypeOK' /\ LedgerKept /\ ConvsKept /\ creator' = creator /\ engine' = engine
           /\ cleaner[r].pc = "close" /\ OnlyCleaner(r) /\ RingKept(r)
           /\ cleaner'[r].kind = cleaner[r].kind
           /\ \/ cleaner[r].kind = "cancel" /\ cleaner'[r].pc = "done"
              \/ /\ cleaner[r].kind = "reap"
                 /\ \/ cleaner'[r].pc = "release"
                    \/ cleaner'[r].pc = "replay" /\ Archivable(r)
<1>1. LedgerKept /\ ConvsKept /\ cleaner[r].pc = "close"
  BY Unchanged_ DEF CloseAborted
<1>2. Then(r) = IF cleaner[r].kind = "cancel" THEN "done" ELSE "replay"
  BY <1>1, CleanerFields, ThenFacts DEF Then
<1>3. PICK pc : /\ CleanerGoes(r, pc)
                /\ \/ cleaner[r].kind = "cancel" /\ pc = "done"
                   \/ /\ cleaner[r].kind = "reap"
                      /\ pc = "release" \/ (pc = "replay" /\ Archivable(r))
  BY <1>2, CleanerFields DEF CloseAborted, SkipArchive
<1>4. pc \in (CleanerSteps \cup {"done"}) \ {"read"} BY <1>3 DEF CleanerSteps
<1>5. /\ cleaner' \in [Responses -> Cleaners] /\ OnlyCleaner(r)
      /\ cleaner'[r].pc = pc /\ cleaner'[r].kind = cleaner[r].kind
      /\ creator' = creator /\ engine' = engine /\ deleter' = deleter
      /\ crashes' = crashes
      /\ \A s \in Responses : cleaner'[s].kind = "reap" => cleaner'[s].pc # "read"
  BY <1>3, <1>4, CleanerTypes
<1>6. cleaner[r].age \in 0..TombstoneAfter BY CleanerFields
<1>7. logs' \in [Responses -> Log] /\ RingKept(r)
  BY <1>6, CloseEffect DEF CloseAborted, RingKept
<1>8. TypeOK' BY <1>1, <1>5, <1>7 DEF TypeOK, LedgerKept, ConvsKept
<1> QED BY <1>1, <1>3, <1>5, <1>7, <1>8

LEMMA SweepStep ==
    ASSUME TypeOK, Sweep
    PROVE  /\ TypeOK' /\ LedgerKept /\ ConvsKept
           /\ creator' = creator /\ engine' = engine /\ cleaner' = cleaner
           /\ \A r \in Responses : logs'[r] = Swept(logs[r]) /\ logs[r] \in Log
<1>1. /\ LedgerKept /\ ConvsKept /\ creator' = creator /\ engine' = engine
      /\ cleaner' = cleaner /\ deleter' = deleter /\ crashes' = crashes
  BY Unchanged_ DEF Sweep, procs
<1>2. /\ logs' \in [Responses -> Log]
      /\ \A r \in Responses : logs'[r] = Swept(logs[r]) /\ logs[r] \in Log
  BY SweepEffect DEF Sweep
<1>3. TypeOK' BY <1>1, <1>2 DEF TypeOK, LedgerKept, ConvsKept
<1> QED BY <1>1, <1>2, <1>3

----------------------------------------------------------------------------
(* Deletes, the clock and crashes.                                         *)

LEMMA DeleteRecordStep ==
    ASSUME TypeOK, NEW r \in Responses, DeleteRecord(r)
    PROVE  /\ TypeOK' /\ idem' = idem /\ readOnly' = readOnly
           /\ logs' = logs /\ ConvsKept
           /\ creator' = creator /\ engine' = engine /\ cleaner' = cleaner
           /\ OnlyRecord(r)
           /\ records'[r] = records[r] \/ records'[r].status = "none"
           /\ LedgerDelete(r) \/ LedgerKept
<1>1. logs' = logs /\ ConvsKept BY Unchanged_ DEF DeleteRecord
<1>2. PICK pc \in {"remove", "removeagain"} : DeleterGoes(r, pc) BY DEF DeleteRecord
<1>3. pc \in Deleters BY DEF Deleters
<1>4. /\ deleter' \in [Responses -> Deleters]
      /\ creator' = creator /\ engine' = engine /\ cleaner' = cleaner /\ crashes' = crashes
  BY <1>2, <1>3, DeleterMoved
<1>5. CASE LedgerDelete(r)
  <2>1. /\ records' \in [Responses -> Record] /\ OnlyRecord(r)
        /\ records'[r].status = "none"
        /\ queued' = queued /\ idem' = idem /\ readOnly' = readOnly
    BY <1>5, DeleteEffect
  <2>2. TypeOK' BY <1>1, <1>4, <2>1 DEF TypeOK, ConvsKept
  <2> QED BY <1>1, <1>4, <1>5, <2>1, <2>2
<1>6. CASE SameLedger
  <2>1. LedgerKept BY <1>6, Unchanged_
  <2>2. TypeOK' BY <1>1, <1>4, <2>1 DEF TypeOK, LedgerKept, ConvsKept
  <2> QED BY <1>1, <1>4, <2>1, <2>2 DEF LedgerKept, OnlyRecord
<1> QED BY <1>5, <1>6 DEF DeleteRecord

LEMMA RemoveStreamStep ==
    ASSUME TypeOK, NEW r \in Responses, RemoveStream(r)
    PROVE  /\ TypeOK' /\ LedgerKept /\ ConvsKept
           /\ creator' = creator /\ engine' = engine /\ cleaner' = cleaner
           /\ OnlyLog(r) /\ logs'[r] \in {logs[r], NoLog}
<1>1. LedgerKept /\ ConvsKept BY Unchanged_ DEF RemoveStream
<1>2. PICK pc \in {"announce", "done"} : DeleterGoes(r, pc) BY DEF RemoveStream
<1>3. pc \in Deleters BY DEF Deleters
<1>4. /\ deleter' \in [Responses -> Deleters]
      /\ creator' = creator /\ engine' = engine /\ cleaner' = cleaner /\ crashes' = crashes
  BY <1>2, <1>3, DeleterMoved
<1>5. logs' \in [Responses -> Log] /\ OnlyLog(r) /\ logs'[r] \in {logs[r], NoLog}
  BY RemoveEffect DEF RemoveStream
<1>6. TypeOK' BY <1>1, <1>4, <1>5 DEF TypeOK, LedgerKept, ConvsKept
<1> QED BY <1>1, <1>4, <1>5, <1>6

LEMMA AnnounceDeletedStep ==
    ASSUME TypeOK, NEW r \in Responses, AnnounceDeleted(r)
    PROVE  /\ TypeOK' /\ LedgerKept /\ logs' = logs
           /\ creator' = creator /\ engine' = engine /\ cleaner' = cleaner
           /\ MarksOnly(ConvOf[r], Event("response_deleted", r))
<1>1. LedgerKept /\ logs' = logs BY Unchanged_ DEF AnnounceDeleted
<1>2. "done" \in Deleters BY DEF Deleters
<1>3. /\ deleter' \in [Responses -> Deleters]
      /\ creator' = creator /\ engine' = engine /\ cleaner' = cleaner /\ crashes' = crashes
  BY <1>2, DeleterMoved DEF AnnounceDeleted
<1>4. MarksOnly(ConvOf[r], Event("response_deleted", r))
  <2>1. SameConvs \/ AppendEvent(ConvOf[r], Owner, "response_deleted", r)
    BY DEF AnnounceDeleted
  <2> QED BY <2>1, SameMarks, EventEffect
<1>5. TypeOK' BY <1>1, <1>3, <1>4 DEF TypeOK, LedgerKept, MarksOnly
<1> QED BY <1>1, <1>3, <1>4, <1>5

LEMMA DropStep ==
    ASSUME TypeOK, NEW c \in Conversations, DropConversation(c)
    PROVE  /\ TypeOK' /\ LedgerKept /\ logs' = logs
           /\ creator' = creator /\ engine' = engine /\ cleaner' = cleaner
           /\ unavailable' = unavailable /\ OnlyConv(c) /\ convs'[c] = NoConv
<1>1. /\ LedgerKept /\ logs' = logs /\ creator' = creator /\ engine' = engine
      /\ cleaner' = cleaner /\ deleter' = deleter /\ crashes' = crashes
  BY Unchanged_ DEF DropConversation, procs
<1>2. /\ convs' \in [Conversations -> CountedConv] /\ unavailable' = unavailable
      /\ OnlyConv(c) /\ convs'[c] = NoConv
  BY DropEffect DEF DropConversation
<1>3. TypeOK' BY <1>1, <1>2 DEF TypeOK, LedgerKept
<1> QED BY <1>1, <1>2, <1>3

\* The clock only ages.
LEMMA TickStep ==
    ASSUME TypeOK, Tick
    PROVE  /\ TypeOK' /\ LedgerKept /\ ConvsKept /\ creator' = creator
           /\ \A r \in Responses :
                /\ logs'[r].ring = logs[r].ring /\ logs'[r].swept = logs[r].swept
                /\ logs'[r].closedFor # -1 => logs[r].closedFor # -1
                /\ engine'[r].pc = engine[r].pc /\ engine'[r].status = engine[r].status
                /\ engine'[r].emitted = engine[r].emitted
                /\ cleaner'[r].pc = cleaner[r].pc /\ cleaner'[r].kind = cleaner[r].kind
<1>1. /\ LedgerKept /\ ConvsKept /\ creator' = creator /\ deleter' = deleter
      /\ crashes' = crashes
  BY Unchanged_ DEF Tick, LedgerTick, LedgerKept
<1>2. /\ logs' \in [Responses -> Log]
      /\ \A r \in Responses :
           /\ logs'[r].ring = logs[r].ring /\ logs'[r].swept = logs[r].swept
           /\ logs'[r].closedFor # -1 => logs[r].closedFor # -1
  BY LogTickEffect DEF Tick
<1>3. \A age \in 0..TombstoneAfter : Older(age) \in 0..TombstoneAfter
  BY DeadlineIsNat DEF Older
<1> DEFINE d(r) == IF Serving(r) THEN Older(engine[r].age) ELSE engine[r].age
           v(r) == [engine[r] EXCEPT !.age = d(r)]
           f(r) == IF Ageing(r) THEN Older(cleaner[r].age) ELSE cleaner[r].age
           w(r) == [cleaner[r] EXCEPT !.age = f(r)]
<1>4. engine' = [r \in Responses |-> v(r)] /\ cleaner' = [r \in Responses |-> w(r)]
  BY DEF Tick
<1>5. ASSUME NEW r \in Responses
      PROVE  /\ v(r) \in Engines /\ v(r).pc = engine[r].pc /\ v(r).status = engine[r].status
             /\ v(r).emitted = engine[r].emitted
  <2>1. engine[r] \in Engines BY DEF TypeOK
  <2>2. d(r) \in 0..TombstoneAfter BY <1>3, EngineFields
  <2> HIDE DEF d
  <2> QED BY <2>1, <2>2 DEF Engines
<1>6. ASSUME NEW r \in Responses
      PROVE  w(r) \in Cleaners /\ w(r).pc = cleaner[r].pc /\ w(r).kind = cleaner[r].kind
  <2>1. cleaner[r] \in Cleaners BY CleanerFields
  <2>2. f(r) \in 0..TombstoneAfter BY <1>3, CleanerFields
  <2> HIDE DEF f
  <2> QED BY <2>1, <2>2 DEF Cleaners
<1> HIDE DEF v, w
<1>7. engine' \in [Responses -> Engines] /\ cleaner' \in [Responses -> Cleaners]
  BY <1>4, <1>5, <1>6
<1>8. \A r \in Responses : engine'[r] = v(r) /\ cleaner'[r] = w(r) BY <1>4
<1>9. \A r \in Responses : cleaner'[r].kind = "reap" => cleaner'[r].pc # "read"
  BY <1>6, <1>8, CleanerFields
<1>10. TypeOK' BY <1>1, <1>2, <1>7, <1>9 DEF TypeOK, LedgerKept, ConvsKept
<1> QED BY <1>1, <1>2, <1>5, <1>6, <1>8, <1>10

\* A process that dies leaves every store as it is.
LEMMA CrashStep ==
    ASSUME TypeOK, NEW r \in Responses, Crash(r)
    PROVE  /\ TypeOK' /\ LedgerKept /\ logs' = logs /\ ConvsKept
           /\ OnlyCreator(r) /\ OnlyEngine(r) /\ OnlyCleaner(r)
           /\ creator'[r] = creator[r] \/ creator'[r].pc = "dead"
           /\ engine'[r].status = engine[r].status /\ engine'[r].emitted = engine[r].emitted
           /\ \/ engine'[r].pc = engine[r].pc
              \/ engine'[r].pc = "dead" /\ Serving(r)
           /\ cleaner'[r].kind = cleaner[r].kind
           /\ \/ cleaner'[r].pc = cleaner[r].pc
              \/ cleaner'[r].pc = "dead" /\ cleaner[r].pc # "idle"
<1>1. LedgerKept /\ logs' = logs /\ ConvsKept
  BY DEF Crash, stores, ledgerVars, convVars, LedgerKept, ConvsKept
<1>2. crashes' \in Nat BY DEF Crash, TypeOK
<1>3. CASE creator' = [creator EXCEPT ![r].pc = "dead"] /\ UNCHANGED <<engine, cleaner, deleter>>
  <2> DEFINE w == [creator[r] EXCEPT !.pc = "dead"]
  <2>1. creator \in [Responses -> Creators] /\ creator[r] \in Creators BY DEF TypeOK
  <2>2. w \in Creators /\ w.pc = "dead" BY <2>1 DEF Creators, Answered
  <2>3. creator' = [creator EXCEPT ![r] = w] BY <1>3, <2>1
  <2> HIDE DEF w
  <2>4. creator' \in [Responses -> Creators] /\ OnlyCreator(r) /\ creator'[r] = w
    BY <2>1, <2>2, <2>3 DEF OnlyCreator
  <2>5. \A s \in Responses : Anchored(creator'[s].pc) => HasConv(s)
    BY <2>2, <2>4 DEF TypeOK, Anchored, OnlyCreator
  <2>6. TypeOK' BY <1>1, <1>2, <1>3, <2>4, <2>5 DEF TypeOK, LedgerKept, ConvsKept, Anchored
  <2> QED BY <1>1, <1>3, <2>2, <2>4, <2>6 DEF OnlyEngine, OnlyCleaner
<1>4. CASE /\ Serving(r) /\ engine' = [engine EXCEPT ![r].pc = "dead"]
           /\ UNCHANGED <<creator, cleaner, deleter>>
  <2> DEFINE w == [engine[r] EXCEPT !.pc = "dead"]
  <2>1. engine \in [Responses -> Engines] /\ engine[r] \in Engines BY DEF TypeOK
  <2>2. /\ w \in Engines /\ w.pc = "dead" /\ w.status = engine[r].status
        /\ w.emitted = engine[r].emitted
    BY <2>1 DEF Engines
  <2>3. engine' = [engine EXCEPT ![r] = w] BY <1>4, <2>1
  <2> HIDE DEF w
  <2>4. engine' \in [Responses -> Engines] /\ OnlyEngine(r) /\ engine'[r] = w
    BY <2>1, <2>2, <2>3 DEF OnlyEngine
  <2>5. TypeOK' BY <1>1, <1>2, <1>4, <2>4 DEF TypeOK, LedgerKept, ConvsKept
  <2> QED BY <1>1, <1>4, <2>2, <2>4, <2>5 DEF OnlyCreator, OnlyCleaner
<1>5. CASE /\ cleaner[r].pc # "idle" /\ cleaner' = [cleaner EXCEPT ![r].pc = "dead"]
           /\ UNCHANGED <<creator, engine, deleter>>
  <2> DEFINE w == [cleaner[r] EXCEPT !.pc = "dead"]
  <2>1. cleaner \in [Responses -> Cleaners] /\ cleaner[r] \in Cleaners BY CleanerFields
  <2>2. w \in Cleaners /\ w.pc = "dead" /\ w.kind = cleaner[r].kind BY <2>1 DEF Cleaners
  <2>3. cleaner' = [cleaner EXCEPT ![r] = w] BY <1>5, <2>1
  <2> HIDE DEF w
  <2>4. cleaner' \in [Responses -> Cleaners] /\ OnlyCleaner(r) /\ cleaner'[r] = w
    BY <2>1, <2>2, <2>3 DEF OnlyCleaner
  <2>5. \A s \in Responses : cleaner'[s].kind = "reap" => cleaner'[s].pc # "read"
    BY <2>2, <2>4, CleanerFields DEF OnlyCleaner
  <2>6. TypeOK' BY <1>1, <1>2, <1>5, <2>4, <2>5 DEF TypeOK, LedgerKept, ConvsKept
  <2> QED BY <1>1, <1>5, <2>2, <2>4, <2>6 DEF OnlyCreator, OnlyEngine
<1>6. CASE deleter' = [deleter EXCEPT ![r] = "dead"] /\ UNCHANGED <<creator, engine, cleaner>>
  <2>1. deleter' \in [Responses -> Deleters] BY <1>6 DEF TypeOK, Deleters
  <2>2. TypeOK' BY <1>1, <1>2, <1>6, <2>1 DEF TypeOK, LedgerKept, ConvsKept
  <2> QED BY <1>1, <1>6, <2>2 DEF OnlyCreator, OnlyEngine, OnlyCleaner
<1> QED BY <1>3, <1>4, <1>5, <1>6 DEF Crash

----------------------------------------------------------------------------
(* The types and the link to the ledger are invariant.                     *)

LEMMA MintedKept ==
    ASSUME idem' = idem
    PROVE  (\A r \in Responses : Minted(r)' <=> Minted(r)) /\ (KeysPair => KeysPair')
BY DEF Minted, KeysPair

\* What a step may do to a response without disturbing its link to the ledger.
LinkSafe(r) ==
    /\ Minted(r)' <=> Minted(r)
    /\ \/ records'[r] = records[r]
       \/ Exists(r) /\ records'[r].status \in Terminal \cup {"none"}
    /\ engine'[r].pc = "idle" <=> engine[r].pc = "idle"
    /\ creator'[r].pc \in Asking => creator[r].pc \in Asking

LEMMA LinkKept ==
    ASSUME NEW r \in Responses, LedgerLink(r), LinkSafe(r)
    PROVE  LedgerLink(r)'
BY DEF LinkSafe, LedgerLink, Exists, Started, Terminal

LEMMA InFlightExists ==
    ASSUME NEW r, records[r].status \in InFlight
    PROVE  Exists(r)
BY DEF InFlight, Exists

\* The steps that leave the ledger's view of every response where it was.
LEMMA QuietLinks ==
    ASSUME Linked, Next,
           ~\E r \in Responses : Admit(r) \/ Claim(r)
    PROVE  (\A r \in Responses : LinkSafe(r)) /\ idem' = idem /\ TypeOK'
<1> USE DEF Linked
<1> DEFINE Goal == (\A r \in Responses : LinkSafe(r)) /\ idem' = idem /\ TypeOK'
<1>0. \A pc : pc \in Working \cup Settling => pc # "idle" BY DEF Working, Settling
<1>1. ASSUME NEW r \in Responses,
             Resolve(r) \/ TakeMarker(r) \/ InspectHolder(r) \/ TakeOver(r)
      PROVE  Goal
  <2>1. "refused" \notin Asking BY DEF Asking
  <2> QED BY <1>1, <2>1, AskingStep, MintedKept DEF LinkSafe, LedgerKept, OnlyCreator
<1>2. ASSUME NEW r \in Responses, AnnounceCreated(r) \/ GiveBack(r)
      PROVE  Goal
  <2>1. {"accepted", "giveback", "refused"} \cap Asking = {} BY DEF Asking
  <2> QED BY <1>2, <2>1, AnnounceCreatedStep, GiveBackStep, MintedKept
          DEF LinkSafe, LedgerKept, OnlyCreator
<1>3. ASSUME PollNothing \/ Degrade \/ \E r \in Responses : Heartbeat(r)
      PROVE  Goal
  BY <1>3, AroundStep, MintedKept DEF LinkSafe
<1>4. ASSUME NEW r \in Responses, TypeOK', StillWorking(r)
      PROVE  Goal
  BY <1>0, <1>4, MintedKept DEF LinkSafe, StillWorking, LedgerKept, OnlyEngine
<1>5. ASSUME NEW r \in Responses, Conclude(r), ~(TypeOK' /\ StillWorking(r))
      PROVE  Goal
  <2>1. /\ TypeOK' /\ OnlyRecord(r) /\ idem' = idem /\ creator' = creator
        /\ engine[r].pc \in {"complete", "fail"} /\ OnlyEngine(r)
        /\ records[r].status = "in_progress" /\ records'[r].status \in TerminalBodies
        /\ engine'[r].pc = IF Archivable(r) THEN "archive" ELSE "release"
    BY <1>5, ConcludeStep
  <2>2. TerminalBodies \subseteq Terminal BY LifecycleConstants DEF Terminal
  <2>3. Exists(r) BY <2>1, InFlightExists DEF InFlight
  <2> QED BY <2>1, <2>2, <2>3, MintedKept DEF LinkSafe, OnlyRecord, OnlyEngine
<1>6. ASSUME NEW r \in Responses,
             \/ ArchiveTurn(r) \/ AdvanceTail(r) \/ SettleMarker(r) \/ EndStream(r)
             \/ CloseStream(r)
      PROVE  Goal
  <2>1. /\ TypeOK' /\ LedgerKept /\ creator' = creator /\ OnlyEngine(r)
        /\ engine[r].pc # "idle" /\ engine'[r].pc # "idle"
    BY <1>6, ArchiveTurnStep, AdvanceTailStep, SettleMarkerStep, EndStreamStep,
       CloseStreamStep
  <2> QED BY <2>1, MintedKept DEF LinkSafe, LedgerKept, OnlyEngine
<1>7. ASSUME NEW r \in Responses, Cancel(r)
      PROVE  Goal
  <2>1. /\ TypeOK' /\ OnlyRecord(r) /\ idem' = idem /\ creator' = creator
        /\ engine' = engine
        /\ records[r].status \in InFlight /\ records'[r].status = "cancelled"
    BY <1>7, CancelStep
  <2>2. Exists(r) /\ "cancelled" \in Terminal BY <2>1, InFlightExists DEF Terminal
  <2> QED BY <2>1, <2>2, MintedKept DEF LinkSafe, OnlyRecord
<1>8. ASSUME Reap
      PROVE  Goal
  <2>1. /\ TypeOK' /\ idem' = idem /\ creator' = creator /\ engine' = engine
        /\ \A r \in Responses :
             \/ records[r].status = "in_progress" /\ records'[r].status = "failed"
             \/ records'[r] = records[r]
    BY <1>8, ReapStep
  <2>2. \A r \in Responses : records[r].status = "in_progress" => Exists(r)
    BY DEF Exists
  <2>3. "failed" \in Terminal BY DEF Terminal
  <2> QED BY <2>1, <2>2, <2>3, MintedKept DEF LinkSafe
<1>9. ASSUME NEW r \in Responses, Cleaning(r)
      PROVE  Goal
  <2>1. TypeOK' /\ LedgerKept /\ creator' = creator /\ engine' = engine
    BY <1>9, ReadBackStep, ReplayStep, ArchiveReplayedStep, ReleaseMarkerStep,
       AbortStreamStep, CloseAbortedStep DEF Cleaning
  <2> QED BY <2>1, MintedKept DEF LinkSafe, LedgerKept
<1>10. ASSUME NEW r \in Responses, DeleteRecord(r)
       PROVE  Goal
  <2>1. /\ TypeOK' /\ idem' = idem /\ creator' = creator /\ engine' = engine
        /\ OnlyRecord(r) /\ (records'[r] = records[r] \/ records'[r].status = "none")
        /\ LedgerDelete(r) \/ LedgerKept
    BY <1>10, DeleteRecordStep
  <2>2. records'[r] = records[r] \/ (Exists(r) /\ records'[r].status = "none")
    BY <2>1 DEF LedgerDelete, LedgerKept
  <2> QED BY <2>1, <2>2, MintedKept DEF LinkSafe, OnlyRecord
<1>11. ASSUME NEW r \in Responses, Deleting(r)
       PROVE  Goal
  <2>1. TypeOK' /\ LedgerKept /\ creator' = creator /\ engine' = engine
    BY <1>11, RemoveStreamStep, AnnounceDeletedStep DEF Deleting
  <2> QED BY <2>1, MintedKept DEF LinkSafe, LedgerKept
<1>12. ASSUME NEW c \in Conversations, DropConversation(c)
       PROVE  Goal
  BY <1>12, DropStep, MintedKept DEF LinkSafe, LedgerKept
<1>13. ASSUME Sweep
       PROVE  Goal
  BY <1>13, SweepStep, MintedKept DEF LinkSafe, LedgerKept
<1>14. ASSUME Tick
       PROVE  Goal
  <2>1. TypeOK' /\ LedgerKept /\ creator' = creator
        /\ \A r \in Responses : engine'[r].pc = engine[r].pc
    BY <1>14, TickStep
  <2> QED BY <2>1, MintedKept DEF LinkSafe, LedgerKept
<1>15. ASSUME NEW r \in Responses, Crash(r)
       PROVE  Goal
  <2>1. /\ TypeOK' /\ LedgerKept /\ OnlyCreator(r) /\ OnlyEngine(r)
        /\ creator'[r] = creator[r] \/ creator'[r].pc = "dead"
        /\ engine'[r].pc = engine[r].pc \/ (engine'[r].pc = "dead" /\ Serving(r))
    BY <1>15, CrashStep
  <2>2. "dead" \notin Asking BY DEF Asking
  <2> QED BY <2>1, <2>2, MintedKept
          DEF LinkSafe, LedgerKept, OnlyCreator, OnlyEngine, Serving
<1>16. ASSUME NEW r \in Responses, Running_(r) \/ Executing(r)
       PROVE  Goal
  <2>1. CASE Conclude(r) BY <1>4, <1>5, <2>1
  <2>2. CASE \/ AnnounceFence(r) \/ AnnouncePush(r) \/ ReadContext(r) \/ Running_(r)
             \/ EmitPush(r) \/ ProbeFires(r)
    BY <1>4, <2>2, WorkingStep
  <2> QED BY <1>6, <1>16, <2>1, <2>2 DEF Executing
<1> HIDE DEF Goal
<1>17. Goal
  BY <1>1, <1>2, <1>3, <1>7, <1>8, <1>9, <1>10, <1>11, <1>12, <1>13, <1>14, <1>15,
     <1>16
     DEF Next, Creating
<1> QED BY <1>17 DEF Goal

LEMMA InitIsLinked == Init => Linked
<1> SUFFICES ASSUME Init PROVE Linked OBVIOUS
<1> USE DEF Init, LedgerInit, LogInit
<1>0. None \notin Responses BY SharedConstants
<1>1. records \in [Responses -> Record] BY NoRecordFields
<1>2. queued \in Seq(Responses) /\ idem \in [Keys -> Responses \cup {None}]
      /\ readOnly \in BOOLEAN /\ unavailable = FALSE /\ crashes \in Nat
  <2>1. queued \in Seq(Responses) OBVIOUS
  <2>2. idem \in [Keys -> Responses \cup {None}] OBVIOUS
  <2>3. readOnly \in BOOLEAN /\ unavailable = FALSE /\ crashes \in Nat OBVIOUS
  <2> QED BY <2>1, <2>2, <2>3
<1>3. logs \in [Responses -> Log] BY NoLogFields
<1>4. convs \in [Conversations -> CountedConv]
  <2>1. Owner \in Tenants BY LifecycleConstants
  <2>2. [NoConv EXCEPT !.live = TRUE, !.tenant = Owner] \in CountedConv
    BY <2>1, NoConvFields DEF CountedConv
  <2> QED BY <2>2
<1>5. creator \in [Responses -> Creators]
      /\ \A r \in Responses : creator[r].pc = "resolve"
  BY DEF Creators, Asking
<1>6. engine \in [Responses -> Engines] /\ \A r \in Responses : engine[r].pc = "idle"
  <2>1. 0 \in 0..MaxDeltas /\ 0 \in 0..TombstoneAfter /\ "completed" \in TerminalBodies
    BY LifecycleConstants, DeadlineIsNat
  <2> QED BY <2>1 DEF Engines
<1>7. cleaner \in [Responses -> Cleaners] /\ \A r \in Responses : cleaner[r].pc = "idle"
  <2>1. 0 \in 0..TombstoneAfter BY DeadlineIsNat
  <2> QED BY <2>1 DEF Cleaners
<1>8. deleter \in [Responses -> Deleters] BY DEF Deleters
<1>9. TypeOK
  <2>1. \A r \in Responses : cleaner[r].pc # "read" BY <1>7
  <2>2. \A r \in Responses : creator[r].pc \notin {"acquire", "reacquire", "busy", "takeover"}
    BY <1>5
  <2> HIDE DEF Init, LedgerInit, LogInit
  <2> QED BY <1>1, <1>2, <1>3, <1>4, <1>5, <1>6, <1>7, <1>8, <2>1, <2>2 DEF TypeOK
<1>10. KeysPair BY DEF KeysPair
<1>11. ASSUME NEW r \in Responses PROVE LedgerLink(r)
  <2>1. records[r] = NoRecord /\ NoRecord.status = "none" BY NoRecordFields
  <2>2. ~Minted(r)
    <3>1. KeyOf[r] \in Keys BY LifecycleConstants
    <3> QED BY <1>0, <3>1 DEF Minted
  <2>3. engine[r].pc = "idle" BY <1>6
  <2> QED BY <2>1, <2>2, <2>3 DEF LedgerLink, Exists, Started
<1> QED BY <1>9, <1>10, <1>11 DEF Linked

LEMMA LinkPreserved == Linked /\ [Next]_vars => Linked'
<1> SUFFICES ASSUME Linked, [Next]_vars PROVE Linked' OBVIOUS
<1>0. TypeOK /\ KeysPair /\ \A r \in Responses : LedgerLink(r) BY DEF Linked
<1>1. CASE UNCHANGED vars
  BY <1>1 DEF Linked, TypeOK, KeysPair, LedgerLink, Minted, Exists, Started, vars, stores,
              procs, ledgerVars, convVars
<1>2. ASSUME NEW r \in Responses, Admit(r) PROVE Linked'
  <2>1. /\ TypeOK' /\ engine' = engine /\ creator[r].pc = "admit" /\ OnlyCreator(r)
        /\ \/ /\ LedgerKept /\ creator'[r].pc = "giveback"
           \/ /\ creator'[r].pc = "announce" /\ OnlyRecord(r)
              /\ records'[r].status = "queued" /\ records'[r].attempt = 0
              /\ KeysPair' /\ ~Minted(r) /\ Minted(r)'
              /\ \A s \in Responses \ {r} : Minted(s)' <=> Minted(s)
    BY <1>0, <1>2, AdmitStep
  <2>2. {"announce", "giveback"} \cap Asking = {} BY DEF Asking
  <2>3. CASE LedgerKept /\ creator'[r].pc = "giveback"
    <3>1. KeysPair' /\ \A s \in Responses : Minted(s)' <=> Minted(s)
      BY <1>0, <2>3, MintedKept DEF LedgerKept
    <3>2. \A s \in Responses : LinkSafe(s)
      BY <2>1, <2>2, <2>3, <3>1 DEF LinkSafe, LedgerKept, OnlyCreator
    <3> QED BY <1>0, <2>1, <3>1, <3>2, LinkKept DEF Linked
  <2>4. CASE /\ creator'[r].pc = "announce" /\ OnlyRecord(r)
             /\ records'[r].status = "queued" /\ records'[r].attempt = 0
             /\ KeysPair' /\ ~Minted(r) /\ Minted(r)'
             /\ \A s \in Responses \ {r} : Minted(s)' <=> Minted(s)
    <3>1. \A s \in Responses \ {r} : LinkSafe(s)
      BY <2>1, <2>4 DEF LinkSafe, OnlyCreator, OnlyRecord
    <3>2. ~Started(r) BY <1>0, <2>4 DEF LedgerLink
    <3>3. LedgerLink(r)'
      BY <2>1, <2>2, <2>4, <3>2 DEF LedgerLink, Started
    <3> QED BY <1>0, <2>1, <2>4, <3>1, <3>3, LinkKept DEF Linked
  <2> QED BY <2>1, <2>3, <2>4
<1>3. ASSUME NEW r \in Responses, Claim(r) PROVE Linked'
  <2>1. /\ TypeOK' /\ OnlyRecord(r) /\ idem' = idem /\ creator' = creator
        /\ records[r].status = "queued" /\ OnlyEngine(r)
        /\ records'[r].status = "in_progress" /\ records'[r].attempt = 1
    BY <1>0, <1>3, ClaimStep
  <2>2. KeysPair' /\ \A s \in Responses : Minted(s)' <=> Minted(s)
    BY <1>0, <2>1, MintedKept
  <2>3. \A s \in Responses \ {r} : LinkSafe(s)
    BY <2>1, <2>2 DEF LinkSafe, OnlyEngine, OnlyRecord
  <2>4. Minted(r) /\ creator[r].pc \notin Asking
    BY <1>0, <2>1 DEF LedgerLink, Exists
  <2>5. LedgerLink(r)' BY <2>1, <2>2, <2>4 DEF LedgerLink
  <2> QED BY <1>0, <2>1, <2>2, <2>3, <2>5, LinkKept DEF Linked
<1>4. CASE Next /\ ~\E r \in Responses : Admit(r) \/ Claim(r)
  <2>1. (\A r \in Responses : LinkSafe(r)) /\ idem' = idem /\ TypeOK' BY <1>4, QuietLinks
  <2>2. KeysPair' BY <1>0, <2>1, MintedKept
  <2> QED BY <1>0, <2>1, <2>2, LinkKept DEF Linked
<1> QED BY <1>1, <1>2, <1>3, <1>4

\* The stores and the processes keep their types under every step of the
\* services, the runtime and the sweeper (Lifecycle: Next).
THEOREM LifecycleTypeCorrect == Spec => []TypeOK
<1>1. Linked => TypeOK BY DEF Linked
<1> QED BY <1>1, InitIsLinked, LinkPreserved, PTL DEF Spec

\* The ledger is the first to know of a response: its run, its heartbeats and
\* its end come after the record, an unminted id is named by nobody but its own
\* create, and a queued one has not been started (Admit, Claim, Conclude).
THEOREM LedgerKnowsFirst == Spec => []Linked
BY InitIsLinked, LinkPreserved, PTL DEF Spec

----------------------------------------------------------------------------
(* The composition implements the ledger's specification.                  *)

\* The store's methods are the same here and there.
LEMMA StoreIsTheLedgers ==
    /\ LedgerInit => L!LedgerInit
    /\ \A r, k, t, s : LedgerCreate(r, k, t, s) => L!LedgerCreate(r, k, t, s)
    /\ \A r, a : LedgerClaim(r, a) => L!LedgerClaim(r, a)
    /\ LedgerClaimNothing => L!LedgerClaimNothing
    /\ \A a : LedgerHeartbeat(a) => L!LedgerHeartbeat(a)
    /\ \A r, n, s, u : LedgerComplete(r, n, s, u) => L!LedgerComplete(r, n, s, u)
    /\ \A r, t : LedgerCancel(r, t) => L!LedgerCancel(r, t)
    /\ LedgerReap => L!LedgerReap
    /\ LostClaims = L!LostClaims
    /\ \A r : LedgerDelete(r) => L!LedgerDelete(r)
    /\ \A b : SetReadOnly(b) => L!SetReadOnly(b)
    /\ LedgerTick => L!LedgerTick
    /\ ledgerVars = L!ledgerVars
<1> USE DEF Exists, L!Exists, NoRecord, L!NoRecord, Attempts, L!Attempts,
            Terminal, L!Terminal, InFlight, L!InFlight
<1>1. LedgerInit => L!LedgerInit
  BY DEF LedgerInit, L!LedgerInit, AtLeastOne, L!AtLeastOne
<1>2. \A r, k, t, s : LedgerCreate(r, k, t, s) => L!LedgerCreate(r, k, t, s)
  <2> DEFINE inFlight == {s \in Responses : records[s].status \in InFlight}
             existing == {s \in Responses : Exists(s)}
  <2>a. InFlightCount = Cardinality(inFlight) /\ RecordCount = Cardinality(existing)
    BY Zenon DEF InFlightCount, RecordCount
  <2>b. L!InFlightCount = L!Cardinality(inFlight) /\ L!RecordCount = L!Cardinality(existing)
    BY Zenon DEF L!InFlightCount, L!RecordCount
  <2>c. \A S : L!Cardinality(S) = Cardinality(S) BY DEF Cardinality, L!Cardinality
  <2>1. InFlightCount = L!InFlightCount /\ RecordCount = L!RecordCount BY <2>a, <2>b, <2>c
  <2> HIDE DEF inFlight, existing
  <2>2. \A k : CreateOutcome(k) = L!CreateOutcome(k)
    BY <2>1 DEF CreateOutcome, L!CreateOutcome
  <2>3. \A k, t, s : QueuedRecord(k, t, s) = L!QueuedRecord(k, t, s)
    BY DEF QueuedRecord, L!QueuedRecord
  <2> QED BY <2>2, <2>3 DEF LedgerCreate, L!LedgerCreate
<1>3. \A r, a : LedgerClaim(r, a) => L!LedgerClaim(r, a)
  BY DEF LedgerClaim, L!LedgerClaim, Popped, L!Popped, Waiting, L!Waiting, Running, L!Running
<1>4. LedgerClaimNothing => L!LedgerClaimNothing
  BY DEF LedgerClaimNothing, L!LedgerClaimNothing, Waiting, L!Waiting
<1>5. \A a : LedgerHeartbeat(a) => L!LedgerHeartbeat(a)
  BY DEF LedgerHeartbeat, L!LedgerHeartbeat
<1>6. \A r, n, s, u : LedgerComplete(r, n, s, u) => L!LedgerComplete(r, n, s, u)
  BY DEF LedgerComplete, L!LedgerComplete, FenceOutcome, L!FenceOutcome, Finished, L!Finished
<1>7. \A r, t : LedgerCancel(r, t) => L!LedgerCancel(r, t)
  BY DEF LedgerCancel, L!LedgerCancel, CancelOutcome, L!CancelOutcome, Superseded,
         L!Superseded, BookUsage, L!BookUsage
<1>8. /\ \A r : Lost(r) <=> L!Lost(r)
      /\ LostClaims = L!LostClaims
  BY DEF Lost, L!Lost, LostClaims, L!LostClaims
<1>9. LedgerReap => L!LedgerReap
  BY <1>8 DEF LedgerReap, L!LedgerReap, Superseded, L!Superseded, BookUsage, L!BookUsage
<1>10. \A r : LedgerDelete(r) => L!LedgerDelete(r)
  BY DEF LedgerDelete, L!LedgerDelete, Remove, L!Remove
<1>11. \A b : SetReadOnly(b) => L!SetReadOnly(b) BY DEF SetReadOnly, L!SetReadOnly
<1>12. LedgerTick => L!LedgerTick BY DEF LedgerTick, L!LedgerTick, Aged, L!Aged
<1>13. ledgerVars = L!ledgerVars BY DEF ledgerVars, L!ledgerVars
<1> QED BY <1>1, <1>2, <1>3, <1>4, <1>5, <1>6, <1>7, <1>8, <1>9, <1>10, <1>11, <1>12, <1>13

\* What the history is read off.
LEMMA HistoryKept ==
    ASSUME idem' = idem, \A r \in Responses : Started(r)' <=> Started(r)
    PROVE  /\ L!history' = L!history
           /\ ledgerVars' = ledgerVars => L!vars' = L!vars
<1>1. MintedIds' = MintedIds /\ AdmittedPairs' = AdmittedPairs
  BY DEF MintedIds, AdmittedPairs, UsedKeys
<1>2. {r \in Responses : Started(r)}' = {r \in Responses : Started(r)} OBVIOUS
<1>3. GrantedClaims' = GrantedClaims BY <1>2 DEF GrantedClaims
<1>4. ledgerVars = L!ledgerVars /\ ledgerVars' = L!ledgerVars'
  BY DEF ledgerVars, L!ledgerVars
<1> QED BY <1>1, <1>3, <1>4 DEF L!history, L!vars

\* What the steps that neither admit nor claim do to the ledger.
LedgerTouched ==
    \/ SameLedger
    \/ LedgerClaimNothing
    \/ \E r \in Responses : Serving(r) /\ LedgerHeartbeat(r)
    \/ \E r \in Responses : LedgerComplete(r, Attempt, EndStatus(r), engine[r].emitted)
    \/ \E r \in Responses : LedgerCancel(r, Owner)
    \/ LostClaims # {} /\ LedgerReap
    \/ \E r \in Responses : LedgerDelete(r)
    \/ \E enabled \in BOOLEAN : SetReadOnly(enabled)
    \/ LedgerTick

LEMMA QuietTouches ==
    ASSUME Linked, Next, ~\E r \in Responses : Admit(r) \/ Claim(r)
    PROVE  LedgerTouched
<1> HIDE DEF LedgerTouched
<1>1. ASSUME NEW r \in Responses, Creating(r), ~Admit(r) PROVE LedgerTouched
  BY <1>1 DEF Creating, Resolve, TakeMarker, InspectHolder, TakeOver, AnnounceCreated,
              GiveBack, LedgerTouched
<1>2. ASSUME NEW r \in Responses, Heartbeat(r) PROVE LedgerTouched
  BY <1>2 DEF Heartbeat, LedgerTouched
<1>3. ASSUME NEW r \in Responses, Conclude(r) PROVE LedgerTouched
  BY <1>3 DEF Conclude, LedgerTouched
<1>4. ASSUME NEW r \in Responses, Running_(r) \/ Executing(r), ~Conclude(r)
      PROVE  LedgerTouched
  BY <1>4 DEF Running_, EmitFence, RunnerEnds, Executing, AnnounceFence, AnnouncePush,
              ReadContext, EmitPush, ProbeFires, ArchiveTurn, AdvanceTail, SettleMarker,
              EndStream, CloseStream, LedgerTouched
<1>5. ASSUME NEW r \in Responses, Cancel(r) PROVE LedgerTouched
  BY <1>5 DEF Cancel, LedgerTouched
<1>6. ASSUME NEW r \in Responses, Cleaning(r) PROVE LedgerTouched
  BY <1>6 DEF Cleaning, ReadBack, Replay, ArchiveReplayed, ReleaseMarker, AbortStream,
              CloseAborted, LedgerTouched
<1>7. ASSUME NEW r \in Responses, DeleteRecord(r) PROVE LedgerTouched
  BY <1>7 DEF DeleteRecord, LedgerTouched
<1>8. ASSUME NEW r \in Responses, Deleting(r) PROVE LedgerTouched
  BY <1>8 DEF Deleting, RemoveStream, AnnounceDeleted, LedgerTouched
<1>9. ASSUME NEW r \in Responses, Crash(r) PROVE LedgerTouched
  BY <1>9 DEF Crash, stores, SameLedger, LedgerTouched
<1>10. ASSUME NEW c \in Conversations, DropConversation(c) PROVE LedgerTouched
  BY <1>10 DEF DropConversation, LedgerTouched
<1>11. ASSUME Sweep \/ PollNothing PROVE LedgerTouched
  BY <1>11 DEF Sweep, PollNothing, LedgerTouched
<1>12. ASSUME Reap PROVE LedgerTouched BY <1>12 DEF Reap, LedgerTouched
<1>13. ASSUME Degrade PROVE LedgerTouched
  <2>1. SetReadOnly(~readOnly) BY <1>13 DEF Degrade
  <2>2. readOnly \in BOOLEAN BY DEF Linked, TypeOK
  <2>3. (~readOnly) \in {TRUE, FALSE} BY <2>2
  <2>4. \E enabled \in BOOLEAN : SetReadOnly(enabled) BY <2>1, <2>3, Zenon
  <2> QED BY <2>4 DEF LedgerTouched
<1>14. ASSUME Tick PROVE LedgerTouched BY <1>14 DEF Tick, LedgerTouched
<1> QED
  BY <1>1, <1>2, <1>3, <1>4, <1>5, <1>6, <1>7, <1>8, <1>9, <1>10, <1>11, <1>12, <1>13,
     <1>14
     DEF Next

LEMMA AdmitRefines ==
    ASSUME Linked, NEW r \in Responses, NEW spec \in Specs,
           LedgerCreate(r, KeyOf[r], Owner, spec), engine' = engine
    PROVE  L!Create(r, KeyOf[r], Owner, spec)
<1>0. KeyOf \in [Responses -> Keys] /\ KeyOf[r] \in Keys /\ None \notin Responses
  BY LifecycleConstants, SharedConstants
<1>1. idem[KeyOf[r]] = None BY <1>0, AcceptedMeans DEF LedgerCreate
<1>2. idem \in [Keys -> Responses \cup {None}] /\ idem' = [idem EXCEPT ![KeyOf[r]] = r]
  BY DEF Linked, TypeOK, LedgerCreate
<1>3. idem'[KeyOf[r]] = r /\ \A k \in Keys \ {KeyOf[r]} : idem'[k] = idem[k]
  BY <1>0, <1>2
<1>4. UsedKeys' = UsedKeys \cup {KeyOf[r]} BY <1>0, <1>1, <1>3 DEF UsedKeys
<1>5. \A k \in UsedKeys : idem'[k] = idem[k] BY <1>1, <1>3 DEF UsedKeys
<1>6. r \notin MintedIds
  <2>1. ASSUME NEW k \in UsedKeys, idem[k] = r PROVE FALSE
    <3>1. k \in Keys /\ KeyOf[r] = k BY <2>1 DEF UsedKeys, Linked, KeysPair
    <3> QED BY <1>0, <1>1, <2>1, <3>1
  <2> QED BY <2>1 DEF MintedIds
<1>7. MintedIds' = MintedIds \cup {r} BY <1>3, <1>4, <1>5 DEF MintedIds
<1>8. AdmittedPairs' = AdmittedPairs \cup {<<KeyOf[r], r>>}
  BY <1>3, <1>4, <1>5 DEF AdmittedPairs
<1>9. GrantedClaims' = GrantedClaims BY DEF GrantedClaims, Started
<1>10. L!LedgerCreate(r, KeyOf[r], Owner, spec) BY StoreIsTheLedgers
<1> QED BY <1>6, <1>7, <1>8, <1>9, <1>10 DEF L!Create

LEMMA ClaimRefines ==
    ASSUME Linked, NEW r \in Responses, Claim(r)
    PROVE  L!Claim(r, r)
<1>0. LedgerClaim(r, r) /\ TypeOK /\ LedgerLink(r) BY DEF Claim, Linked
<1>1. /\ idem' = idem /\ records[r].attempt = 0
      /\ engine[r].pc = "idle" /\ engine'[r].pc = "announce" /\ OnlyEngine(r)
  BY <1>0, ClaimStep
<1> DEFINE running == {s \in Responses : Started(s)}
           grant(s) == [id |-> s, attempt |-> Attempt, agent |-> s]
<1>2. running' = running \cup {r} /\ r \notin running
  BY <1>1 DEF Started, OnlyEngine
<1>3. GrantedClaims = {grant(s) : s \in running} /\ GrantedClaims' = {grant(s) : s \in running'}
  BY DEF GrantedClaims
<1> HIDE DEF running
<1>4. \A g \in GrantedClaims : g.agent # r BY <1>2, <1>3
<1>5. GrantedClaims' = GrantedClaims \cup {grant(r)} BY <1>2, <1>3
<1>6. MintedIds' = MintedIds /\ AdmittedPairs' = AdmittedPairs
  BY <1>1 DEF MintedIds, AdmittedPairs, UsedKeys
<1>7. L!LedgerClaim(r, r) BY <1>0, StoreIsTheLedgers
<1>8. records[r].attempt + 1 = Attempt BY <1>1 DEF Attempt
<1> QED BY <1>4, <1>5, <1>6, <1>7, <1>8 DEF L!Claim

\* Every other step is one of the ledger's methods, called as its
\* specification allows, or leaves the ledger alone.
LEMMA TouchRefines ==
    ASSUME Linked, LedgerTouched, idem' = idem,
           \A r \in Responses : Started(r)' <=> Started(r)
    PROVE  [L!Next]_(L!vars)
<1>0. L!history' = L!history BY HistoryKept
<1>1. CASE SameLedger BY <1>1, HistoryKept DEF SameLedger
<1>2. CASE LedgerClaimNothing
  BY <1>0, <1>2, StoreIsTheLedgers DEF L!ClaimNothing, L!Next
<1>3. ASSUME NEW r \in Responses, Serving(r), LedgerHeartbeat(r)
      PROVE  L!Next
  <2>1. [id |-> r, attempt |-> Attempt, agent |-> r] \in GrantedClaims
    BY <1>3 DEF GrantedClaims, Started, Serving
  <2>2. \E g \in GrantedClaims : g.agent = r BY <2>1
  <2>3. L!Heartbeat(r) BY <1>0, <1>3, <2>2, StoreIsTheLedgers DEF L!Heartbeat
  <2>4. r \in Agents BY LifecycleConstants
  <2> QED BY <2>3, <2>4 DEF L!Next
<1>4. ASSUME NEW r \in Responses,
             LedgerComplete(r, Attempt, EndStatus(r), engine[r].emitted)
      PROVE  L!Next
  <2>1. L!Complete(r, Attempt, EndStatus(r), engine[r].emitted)
    BY <1>0, <1>4, StoreIsTheLedgers DEF L!Complete
  <2>2. EndStatus(r) \in L!Terminal
    BY <1>4 DEF LedgerComplete, Terminal, L!Terminal
  <2>3. Attempt \in L!Attempts BY DEF Attempt, L!Attempts
  <2>4. engine[r].emitted \in Usages
    <3>1. engine[r].emitted \in 0..MaxDeltas BY EngineFields DEF Linked
    <3> QED BY <3>1, LifecycleConstants
  <2> QED BY <2>1, <2>2, <2>3, <2>4 DEF L!Next
<1>5. ASSUME NEW r \in Responses, LedgerCancel(r, Owner) PROVE L!Next
  <2>1. L!Cancel(r, Owner) BY <1>0, <1>5, StoreIsTheLedgers DEF L!Cancel
  <2>2. Owner \in Tenants BY LifecycleConstants
  <2> QED BY <2>1, <2>2 DEF L!Next
<1>6. CASE LostClaims # {} /\ LedgerReap
  BY <1>0, <1>6, StoreIsTheLedgers DEF L!Reap, L!Next
<1>7. ASSUME NEW r \in Responses, LedgerDelete(r) PROVE L!Next
  BY <1>0, <1>7, StoreIsTheLedgers DEF L!Delete, L!Next
<1>8. ASSUME NEW enabled \in BOOLEAN, SetReadOnly(enabled) PROVE L!Next
  BY <1>0, <1>8, StoreIsTheLedgers DEF L!Admin, L!Next
<1>9. CASE LedgerTick BY <1>0, <1>9, StoreIsTheLedgers DEF L!Tick, L!Next
<1> QED BY <1>1, <1>2, <1>3, <1>4, <1>5, <1>6, <1>7, <1>8, <1>9 DEF LedgerTouched

LEMMA StepRefines == Linked /\ [Next]_vars => [L!Next]_(L!vars)
<1> SUFFICES ASSUME Linked, [Next]_vars PROVE [L!Next]_(L!vars) OBVIOUS
<1>1. CASE UNCHANGED vars
  <2>1. UNCHANGED ledgerVars /\ idem' = idem /\ engine' = engine
    BY <1>1 DEF vars, stores, procs, ledgerVars
  <2> QED BY <2>1, HistoryKept DEF Started
<1>2. ASSUME NEW r \in Responses, Admit(r) PROVE [L!Next]_(L!vars)
  <2>1. engine' = engine BY <1>2, AdmitStep DEF Linked
  <2>2. CASE SameLedger
    <3>1. idem' = idem BY <2>2 DEF SameLedger, ledgerVars
    <3> QED BY <2>1, <2>2, <3>1, HistoryKept DEF SameLedger, Started
  <2>3. ASSUME NEW spec \in Specs, LedgerCreate(r, KeyOf[r], Owner, spec)
        PROVE  L!Next
    <3>1. L!Create(r, KeyOf[r], Owner, spec) BY <2>1, <2>3, AdmitRefines
    <3>2. KeyOf[r] \in Keys /\ Owner \in Tenants BY LifecycleConstants
    <3> QED BY <3>1, <3>2 DEF L!Next
  <2> QED BY <1>2, <2>2, <2>3 DEF Admit
<1>3. ASSUME NEW r \in Responses, Claim(r) PROVE [L!Next]_(L!vars)
  <2>1. L!Claim(r, r) BY <1>3, ClaimRefines
  <2>2. r \in Agents BY LifecycleConstants
  <2> QED BY <2>1, <2>2 DEF L!Next
<1>4. CASE Next /\ ~\E r \in Responses : Admit(r) \/ Claim(r)
  <2>1. LedgerTouched BY <1>4, QuietTouches
  <2>2. (\A r \in Responses : LinkSafe(r)) /\ idem' = idem BY <1>4, QuietLinks
  <2>3. \A r \in Responses : Started(r)' <=> Started(r) BY <2>2 DEF LinkSafe, Started
  <2> QED BY <2>1, <2>2, <2>3, TouchRefines
<1> QED BY <1>1, <1>2, <1>3, <1>4

LEMMA InitRefines == Init => L!Init
<1> SUFFICES ASSUME Init PROVE L!Init OBVIOUS
<1>1. LedgerInit /\ (\A k \in Keys : idem[k] = None) /\ \A r \in Responses : ~Started(r)
  BY DEF Init, LedgerInit, Started
<1>2. UsedKeys = {} BY <1>1 DEF UsedKeys
<1>3. MintedIds = {} /\ AdmittedPairs = {} BY <1>2 DEF MintedIds, AdmittedPairs
<1>4. {r \in Responses : Started(r)} = {} BY <1>1
<1>5. GrantedClaims = {} BY <1>4 DEF GrantedClaims
<1> QED BY <1>1, <1>3, <1>5, StoreIsTheLedgers DEF L!Init

\* The services, the runtime and the sweeper, in any number and dying at any
\* step, use the ledger as its specification allows: what Ledger promises under
\* arbitrary callers holds of every behaviour of the composition.
THEOREM LedgerIsImplemented == Spec => LedgerSpec
<1>1. Spec => []Linked BY LedgerKnowsFirst
<1> QED BY <1>1, InitRefines, StepRefines, PTL DEF Spec, LedgerSpec, L!Spec

----------------------------------------------------------------------------
(* What a step may do to a response.                                       *)

\* The run moves on, or stays where it is.
RunMoves(r) ==
    \/ /\ engine'[r].pc = engine[r].pc
       /\ engine'[r].status = engine[r].status /\ engine'[r].emitted = engine[r].emitted
    \/ engine[r].pc \in Working /\ engine'[r].pc \in Working \cup {"done"}
    \/ /\ engine[r].pc \in Settling /\ engine'[r].pc \in (Settling \cup {"done"}) \ {"archive"}
       /\ engine'[r].pc = "advance" => engine[r].pc = "archive"
       /\ engine[r].pc = "archive" => ArchiveTurn(r)
       /\ RunWillTell(r)' => RunWillTell(r)
       /\ engine'[r].status = engine[r].status /\ engine'[r].emitted = engine[r].emitted
    \/ /\ engine[r].pc # "idle" /\ engine'[r].pc = "dead"
       /\ engine'[r].emitted = engine[r].emitted

\* So does the cancel or the reap that ended the response.
CleanerMoves(r) ==
    \/ cleaner'[r].pc = cleaner[r].pc /\ cleaner'[r].kind = cleaner[r].kind
    \/ /\ cleaner[r].pc # "idle" /\ cleaner'[r].pc # "idle"
       /\ CleanerWillTell(r)' => CleanerWillTell(r)
       /\ cleaner'[r].pc \in {"replay", "archive"} => Archivable(r)

\* The record stays, or is deleted, and nobody takes up the response.
StaysPut(r) ==
    /\ Minted(r) => Minted(r)'
    /\ records'[r].status \in {records[r].status, "none"}
    /\ RunMoves(r) /\ CleanerMoves(r)

\* The record moves: before that the response had not ended, and its stream
\* is as it was.
RecordMoves(r) ==
    /\ ~Ended(r) /\ logs'[r] = logs[r] /\ OneSettles(r)'
    /\ engine'[r].emitted = engine[r].emitted
    /\ engine'[r].pc \in Settling => engine'[r].pc = IF Archivable(r) THEN "archive"
                                                     ELSE "release"
    /\ Admit(r) \/ records[r].status \in InFlight

LEMMA Places ==
    /\ Working \cap Settling = {}
    /\ {"idle", "done", "dead"} \cap (Working \cup Settling) = {}
    /\ {"complete", "fail"} \subseteq Working
    /\ {"archive", "advance", "release", "terminal", "close"} = Settling
    /\ {"completed", "incomplete", "failed"} \cap InFlight = {}
    /\ {"cancelled", "none"} \cap InFlight = {}
    /\ WithReply \cap InFlight = {}
BY DEF Working, Settling, InFlight, WithReply

LEMMA SettleKept ==
    ASSUME NEW r \in Responses, OneSettles(r), StaysPut(r)
    PROVE  OneSettles(r)'
<1>0. Archivable(r)' <=> Archivable(r) BY DEF Archivable, HasConv
<1>1. Ended(r) => Ended(r)' BY Places DEF Ended, StaysPut
<1>2. engine'[r].pc \in Settling =>
         engine[r].pc \in Settling /\ engine'[r].status = engine[r].status
  BY Places DEF StaysPut, RunMoves
<1>3. cleaner'[r].pc # "idle" <=> cleaner[r].pc # "idle" BY DEF StaysPut, CleanerMoves
<1>4. engine[r].pc \in Settling \cup {"done", "dead"} =>
         engine'[r].pc \in Settling \cup {"done", "dead"}
  BY Places DEF StaysPut, RunMoves
<1>5. engine'[r].pc \in {"archive", "advance"} => engine[r].pc \in {"archive", "advance"}
  BY Places DEF StaysPut, RunMoves
<1>6. cleaner'[r].pc \in {"replay", "archive"} => Archivable(r)
  BY DEF StaysPut, CleanerMoves, OneSettles
<1>7. records'[r].status \in {records[r].status, "none"} /\ "none" \notin WithReply
  BY DEF StaysPut, WithReply
<1> QED BY <1>0, <1>1, <1>2, <1>3, <1>4, <1>5, <1>6, <1>7 DEF OneSettles

\* Until a response is claimed, and until it ended, nobody settles it.
LEMMA NobodySettles ==
    ASSUME TypeOK, NEW r \in Responses, LedgerLink(r), OneSettles(r), ~Ended(r)
    PROVE  /\ cleaner[r].pc = "idle" /\ engine[r].pc \notin Settling
           /\ ~Minted(r) => engine[r].pc = "idle"
           /\ records[r].status = "queued" => engine[r].pc = "idle"
BY DEF OneSettles, LedgerLink, Started

----------------------------------------------------------------------------
(* The five steps that move a record.                                      *)

LEMMA StillPut ==
    ASSUME NEW s, records'[s] = records[s], Minted(s) => Minted(s)',
           engine'[s] = engine[s], cleaner'[s] = cleaner[s]
    PROVE  StaysPut(s)
BY DEF StaysPut, RunMoves, CleanerMoves

LEMMA AdmitMoves ==
    ASSUME Linked, \A s \in Responses : OneSettles(s), NEW r \in Responses, Admit(r)
    PROVE  \A s \in Responses : StaysPut(s) \/ RecordMoves(s)
<1>1. /\ logs' = logs /\ engine' = engine /\ cleaner' = cleaner
      /\ \/ LedgerKept
         \/ /\ OnlyRecord(r) /\ records'[r].status = "queued" /\ ~Minted(r) /\ Minted(r)'
            /\ \A s \in Responses \ {r} : Minted(s)' <=> Minted(s)
  BY AdmitStep DEF Linked
<1>2. CASE LedgerKept
  BY <1>1, <1>2, StillPut, MintedKept DEF LedgerKept
<1>3. CASE ~LedgerKept
  <2>1. \A s \in Responses \ {r} : StaysPut(s) BY <1>1, <1>3, StillPut DEF OnlyRecord
  <2>2. ~Ended(r) BY <1>1, <1>3 DEF Ended
  <2>3. cleaner[r].pc = "idle" /\ engine[r].pc = "idle"
    BY <1>1, <1>3, <2>2, NobodySettles DEF Linked
  <2>4. OneSettles(r)'
    BY <1>1, <1>3, <2>3, Places DEF OneSettles, InFlight
  <2>5. RecordMoves(r) BY <1>1, <2>2, <2>3, <2>4, Places DEF RecordMoves
  <2> QED BY <2>1, <2>5
<1> QED BY <1>2, <1>3

LEMMA ClaimMoves ==
    ASSUME Linked, \A s \in Responses : OneSettles(s), NEW r \in Responses, Claim(r)
    PROVE  \A s \in Responses : StaysPut(s) \/ RecordMoves(s)
<1>1. /\ OnlyRecord(r) /\ idem' = idem /\ logs' = logs /\ cleaner' = cleaner
      /\ records[r].status = "queued" /\ engine[r].pc = "idle"
      /\ records'[r].status = "in_progress"
      /\ engine'[r].pc = "announce" /\ OnlyEngine(r)
  BY ClaimStep DEF Linked
<1>2. \A s \in Responses \ {r} : StaysPut(s)
  BY <1>1, StillPut, MintedKept DEF OnlyRecord, OnlyEngine
<1>3. ~Ended(r) /\ records[r].status \in InFlight BY <1>1 DEF Ended, InFlight
<1>4. cleaner[r].pc = "idle" BY <1>3, NobodySettles DEF Linked
<1>5. OneSettles(r)' BY <1>1, <1>4, Places DEF OneSettles, Working, WithReply
<1>6. engine'[r].emitted = engine[r].emitted
  BY EngineMoved DEF Claim, Linked, Working
<1>7. RecordMoves(r) BY <1>1, <1>3, <1>5, <1>6, Places DEF RecordMoves, Working
<1> QED BY <1>2, <1>7

LEMMA ConcludeMoves ==
    ASSUME Linked, \A s \in Responses : OneSettles(s), NEW r \in Responses, Conclude(r),
           ~StillWorking(r)
    PROVE  \A s \in Responses : StaysPut(s) \/ RecordMoves(s)
<1>1. /\ OnlyRecord(r) /\ idem' = idem /\ logs' = logs /\ cleaner' = cleaner
      /\ engine[r].pc \in {"complete", "fail"} /\ OnlyEngine(r)
      /\ records[r].status = "in_progress"
      /\ records'[r].status \in TerminalBodies
      /\ engine'[r].status = records'[r].status
      /\ engine'[r].pc = IF Archivable(r) THEN "archive" ELSE "release"
      /\ engine'[r].emitted = engine[r].emitted
  BY ConcludeStep DEF Linked
<1>2. \A s \in Responses \ {r} : StaysPut(s)
  BY <1>1, StillPut, MintedKept DEF OnlyRecord, OnlyEngine
<1>3. ~Ended(r) /\ records[r].status \in InFlight BY <1>1 DEF Ended, InFlight
<1>4. cleaner[r].pc = "idle" BY <1>3, NobodySettles DEF Linked
<1>5. records'[r].status \notin InFlight BY <1>1, LifecycleConstants, Places
<1>6. Minted(r)'
  <2>1. Started(r) BY <1>1 DEF Started
  <2> QED BY <1>1, <2>1, MintedKept DEF Linked, LedgerLink
<1>7. Archivable(r)' <=> Archivable(r) BY DEF Archivable, HasConv
<1>8. OneSettles(r)'
  <2>1. engine'[r].pc \in Settling BY <1>1, Places
  <2>2. Ended(r)' BY <1>5, <1>6 DEF Ended
  <2>3. engine'[r].pc \in {"archive", "advance"} => Archivable(r) BY <1>1
  <2> QED BY <1>1, <1>4, <1>7, <2>1, <2>2, <2>3 DEF OneSettles
<1>9. RecordMoves(r) BY <1>1, <1>3, <1>8 DEF RecordMoves
<1> QED BY <1>2, <1>9

LEMMA CancelMoves ==
    ASSUME Linked, \A s \in Responses : OneSettles(s), NEW r \in Responses, Cancel(r)
    PROVE  \A s \in Responses : StaysPut(s) \/ RecordMoves(s)
<1>1. /\ OnlyRecord(r) /\ idem' = idem /\ logs' = logs /\ engine' = engine
      /\ records[r].status \in InFlight /\ records'[r].status = "cancelled"
      /\ cleaner'[r].pc = "read" /\ OnlyCleaner(r)
  BY CancelStep DEF Linked
<1>2. \A s \in Responses \ {r} : StaysPut(s)
  BY <1>1, StillPut, MintedKept DEF OnlyRecord, OnlyCleaner
<1>3. ~Ended(r) BY <1>1 DEF Ended
<1>4. engine[r].pc \notin Settling BY <1>3, NobodySettles DEF Linked
<1>5. Exists(r) BY <1>1, InFlightExists
<1>6. Minted(r)' BY <1>1, <1>5, MintedKept DEF Linked, LedgerLink
<1>7. OneSettles(r)'
  <2>1. Ended(r)' BY <1>1, <1>6, Places DEF Ended
  <2>2. engine'[r].pc \notin {"archive", "advance"} BY <1>1, <1>4, Places
  <2>3. "cancelled" \notin WithReply BY DEF WithReply
  <2> QED BY <1>1, <1>4, <2>1, <2>2, <2>3 DEF OneSettles
<1>8. RecordMoves(r) BY <1>1, <1>3, <1>4, <1>7, Places DEF RecordMoves
<1> QED BY <1>2, <1>8

LEMMA ReapMoves ==
    ASSUME Linked, \A s \in Responses : OneSettles(s), Reap
    PROVE  \A s \in Responses : StaysPut(s) \/ RecordMoves(s)
<1>1. /\ idem' = idem /\ logs' = logs /\ engine' = engine
      /\ \A r \in Responses :
           IF r \in LostClaims
           THEN /\ records[r].status = "in_progress" /\ records'[r].status = "failed"
                /\ cleaner'[r].pc = "terminal"
           ELSE records'[r] = records[r] /\ cleaner'[r] = cleaner[r]
  BY ReapStep DEF Linked
<1>2. ASSUME NEW r \in Responses, r \in LostClaims PROVE RecordMoves(r)
  <2>1. ~Ended(r) /\ records[r].status \in InFlight BY <1>1, <1>2 DEF Ended, InFlight
  <2>2. engine[r].pc \notin Settling BY <2>1, NobodySettles DEF Linked
  <2>3. Exists(r) BY <1>1, <1>2 DEF Exists
  <2>4. Minted(r)' BY <1>1, <2>3, MintedKept DEF Linked, LedgerLink
  <2>5. OneSettles(r)'
    <3>1. Ended(r)' BY <1>1, <1>2, <2>4, Places DEF Ended
    <3>2. engine'[r].pc \notin {"archive", "advance"} BY <1>1, <2>2, Places
    <3>3. "failed" \notin WithReply BY DEF WithReply
    <3> QED BY <1>1, <1>2, <2>2, <3>1, <3>2, <3>3 DEF OneSettles
  <2> QED BY <1>1, <2>1, <2>2, <2>5, Places DEF RecordMoves
<1>3. ASSUME NEW r \in Responses, r \notin LostClaims PROVE StaysPut(r)
  BY <1>1, <1>3, StillPut, MintedKept
<1> QED BY <1>2, <1>3

----------------------------------------------------------------------------
(* All steps.                                                              *)

\* The ends of a cancel or a reap.
LEMMA CleaningMoves ==
    ASSUME TypeOK, NEW r \in Responses, OneSettles(r), Cleaning(r)
    PROVE  CleanerMoves(r)
<1>0. Archivable(r)' <=> Archivable(r) BY DEF Archivable, HasConv
<1>1. CASE ReadBack(r) BY <1>1, ReadBackStep DEF CleanerMoves, CleanerWillTell
<1>2. CASE Replay(r)
  <2>1. /\ cleaner[r].pc = "replay" /\ cleaner'[r].pc \in {"archive", "release"}
        /\ cleaner'[r].kind = cleaner[r].kind
    BY <1>2, ReplayStep
  <2>2. Archivable(r) BY <2>1 DEF OneSettles
  <2> QED BY <2>1, <2>2 DEF CleanerMoves, CleanerWillTell
<1>3. CASE ArchiveReplayed(r)
  BY <1>3, ArchiveReplayedStep DEF CleanerMoves, CleanerWillTell
<1>4. CASE ReleaseMarker(r)
  BY <1>4, ReleaseMarkerStep DEF CleanerMoves, CleanerWillTell
<1>5. CASE AbortStream(r)
  BY <1>5, AbortStreamStep DEF CleanerMoves, CleanerWillTell
<1>6. CASE CloseAborted(r)
  BY <1>6, CloseAbortedStep DEF CleanerMoves, CleanerWillTell
<1> QED BY <1>1, <1>2, <1>3, <1>4, <1>5, <1>6 DEF Cleaning

LEMMA SettlingMoves ==
    ASSUME TypeOK, NEW r \in Responses,
           \/ ArchiveTurn(r) \/ AdvanceTail(r) \/ SettleMarker(r) \/ EndStream(r)
           \/ CloseStream(r)
    PROVE  RunMoves(r)
<1> USE Places DEF RunMoves, RunWillTell
<1>1. CASE ArchiveTurn(r) BY <1>1, ArchiveTurnStep
<1>2. CASE AdvanceTail(r) BY <1>2, AdvanceTailStep
<1>3. CASE SettleMarker(r) BY <1>3, SettleMarkerStep
<1>4. CASE EndStream(r) BY <1>4, EndStreamStep
<1>5. CASE CloseStream(r) BY <1>5, CloseStreamStep
<1> QED BY <1>1, <1>2, <1>3, <1>4, <1>5

\* The steps after which every record is what it was.
LEMMA LedgerKeptMoves ==
    ASSUME LedgerKept, \A s \in Responses : RunMoves(s) /\ CleanerMoves(s)
    PROVE  \A s \in Responses : StaysPut(s)
BY MintedKept DEF LedgerKept, StaysPut

LEMMA NoRunMoves ==
    ASSUME engine' = engine
    PROVE  \A s \in Responses : RunMoves(s)
BY DEF RunMoves

LEMMA NoCleanerMoves ==
    ASSUME cleaner' = cleaner
    PROVE  \A s \in Responses : CleanerMoves(s)
BY DEF CleanerMoves

LEMMA OneRunMoves ==
    ASSUME NEW r \in Responses, OnlyEngine(r), RunMoves(r)
    PROVE  \A s \in Responses : RunMoves(s)
<1>1. \A s \in Responses \ {r} : RunMoves(s) BY DEF OnlyEngine, RunMoves
<1> QED BY <1>1

LEMMA OneCleanerMoves ==
    ASSUME NEW r \in Responses, OnlyCleaner(r), CleanerMoves(r)
    PROVE  \A s \in Responses : CleanerMoves(s)
<1>1. \A s \in Responses \ {r} : CleanerMoves(s) BY DEF OnlyCleaner, CleanerMoves
<1> QED BY <1>1

LEMMA EveryMove ==
    ASSUME Linked, \A r \in Responses : OneSettles(r), [Next]_vars
    PROVE  \A r \in Responses : StaysPut(r) \/ RecordMoves(r)
<1> USE DEF Linked
<1> DEFINE Goal == \A r \in Responses : StaysPut(r) \/ RecordMoves(r)
<1>1. CASE UNCHANGED vars
  <2>1. LedgerKept /\ engine' = engine /\ cleaner' = cleaner
    BY <1>1 DEF vars, stores, procs, ledgerVars, LedgerKept
  <2> QED BY <2>1, LedgerKeptMoves, NoRunMoves, NoCleanerMoves
<1>2. ASSUME NEW r \in Responses, Creating(r) PROVE Goal
  <2>1. CASE Admit(r) BY <2>1, AdmitMoves
  <2>2. CASE ~Admit(r)
    <3>1. LedgerKept /\ engine' = engine /\ cleaner' = cleaner
      BY <1>2, <2>2, AskingStep, AnnounceCreatedStep, GiveBackStep DEF Creating
    <3> QED BY <3>1, LedgerKeptMoves, NoRunMoves, NoCleanerMoves
  <2> QED BY <2>1, <2>2
<1>3. ASSUME PollNothing \/ Degrade \/ \E r \in Responses : Heartbeat(r) PROVE Goal
  <2>1. records' = records /\ idem' = idem /\ engine' = engine /\ cleaner' = cleaner
    BY <1>3, AroundStep
  <2> QED BY <2>1, StillPut, MintedKept
<1>4. ASSUME NEW r \in Responses, StillWorking(r) PROVE Goal
  <2>1. LedgerKept /\ cleaner' = cleaner /\ OnlyEngine(r) /\ RunMoves(r)
    BY <1>4 DEF StillWorking, RunMoves
  <2> QED BY <2>1, LedgerKeptMoves, OneRunMoves, NoCleanerMoves
<1>5. ASSUME NEW r \in Responses, Running_(r) \/ Executing(r) PROVE Goal
  <2>1. CASE Conclude(r) BY <1>4, <2>1, ConcludeMoves
  <2>2. CASE \/ AnnounceFence(r) \/ AnnouncePush(r) \/ ReadContext(r) \/ Running_(r)
             \/ EmitPush(r) \/ ProbeFires(r)
    BY <1>4, <2>2, WorkingStep
  <2>3. CASE \/ ArchiveTurn(r) \/ AdvanceTail(r) \/ SettleMarker(r) \/ EndStream(r)
             \/ CloseStream(r)
    <3>1. LedgerKept /\ cleaner' = cleaner /\ OnlyEngine(r)
      BY <2>3, ArchiveTurnStep, AdvanceTailStep, SettleMarkerStep, EndStreamStep,
         CloseStreamStep
    <3>2. RunMoves(r) BY <2>3, SettlingMoves
    <3> QED BY <3>1, <3>2, LedgerKeptMoves, OneRunMoves, NoCleanerMoves
  <2> QED BY <1>5, <2>1, <2>2, <2>3 DEF Executing
<1>6. ASSUME NEW r \in Responses, Cleaning(r) PROVE Goal
  <2>1. LedgerKept /\ engine' = engine /\ OnlyCleaner(r)
    BY <1>6, ReadBackStep, ReplayStep, ArchiveReplayedStep, ReleaseMarkerStep,
       AbortStreamStep, CloseAbortedStep DEF Cleaning
  <2>2. CleanerMoves(r) BY <1>6, CleaningMoves
  <2> QED BY <2>1, <2>2, LedgerKeptMoves, OneCleanerMoves, NoRunMoves
<1>7. ASSUME NEW r \in Responses, DeleteRecord(r) PROVE Goal
  <2>1. /\ idem' = idem /\ engine' = engine /\ cleaner' = cleaner /\ OnlyRecord(r)
        /\ records'[r] = records[r] \/ records'[r].status = "none"
    BY <1>7, DeleteRecordStep
  <2>2. \A s \in Responses : records'[s].status \in {records[s].status, "none"}
    BY <2>1 DEF OnlyRecord
  <2> QED BY <2>1, <2>2, MintedKept, NoRunMoves, NoCleanerMoves DEF StaysPut
<1>8. ASSUME NEW r \in Responses, Deleting(r) PROVE Goal
  <2>1. LedgerKept /\ engine' = engine /\ cleaner' = cleaner
    BY <1>8, RemoveStreamStep, AnnounceDeletedStep DEF Deleting
  <2> QED BY <2>1, LedgerKeptMoves, NoRunMoves, NoCleanerMoves
<1>9. ASSUME Sweep \/ \E c \in Conversations : DropConversation(c) PROVE Goal
  <2>1. LedgerKept /\ engine' = engine /\ cleaner' = cleaner
    BY <1>9, SweepStep, DropStep
  <2> QED BY <2>1, LedgerKeptMoves, NoRunMoves, NoCleanerMoves
<1>10. ASSUME Tick PROVE Goal
  <2>1. /\ LedgerKept
        /\ \A r \in Responses :
              /\ engine'[r].pc = engine[r].pc /\ engine'[r].status = engine[r].status
              /\ engine'[r].emitted = engine[r].emitted
              /\ cleaner'[r].pc = cleaner[r].pc /\ cleaner'[r].kind = cleaner[r].kind
    BY <1>10, TickStep
  <2> QED BY <2>1, LedgerKeptMoves DEF RunMoves, CleanerMoves
<1>11. ASSUME NEW r \in Responses, Crash(r) PROVE Goal
  <2>1. LedgerKept /\ OnlyEngine(r) /\ OnlyCleaner(r) BY <1>11, CrashStep
  <2>2. RunMoves(r) BY <1>11, CrashStep DEF RunMoves, Serving
  <2>3. CleanerMoves(r) BY <1>11, CrashStep DEF CleanerMoves, CleanerWillTell
  <2> QED BY <2>1, <2>2, <2>3, LedgerKeptMoves, OneRunMoves, OneCleanerMoves
<1> HIDE DEF Goal
<1>12. CASE Next
  BY <1>2, <1>3, <1>5, <1>6, <1>7, <1>8, <1>9, <1>10, <1>11, <1>12, ClaimMoves,
     CancelMoves, ReapMoves
     DEF Next, Goal
<1> QED BY <1>1, <1>12 DEF Goal

\* Who settles what: the first layer of the invariant.
Placed == Linked /\ \A r \in Responses : OneSettles(r)

LEMMA InitIsPlaced == Init => Placed
<1> SUFFICES ASSUME Init PROVE Placed OBVIOUS
<1>1. Linked BY InitIsLinked
<1>2. ASSUME NEW r \in Responses PROVE OneSettles(r)
  <2>1. records[r].status = "none" BY NoRecordFields DEF Init, LedgerInit
  <2>2. engine[r].pc = "idle" /\ cleaner[r].pc = "idle" BY DEF Init
  <2> QED BY <2>1, <2>2, Places DEF OneSettles, WithReply
<1> QED BY <1>1, <1>2 DEF Placed

LEMMA PlacedPreserved == Placed /\ [Next]_vars => Placed'
<1> SUFFICES ASSUME Placed, [Next]_vars PROVE Placed' OBVIOUS
<1>1. Linked' BY LinkPreserved DEF Placed
<1>2. \A r \in Responses : StaysPut(r) \/ RecordMoves(r) BY EveryMove DEF Placed
<1>3. \A r \in Responses : OneSettles(r)' BY <1>2, SettleKept DEF Placed, RecordMoves
<1> QED BY <1>1, <1>3 DEF Placed

\* A response that ended stays ended, and what its run produced stays what it
\* was if that is its reply.
LEMMA EndedStays ==
    ASSUME Placed, [Next]_vars, NEW r \in Responses, Ended(r)
    PROVE  /\ Ended(r)' /\ records'[r].status \in {records[r].status, "none"}
           /\ records'[r].status \in WithReply => engine'[r].emitted = engine[r].emitted
<1>1. StaysPut(r) BY EveryMove DEF Placed, RecordMoves
<1>2. Ended(r)' BY <1>1, Places DEF Ended, StaysPut
<1>3. records'[r].status \in WithReply => engine[r].pc \in Settling \cup {"done", "dead"}
  BY <1>1 DEF StaysPut, WithReply, Placed, OneSettles
<1>4. engine[r].pc \notin Working => engine'[r].emitted = engine[r].emitted
  BY <1>1 DEF StaysPut, RunMoves
<1> QED BY <1>1, <1>2, <1>3, <1>4, Places DEF StaysPut

----------------------------------------------------------------------------
(* What the subscribers are told.                                          *)

\* The stream tells no more ends than before.
QuietRing(r) ==
    /\ EndsOnce(logs[r]) => EndsOnce(logs'[r])
    /\ \A body : Tells(logs'[r], body) => Tells(logs[r], body)

\* A push of anything but an end.
LEMMA QuietPush ==
    ASSUME NEW old, NEW new, NEW body, Len(old.ring) \in Nat, Len(new.ring) \in Nat,
           RingPushed(old.ring, new.ring, body), body \notin TerminalBodies
    PROVE  /\ EndsOnce(old) => EndsOnce(new)
           /\ \A b : Tells(new, b) => Tells(old, b)
<1>1. PICK k \in {0, 1} :
         /\ Len(new.ring) = Len(old.ring) + 1 - k
         /\ \A i \in 1..Len(new.ring) :
               IF i + k = Len(old.ring) + 1 THEN new.ring[i].body = body
               ELSE i + k \in 1..Len(old.ring) /\ new.ring[i] = old.ring[i + k]
  BY DEF RingPushed
<1>2. \A i \in 1..Len(new.ring) : new.ring[i].body \in TerminalBodies =>
         i + k \in 1..Len(old.ring) /\ new.ring[i] = old.ring[i + k]
  BY <1>1
<1>3. EndsOnce(old) => EndsOnce(new)
  <2> SUFFICES ASSUME EndsOnce(old), NEW i \in 1..Len(new.ring), NEW j \in 1..Len(new.ring),
                      new.ring[i].body \in TerminalBodies, new.ring[j].body \in TerminalBodies
               PROVE  i = j
    BY DEF EndsOnce
  <2>1. i + k \in 1..Len(old.ring) /\ new.ring[i] = old.ring[i + k] BY <1>2
  <2>2. j + k \in 1..Len(old.ring) /\ new.ring[j] = old.ring[j + k] BY <1>2
  <2>3. i + k = j + k BY <2>1, <2>2 DEF EndsOnce
  <2> QED BY <2>3
<1>4. \A b : Tells(new, b) => Tells(old, b) BY <1>2 DEF Tells
<1> QED BY <1>3, <1>4

\* The push of the first end.
LEMMA EndPush ==
    ASSUME NEW old, NEW new, NEW body, Len(old.ring) \in Nat, Len(new.ring) \in Nat,
           RingPushed(old.ring, new.ring, body),
           \A b \in TerminalBodies : ~Tells(old, b)
    PROVE  /\ EndsOnce(new)
           /\ \A b : Tells(new, b) => b = body
<1>1. PICK k \in {0, 1} :
         /\ Len(new.ring) = Len(old.ring) + 1 - k
         /\ \A i \in 1..Len(new.ring) :
               IF i + k = Len(old.ring) + 1 THEN new.ring[i].body = body
               ELSE i + k \in 1..Len(old.ring) /\ new.ring[i] = old.ring[i + k]
  BY DEF RingPushed
<1>2. \A i \in 1..Len(old.ring) : old.ring[i].body \notin TerminalBodies BY DEF Tells
<1>3. \A i \in 1..Len(new.ring) : new.ring[i].body \in TerminalBodies =>
         i + k = Len(old.ring) + 1 /\ new.ring[i].body = body
  BY <1>1, <1>2
<1>4. \A i, j \in 1..Len(new.ring) :
         i + k = Len(old.ring) + 1 /\ j + k = Len(old.ring) + 1 => i = j
  OBVIOUS
<1>5. EndsOnce(new) BY <1>3, <1>4 DEF EndsOnce
<1>6. \A b : Tells(new, b) => b = body BY <1>3 DEF Tells
<1> QED BY <1>5, <1>6

LEMMA LogLength ==
    ASSUME NEW log \in Log
    PROVE  Len(log.ring) \in Nat
BY DEF Log

LEMMA AppendedQuietly ==
    ASSUME TypeOK, NEW r \in Responses, NEW bodies \in SUBSET Bodies, LogAppended(r, bodies),
           bodies \cap TerminalBodies = {}
    PROVE  \A s \in Responses : QuietRing(s)
<1>1. \A s \in Responses : logs'[s] = logs[s] => QuietRing(s) BY DEF QuietRing
<1>2. ASSUME NEW body \in bodies, logs'[r] = Pushed(logs[r], body) PROVE QuietRing(r)
  <2>1. logs[r] \in Log /\ body \in Bodies BY DEF TypeOK
  <2>2. Pushed(logs[r], body) \in Log /\ RingPushed(logs[r].ring, Pushed(logs[r], body).ring, body)
    BY <2>1, PushedFields
  <2>3. Len(logs[r].ring) \in Nat /\ Len(logs'[r].ring) \in Nat
    BY <1>2, <2>1, <2>2, LogLength
  <2>4. body \notin TerminalBodies OBVIOUS
  <2> QED BY <1>2, <2>2, <2>3, <2>4, QuietPush DEF QuietRing
<1> QED BY <1>1, <1>2 DEF LogAppended, OnlyLog

LEMMA KeptRings ==
    ASSUME \A s \in Responses : logs'[s].ring = logs[s].ring
    PROVE  \A s \in Responses : QuietRing(s)
BY DEF QuietRing, EndsOnce, Tells

LEMMA EmptyRing ==
    ASSUME NEW s \in Responses, logs'[s].ring = <<>>
    PROVE  QuietRing(s)
<1>1. \A i : i \notin 1..Len(<<>>) OBVIOUS
<1> QED BY <1>1 DEF QuietRing, EndsOnce, Tells

\* Only the two terminal events tell an end.
LEMMA EveryRing ==
    ASSUME TypeOK, \A r \in Responses : LedgerLink(r), KeysPair, [Next]_vars,
           ~\E r \in Responses : EndStream(r) \/ AbortStream(r)
    PROVE  \A r \in Responses : QuietRing(r)
<1> DEFINE Goal == \A r \in Responses : QuietRing(r)
<1>0. logs' = logs => Goal BY DEF QuietRing
<1>1. CASE UNCHANGED vars BY <1>0, <1>1 DEF vars, stores
<1>b. {"created", "in_progress", "delta"} \cap TerminalBodies = {}
      /\ {"created", "in_progress", "delta"} \subseteq Bodies
  BY LifecycleConstants
<1>2. ASSUME NEW r \in Responses, Creating(r) PROVE Goal
  <2>1. CASE AnnounceCreated(r)
    <3>1. LogAppended(r, {"created"}) BY <2>1, AnnounceCreatedStep
    <3> QED BY <1>b, <3>1, AppendedQuietly
  <2>2. CASE ~AnnounceCreated(r)
    BY <1>0, <1>2, <2>2, AskingStep, AdmitStep, GiveBackStep DEF Creating
  <2> QED BY <2>1, <2>2
<1>3. ASSUME PollNothing \/ Degrade \/ \E r \in Responses : Heartbeat(r) PROVE Goal
  BY <1>0, <1>3, AroundStep
<1>4. ASSUME NEW r \in Responses, StillWorking(r) PROVE Goal
  <2>1. LogAppended(r, {"in_progress", "delta"}) BY <1>4 DEF StillWorking
  <2> QED BY <1>b, <2>1, AppendedQuietly
<1>5. ASSUME NEW r \in Responses, Running_(r) \/ Executing(r) PROVE Goal
  <2>1. CASE Conclude(r) BY <1>0, <1>4, <2>1, ConcludeStep
  <2>2. CASE \/ AnnounceFence(r) \/ AnnouncePush(r) \/ ReadContext(r) \/ Running_(r)
             \/ EmitPush(r) \/ ProbeFires(r)
    BY <1>4, <2>2, WorkingStep
  <2>3. CASE ArchiveTurn(r) \/ AdvanceTail(r) \/ SettleMarker(r)
    BY <1>0, <2>3, ArchiveTurnStep, AdvanceTailStep, SettleMarkerStep
  <2>4. CASE CloseStream(r)
    <3>1. \A s \in Responses : logs'[s].ring = logs[s].ring
      BY <2>4, CloseStreamStep DEF RingKept, OnlyLog
    <3> QED BY <3>1, KeptRings
  <2> QED BY <1>5, <2>1, <2>2, <2>3, <2>4 DEF Executing
<1>6. ASSUME NEW r \in Responses, Cleaning(r) PROVE Goal
  <2>1. CASE CloseAborted(r)
    <3>1. \A s \in Responses : logs'[s].ring = logs[s].ring
      BY <2>1, CloseAbortedStep DEF RingKept, OnlyLog
    <3> QED BY <3>1, KeptRings
  <2>2. CASE ~CloseAborted(r)
    BY <1>0, <1>6, <2>2, ReadBackStep, ReplayStep, ArchiveReplayedStep, ReleaseMarkerStep
       DEF Cleaning
  <2> QED BY <2>1, <2>2
<1>7. ASSUME NEW r \in Responses,
             Claim(r) \/ Cancel(r) \/ DeleteRecord(r) \/ AnnounceDeleted(r) \/ Crash(r)
      PROVE  Goal
  BY <1>0, <1>7, ClaimStep, CancelStep, DeleteRecordStep, AnnounceDeletedStep, CrashStep
<1>8. ASSUME NEW r \in Responses, RemoveStream(r) PROVE Goal
  <2>1. OnlyLog(r) /\ logs'[r] \in {logs[r], NoLog} BY <1>8, RemoveStreamStep
  <2>2. \A s \in Responses : logs'[s] = logs[s] \/ logs'[s].ring = <<>>
    BY <2>1, NoLogFields DEF OnlyLog
  <2>3. \A s \in Responses : logs'[s] = logs[s] => QuietRing(s) BY DEF QuietRing
  <2> QED BY <2>2, <2>3, EmptyRing
<1>9. ASSUME Sweep PROVE Goal
  <2>1. \A s \in Responses : logs'[s].ring \in {logs[s].ring, <<>>}
    BY <1>9, SweepStep, SweptFields
  <2>2. \A s \in Responses : logs'[s].ring = logs[s].ring => QuietRing(s)
    BY DEF QuietRing, EndsOnce, Tells
  <2> QED BY <2>1, <2>2, EmptyRing
<1>10. ASSUME Tick PROVE Goal
  <2>1. \A s \in Responses : logs'[s].ring = logs[s].ring BY <1>10, TickStep
  <2> QED BY <2>1, KeptRings
<1>11. ASSUME Reap \/ \E c \in Conversations : DropConversation(c) PROVE Goal
  BY <1>0, <1>11, ReapStep, DropStep
<1> HIDE DEF Goal
<1>12. CASE Next
  BY <1>2, <1>3, <1>5, <1>6, <1>7, <1>8, <1>9, <1>10, <1>11, <1>12
     DEF Next, Deleting, Goal
<1> QED BY <1>1, <1>12 DEF Goal

\* The run tells the end.
LEMMA RunTells ==
    ASSUME Placed, Placed', NEW r \in Responses, EndStream(r), StreamSound(r),
           StaysPut(r)
    PROVE  StreamSound(r)'
<1>1. /\ engine[r].pc = "terminal" /\ engine'[r].pc = "close"
      /\ cleaner' = cleaner /\ records' = records
      /\ engine'[r].status = engine[r].status
      /\ LogAppended(r, {engine[r].status})
  BY EndStreamStep DEF Placed, Linked, LedgerKept
<1>2. engine[r].status \in TerminalBodies BY EngineFields DEF Placed, Linked
<1>3. RunWillTell(r) BY <1>1, Places DEF RunWillTell
<1>4. \A b \in TerminalBodies : ~Tells(logs[r], b) BY <1>3 DEF StreamSound
<1>5. EndsOnce(logs'[r]) /\ \A b : Tells(logs'[r], b) => b = engine[r].status
  <2>0. PICK body : body = engine[r].status OBVIOUS
  <2>1. CASE logs'[r] = logs[r]
    BY <1>4, <2>1 DEF Tells, StreamSound
  <2>2. CASE logs'[r] = Pushed(logs[r], body)
    <3>1. logs[r] \in Log /\ body \in Bodies
      BY <1>2, <2>0, EventLogConstants DEF Placed, Linked, TypeOK
    <3>2. /\ Pushed(logs[r], body) \in Log
          /\ RingPushed(logs[r].ring, logs'[r].ring, body)
      BY <2>2, <3>1, PushedFields
    <3>3. Len(logs[r].ring) \in Nat /\ Len(logs'[r].ring) \in Nat
      BY <2>2, <3>1, <3>2, LogLength
    <3>4. EndsOnce(logs'[r]) /\ \A b : Tells(logs'[r], b) => b = body
      BY <1>4, <3>2, <3>3, EndPush
    <3> QED BY <2>0, <3>4
  <2> QED BY <1>1, <2>0, <2>1, <2>2 DEF LogAppended
<1>6. engine'[r].pc \in Settling BY <1>1, Places
<1>7. Ended(r)' /\ cleaner'[r].pc = "idle" /\ records'[r].status \in {engine'[r].status, "none"}
  BY <1>6 DEF Placed, OneSettles
<1>8. ~RunWillTell(r)' /\ ~CleanerWillTell(r)'
  BY <1>1, <1>7 DEF RunWillTell, CleanerWillTell
<1>9. \A b : b = engine[r].status => Agrees(r, b)'
  BY <1>1, <1>7 DEF Agrees, Exists
<1> QED BY <1>5, <1>7, <1>8, <1>9 DEF StreamSound

\* The cancel, or the sweeper, tells the end.
LEMMA CleanerTells ==
    ASSUME Placed, Placed', NEW r \in Responses, AbortStream(r), StreamSound(r)
    PROVE  StreamSound(r)'
<1>1. /\ cleaner[r].pc = "terminal" /\ cleaner'[r].pc = "close"
      /\ engine' = engine /\ LogAppended(r, {"failed"})
  BY AbortStreamStep DEF Placed, Linked, LedgerKept
<1>2. "failed" \in TerminalBodies BY LifecycleConstants
<1>3. CleanerWillTell(r) BY <1>1 DEF CleanerWillTell
<1>4. \A b \in TerminalBodies : ~Tells(logs[r], b) BY <1>3 DEF StreamSound
<1>5. EndsOnce(logs'[r]) /\ \A b : Tells(logs'[r], b) => b = "failed"
  <2>1. CASE logs'[r] = logs[r]
    BY <1>4, <2>1 DEF Tells, StreamSound
  <2>2. CASE logs'[r] = Pushed(logs[r], "failed")
    <3>1. logs[r] \in Log /\ "failed" \in Bodies
      BY <1>2, EventLogConstants DEF Placed, Linked, TypeOK
    <3>2. /\ Pushed(logs[r], "failed") \in Log
          /\ RingPushed(logs[r].ring, logs'[r].ring, "failed")
      BY <2>2, <3>1, PushedFields
    <3>3. Len(logs[r].ring) \in Nat /\ Len(logs'[r].ring) \in Nat
      BY <2>2, <3>1, <3>2, LogLength
    <3> QED BY <1>4, <3>2, <3>3, EndPush
  <2> QED BY <1>1, <2>1, <2>2 DEF LogAppended
<1>6. Ended(r)' /\ records'[r].status \in {"failed", "cancelled", "none"}
      /\ engine'[r].pc \notin Settling
  BY <1>1 DEF Placed, OneSettles
<1>7. ~RunWillTell(r)' /\ ~CleanerWillTell(r)'
  BY <1>1, <1>6 DEF RunWillTell, CleanerWillTell
<1>8. Agrees(r, "failed")' BY <1>6 DEF Agrees, Exists
<1> QED BY <1>5, <1>6, <1>7, <1>8 DEF StreamSound

\* A step that tells nothing new, about a response whose record stays.
LEMMA StreamKept ==
    ASSUME NEW r \in Responses, StreamSound(r), StaysPut(r), QuietRing(r)
    PROVE  StreamSound(r)'
<1>1. EndsOnce(logs'[r]) BY DEF StreamSound, QuietRing
<1>2. ASSUME NEW b \in TerminalBodies, Tells(logs'[r], b)
      PROVE  Ended(r)' /\ ~RunWillTell(r)' /\ ~CleanerWillTell(r)' /\ Agrees(r, b)'
  <2>1. Ended(r) /\ ~RunWillTell(r) /\ ~CleanerWillTell(r) /\ Agrees(r, b)
    BY <1>2 DEF StreamSound, QuietRing
  <2>2. Ended(r)' BY <2>1, Places DEF Ended, StaysPut
  <2>3. ~RunWillTell(r)' BY <2>1, Places DEF StaysPut, RunMoves, RunWillTell
  <2>4. ~CleanerWillTell(r)'
    BY <2>1 DEF StaysPut, CleanerMoves, CleanerWillTell
  <2>5. Agrees(r, b)' BY <2>1 DEF Agrees, StaysPut, Exists
  <2> QED BY <2>2, <2>3, <2>4, <2>5
<1> QED BY <1>1, <1>2 DEF StreamSound

\* Before the record moves nothing was told.
LEMMA StreamStarts ==
    ASSUME NEW r \in Responses, StreamSound(r), RecordMoves(r)
    PROVE  StreamSound(r)'
BY DEF StreamSound, RecordMoves

Streamed == \A r \in Responses : StreamSound(r)

LEMMA InitIsStreamed == Init => Streamed
<1> SUFFICES ASSUME Init, NEW r \in Responses PROVE StreamSound(r) BY DEF Streamed
<1>1. logs[r].ring = <<>> BY NoLogFields DEF Init, LogInit
<1>2. \A i : i \notin 1..Len(<<>>) OBVIOUS
<1> QED BY <1>1, <1>2 DEF StreamSound, EndsOnce, Tells

LEMMA StreamedPreserved == Placed /\ Placed' /\ Streamed /\ [Next]_vars => Streamed'
<1> SUFFICES ASSUME Placed, Placed', Streamed, [Next]_vars, NEW r \in Responses
             PROVE  StreamSound(r)'
  BY DEF Streamed
<1>1. StaysPut(r) \/ RecordMoves(r) BY EveryMove DEF Placed
<1>2. StreamSound(r) BY DEF Streamed
<1>3. CASE RecordMoves(r) BY <1>2, <1>3, StreamStarts
<1>4. CASE StaysPut(r)
  <2>1. CASE EndStream(r) BY <1>2, <1>4, <2>1, RunTells
  <2>2. CASE AbortStream(r) BY <1>2, <2>2, CleanerTells
  <2>3. CASE ~EndStream(r) /\ ~AbortStream(r)
    <3>1. CASE \E s \in Responses : EndStream(s) \/ AbortStream(s)
      <4>1. PICK s \in Responses : EndStream(s) \/ AbortStream(s) BY <3>1
      <4>2. OnlyLog(s)
        BY <4>1, EndStreamStep, AbortStreamStep DEF Placed, Linked, LogAppended
      <4>3. s # r BY <2>3, <4>1
      <4>4. logs'[r] = logs[r] BY <4>2, <4>3 DEF OnlyLog
      <4>5. QuietRing(r) BY <4>4 DEF QuietRing
      <4> QED BY <1>2, <1>4, <4>5, StreamKept
    <3>2. CASE ~\E s \in Responses : EndStream(s) \/ AbortStream(s)
      <4>1. QuietRing(r) BY <3>2, EveryRing DEF Placed, Linked
      <4> QED BY <1>2, <1>4, <4>1, StreamKept
    <3> QED BY <3>1, <3>2
  <2> QED BY <2>1, <2>2, <2>3
<1> QED BY <1>1, <1>3, <1>4

----------------------------------------------------------------------------
(* What the conversations hold.                                            *)

\* What a step may do to a conversation: drop it, or archive a turn that is
\* sound, or move the tail to one that is.
ConvMoves(c) ==
    \/ convs'[c] = NoConv
    \/ /\ convs'[c].live = convs[c].live
       /\ \A s : Archived(convs[c], s) => Archived(convs'[c], s)
       /\ \A i \in 1..Len(convs'[c].turns) :
             \/ \E j \in 1..Len(convs[c].turns) : convs'[c].turns[i] = convs[c].turns[j]
             \/ TurnSound(c, convs[c].turns[i])'
       /\ convs'[c].tail = convs[c].tail \/ TailSound(c)'
       /\ convs'[c].tenant = convs[c].tenant

LEMMA SameConv ==
    ASSUME NEW c, convs'[c].live = convs[c].live, convs'[c].turns = convs[c].turns,
           convs'[c].tail = convs[c].tail, convs'[c].tenant = convs[c].tenant
    PROVE  ConvMoves(c)
BY DEF ConvMoves, Archived

LEMMA MarksMove ==
    ASSUME NEW a, NEW e, MarksOnly(a, e)
    PROVE  \A c \in Conversations : ConvMoves(c)
BY SameConv DEF MarksOnly, OnlyConv, Marked

LEMMA TurnMoves ==
    ASSUME NEW r, NEW output, OnlyConv(ConvOf[r]),
           ConvOf[r] \in Conversations =>
              TurnAdded(convs[ConvOf[r]], convs'[ConvOf[r]], Turn(r, output)),
           Ended(r)', records'[r].status \in WithReply => output = engine'[r].emitted
    PROVE  \A c \in Conversations : ConvMoves(c)
<1>1. \A c \in Conversations : c # ConvOf[r] => ConvMoves(c) BY SameConv DEF OnlyConv
<1>2. ASSUME NEW c \in Conversations, c = ConvOf[r] PROVE ConvMoves(c)
  <2>1. TurnAdded(convs[c], convs'[c], Turn(r, output)) BY <1>2
  <2>2. Turn(r, output).response = r /\ Turn(r, output).output = output BY DEF Turn
  <2>3. ASSUME NEW i \in 1..Len(convs'[c].turns), convs'[c].turns[i] = Turn(r, output)
        PROVE  TurnSound(c, convs[c].turns[i])'
    BY <1>2, <2>2, <2>3 DEF TurnSound
  <2> QED BY <2>1, <2>3 DEF TurnAdded, ConvMoves
<1> QED BY <1>1, <1>2

LEMMA AdvanceMoves ==
    ASSUME Placed, NEW r \in Responses, AdvanceTail(r), AdvanceSound(r)
    PROVE  \A c \in Conversations : ConvMoves(c)
<1>1. /\ LedgerKept /\ engine[r].pc = "advance" /\ OnlyConv(ConvOf[r])
      /\ ConvOf[r] \in Conversations =>
            LET old == convs[ConvOf[r]]
                new == convs'[ConvOf[r]]
            IN  /\ new.live = old.live /\ new.tenant = old.tenant /\ new.turns = old.turns
                /\ \/ new.tail = old.tail
                   \/ new.tail = r /\ old.live
  BY AdvanceTailStep DEF Placed, Linked
<1>2. \A c \in Conversations : c # ConvOf[r] => ConvMoves(c)
  BY <1>1, SameConv DEF OnlyConv
<1>3. ASSUME NEW c \in Conversations, c = ConvOf[r] PROVE ConvMoves(c)
  <2>1. CASE convs'[c].tail = convs[c].tail BY <1>1, <1>3, <2>1, SameConv
  <2>2. CASE convs'[c].tail = r /\ convs[c].live
    <3>1. HasConv(r) BY <1>3, ConversationConstants DEF HasConv
    <3>2. engine[r].status \in WithReply /\ Archived(convs[c], r)
      BY <1>1, <1>3, <2>2, <3>1 DEF AdvanceSound, Stays
    <3>3. Ended(r) /\ records[r].status \in {engine[r].status, "none"}
      BY <1>1, Places DEF Placed, OneSettles
    <3>4. Minted(r)' /\ records' = records
      BY <1>1, <3>3, MintedKept DEF Ended, LedgerKept
    <3>5. Archived(convs'[c], r) BY <1>1, <1>3, <3>2 DEF Archived
    <3>6. TailSound(c)' BY <2>2, <3>2, <3>3, <3>4, <3>5 DEF TailSound
    <3> QED BY <1>1, <1>3, <3>6 DEF ConvMoves, Archived
  <2> QED BY <1>1, <1>3, <2>1, <2>2
<1> QED BY <1>2, <1>3

LEMMA EveryConv ==
    ASSUME Placed, \A r \in Responses : AdvanceSound(r), [Next]_vars
    PROVE  \A c \in Conversations : ConvMoves(c)
<1> USE DEF Placed, Linked
<1> DEFINE Goal == \A c \in Conversations : ConvMoves(c)
<1>0. convs' = convs => Goal BY SameConv
<1>1. CASE UNCHANGED vars BY <1>0, <1>1 DEF vars, stores, convVars
<1>2. ASSUME NEW r \in Responses, Creating(r) PROVE Goal
  BY <1>0, <1>2, MarksMove, AskingStep, AdmitStep, AnnounceCreatedStep, GiveBackStep
     DEF Creating, ConvsKept
<1>3. ASSUME PollNothing \/ Degrade \/ \E r \in Responses : Heartbeat(r) PROVE Goal
  BY <1>0, <1>3, AroundStep DEF ConvsKept
<1>4. ASSUME NEW r \in Responses, StillWorking(r) PROVE Goal
  BY <1>0, <1>4 DEF StillWorking, ConvsKept
<1>5. ASSUME NEW r \in Responses, ArchiveTurn(r) PROVE Goal
  <2>1. /\ LedgerKept /\ OnlyConv(ConvOf[r]) /\ engine[r].pc = "archive"
        /\ ConvOf[r] \in Conversations =>
             TurnAdded(convs[ConvOf[r]], convs'[ConvOf[r]], Turn(r, engine[r].emitted))
        /\ engine'[r].emitted = engine[r].emitted
    BY <1>5, ArchiveTurnStep
  <2>2. Ended(r) BY <2>1, Places DEF OneSettles
  <2>3. Ended(r)' BY <2>1, <2>2, MintedKept DEF Ended, LedgerKept
  <2> QED BY <2>1, <2>3, TurnMoves
<1>6. ASSUME NEW r \in Responses, ArchiveReplayed(r) PROVE Goal
  <2>1. /\ LedgerKept /\ OnlyConv(ConvOf[r]) /\ cleaner[r].pc = "archive"
        /\ ConvOf[r] \in Conversations =>
             TurnAdded(convs[ConvOf[r]], convs'[ConvOf[r]], Turn(r, cleaner[r].output))
    BY <1>6, ArchiveReplayedStep
  <2>2. Ended(r) /\ records[r].status \in {"failed", "cancelled", "none"}
    BY <2>1 DEF OneSettles
  <2>3. Ended(r)' BY <2>1, <2>2, MintedKept DEF Ended, LedgerKept
  <2>4. records'[r].status \notin WithReply BY <2>1, <2>2 DEF WithReply, LedgerKept
  <2> QED BY <2>1, <2>3, <2>4, TurnMoves
<1>7. ASSUME NEW r \in Responses, Running_(r) \/ Executing(r) PROVE Goal
  <2>1. CASE Conclude(r) BY <1>0, <1>4, <2>1, ConcludeStep DEF ConvsKept
  <2>2. CASE \/ AnnounceFence(r) \/ AnnouncePush(r) \/ ReadContext(r) \/ Running_(r)
             \/ EmitPush(r) \/ ProbeFires(r)
    BY <1>4, <2>2, WorkingStep
  <2>3. CASE AdvanceTail(r) BY <2>3, AdvanceMoves
  <2>4. CASE SettleMarker(r) BY <2>4, SettleMarkerStep, MarksMove
  <2>5. CASE EndStream(r) \/ CloseStream(r)
    BY <1>0, <2>5, EndStreamStep, CloseStreamStep DEF ConvsKept
  <2> QED BY <1>5, <1>7, <2>1, <2>2, <2>3, <2>4, <2>5 DEF Executing
<1>8. ASSUME NEW r \in Responses, Cleaning(r) PROVE Goal
  <2>1. CASE ReleaseMarker(r) BY <2>1, ReleaseMarkerStep, MarksMove
  <2> QED BY <1>0, <1>6, <1>8, <2>1, ReadBackStep, ReplayStep, AbortStreamStep,
             CloseAbortedStep
          DEF Cleaning, ConvsKept
<1>9. ASSUME NEW r \in Responses,
             Claim(r) \/ Cancel(r) \/ DeleteRecord(r) \/ RemoveStream(r) \/ Crash(r)
      PROVE  Goal
  BY <1>0, <1>9, ClaimStep, CancelStep, DeleteRecordStep, RemoveStreamStep, CrashStep
     DEF ConvsKept
<1>10. ASSUME NEW r \in Responses, AnnounceDeleted(r) PROVE Goal
  BY <1>10, AnnounceDeletedStep, MarksMove
<1>11. ASSUME NEW d \in Conversations, DropConversation(d) PROVE Goal
  <2>1. OnlyConv(d) /\ convs'[d] = NoConv BY <1>11, DropStep
  <2>2. \A c \in Conversations \ {d} : ConvMoves(c) BY <2>1, SameConv DEF OnlyConv
  <2>3. ConvMoves(d) BY <2>1 DEF ConvMoves
  <2> QED BY <2>2, <2>3
<1>12. ASSUME Reap \/ Sweep \/ Tick PROVE Goal
  BY <1>0, <1>12, ReapStep, SweepStep, TickStep DEF ConvsKept
<1> HIDE DEF Goal
<1>13. CASE Next
  BY <1>2, <1>3, <1>7, <1>8, <1>9, <1>10, <1>11, <1>12, <1>13 DEF Next, Deleting, Goal
<1> QED BY <1>1, <1>13 DEF Goal

LEMMA ElementsOf ==
    ASSUME NEW S, NEW s \in Seq(S)
    PROVE  \A i \in 1..Len(s) : s[i] \in S
OBVIOUS

\* The types of a conversation's turns and tail.
LEMMA ConvFields ==
    ASSUME TypeOK, NEW c \in Conversations
    PROVE  /\ convs[c].tail \in Responses \cup {None}
           /\ \A i \in 1..Len(convs[c].turns) : convs[c].turns[i].response \in Responses
<1>1. convs[c] \in CountedConv BY DEF TypeOK
<1> DEFINE T == [response : Responses, output : Nat]
<1>2. convs[c].turns \in Seq(T) BY <1>1 DEF CountedConv
<1> HIDE DEF T
<1>3. \A i \in 1..Len(convs[c].turns) : convs[c].turns[i] \in T BY <1>2, ElementsOf
<1>4. \A i \in 1..Len(convs[c].turns) : convs[c].turns[i].response \in Responses
  BY <1>3 DEF T
<1> QED BY <1>1, <1>4 DEF CountedConv

LEMMA TurnsKept ==
    ASSUME Placed, [Next]_vars, NEW c \in Conversations, ConvMoves(c), TurnsSound(c)
    PROVE  TurnsSound(c)'
<1>1. CASE convs'[c] = NoConv
  <2>1. \A i : i \notin 1..Len(<<>>) OBVIOUS
  <2> QED BY <1>1, <2>1, NoConvFields DEF TurnsSound
<1>2. ASSUME NEW i \in 1..Len(convs'[c].turns),
             NEW j \in 1..Len(convs[c].turns), convs'[c].turns[i] = convs[c].turns[j]
      PROVE  TurnSound(c, convs[c].turns[i])'
  <2>1. PICK r \in Responses : r = convs[c].turns[j].response
    BY ConvFields DEF Placed, Linked
  <2>2. TurnSound(c, convs[c].turns[j]) BY DEF TurnsSound
  <2>3. /\ ConvOf[r] = c /\ Ended(r)
        /\ records[r].status \in WithReply => convs[c].turns[j].output = engine[r].emitted
    BY <2>1, <2>2 DEF TurnSound
  <2>4. /\ Ended(r)' /\ records'[r].status \in {records[r].status, "none"}
        /\ records'[r].status \in WithReply => engine'[r].emitted = engine[r].emitted
    BY <2>3, EndedStays
  <2>5. "none" \notin WithReply BY DEF WithReply
  <2> QED BY <1>2, <2>1, <2>3, <2>4, <2>5 DEF TurnSound
<1> QED BY <1>1, <1>2 DEF ConvMoves, TurnsSound

LEMMA TailKept ==
    ASSUME Placed, [Next]_vars, NEW c \in Conversations, ConvMoves(c), TailSound(c)
    PROVE  TailSound(c)'
<1>1. CASE convs'[c] = NoConv BY <1>1, NoConvFields DEF TailSound
<1>2. CASE /\ \A s : Archived(convs[c], s) => Archived(convs'[c], s)
           /\ convs'[c].tail = convs[c].tail
  <2>1. CASE convs[c].tail = None BY <1>2, <2>1 DEF TailSound
  <2>2. CASE convs[c].tail # None
    <3>1. PICK r \in Responses : r = convs[c].tail
      BY <2>2, ConvFields DEF Placed, Linked
    <3>2. /\ Archived(convs[c], r) /\ Minted(r)
          /\ records[r].status \in WithReply \cup {"none"}
      BY <2>2, <3>1 DEF TailSound
    <3>3. Ended(r) BY <3>2, Places DEF Ended
    <3>4. Ended(r)' /\ records'[r].status \in {records[r].status, "none"}
      BY <3>3, EndedStays
    <3> QED BY <1>2, <3>1, <3>2, <3>4 DEF TailSound, Ended
  <2> QED BY <2>1, <2>2
<1> QED BY <1>1, <1>2 DEF ConvMoves

LEMMA StaysKept ==
    ASSUME NEW r \in Responses, \A c \in Conversations : ConvMoves(c), Stays(r)
    PROVE  Stays(r)'
<1>1. HasConv(r) => ConvOf[r] \in Conversations BY LifecycleConstants DEF HasConv
<1> QED BY <1>1, NoConvFields DEF Stays, ConvMoves, HasConv

LEMMA AdvanceKept ==
    ASSUME Placed, [Next]_vars, \A c \in Conversations : ConvMoves(c),
           NEW r \in Responses, AdvanceSound(r)
    PROVE  AdvanceSound(r)'
<1>1. CASE ArchiveTurn(r)
  <2>1. /\ engine'[r].pc = IF TurnStored(r) /\ engine[r].status # "failed"
                           THEN "advance" ELSE "release"
        /\ engine'[r].status = engine[r].status
        /\ ConvOf[r] \in Conversations =>
              (TurnStored(r) => Archived(convs'[ConvOf[r]], r))
    BY <1>1, ArchiveTurnStep DEF Placed, Linked
  <2>2. engine[r].status \in TerminalBodies BY EngineFields DEF Placed, Linked
  <2>3. engine'[r].pc = "advance" =>
          engine'[r].status \in WithReply /\ TurnStored(r)
    BY <2>1, <2>2, LifecycleConstants DEF WithReply
  <2>4. HasConv(r) => ConvOf[r] \in Conversations BY LifecycleConstants DEF HasConv
  <2> QED BY <2>1, <2>3, <2>4 DEF AdvanceSound, Stays, HasConv
<1>2. CASE ~ArchiveTurn(r)
  <2> SUFFICES ASSUME engine'[r].pc = "advance"
               PROVE  engine'[r].status \in WithReply /\ Stays(r)'
    BY DEF AdvanceSound
  <2>1. StaysPut(r) BY EveryMove, Places DEF Placed, RecordMoves
  <2>2. engine[r].pc = "advance" /\ engine'[r].status = engine[r].status
    BY <1>2, <2>1, Places DEF StaysPut, RunMoves
  <2> QED BY <2>2, StaysKept DEF AdvanceSound
<1> QED BY <1>1, <1>2

----------------------------------------------------------------------------
(* The invariant of the composition.                                       *)

LEMMA InvariantLayers ==
    LifecycleInvariant <=>
        /\ Placed /\ Streamed
        /\ \A r \in Responses : AdvanceSound(r)
        /\ \A c \in Conversations : TurnsSound(c) /\ TailSound(c)
BY DEF LifecycleInvariant, ResponseSound, Placed, Linked, Streamed

LEMMA InitIsSound == Init => LifecycleInvariant
<1> SUFFICES ASSUME Init PROVE LifecycleInvariant OBVIOUS
<1>1. \A r \in Responses : AdvanceSound(r) BY DEF Init, AdvanceSound
<1>2. ASSUME NEW c \in Conversations PROVE TurnsSound(c) /\ TailSound(c)
  <2>1. convs[c].turns = <<>> /\ convs[c].tail = None BY DEF Init, NoConv
  <2>2. \A i : i \notin 1..Len(<<>>) OBVIOUS
  <2> QED BY <2>1, <2>2 DEF TurnsSound, TailSound
<1> QED BY <1>1, <1>2, InitIsPlaced, InitIsStreamed, InvariantLayers

LEMMA SoundPreserved == LifecycleInvariant /\ [Next]_vars => LifecycleInvariant'
<1> SUFFICES ASSUME LifecycleInvariant, [Next]_vars PROVE LifecycleInvariant' OBVIOUS
<1>1. /\ Placed /\ Streamed
      /\ \A r \in Responses : AdvanceSound(r)
      /\ \A c \in Conversations : TurnsSound(c) /\ TailSound(c)
  BY InvariantLayers
<1>2. Placed' BY <1>1, PlacedPreserved
<1>3. Streamed' BY <1>1, <1>2, StreamedPreserved
<1>4. \A c \in Conversations : ConvMoves(c) BY <1>1, EveryConv
<1>5. \A r \in Responses : AdvanceSound(r)' BY <1>1, <1>4, AdvanceKept
<1>6. \A c \in Conversations : TurnsSound(c)' /\ TailSound(c)'
  BY <1>1, <1>4, TurnsKept, TailKept
<1> QED BY <1>2, <1>3, <1>5, <1>6 DEF LifecycleInvariant, ResponseSound, Placed, Linked,
                                      Streamed

\* The ledger, the stream and the conversation of a response tell one story,
\* whatever runs, cancels, sweeps and dies (Lifecycle: every action).
THEOREM LifecycleStaysSound == Spec => []LifecycleInvariant
BY InitIsSound, SoundPreserved, PTL DEF Spec

\* A response ends once for its subscribers, and as the ledger has it: the
\* completion, the cancel and the sweeper never leave two terminal events or
\* one that contradicts the record (EndStream, AbortStream).
THEOREM ResponsesEndOnce == Spec => []StreamAgreesWithLedger
<1>1. LifecycleInvariant => StreamAgreesWithLedger
  <2> SUFFICES ASSUME LifecycleInvariant, NEW r \in Responses,
                      NEW i \in 1..Len(logs[r].ring), TerminalAt(r, i)
               PROVE  /\ \A j \in 1..Len(logs[r].ring) : TerminalAt(r, j) => i = j
                      /\ Exists(r) =>
                            IF logs[r].ring[i].body = "failed"
                            THEN records[r].status \in {"failed", "cancelled"}
                            ELSE records[r].status = logs[r].ring[i].body
    BY DEF StreamAgreesWithLedger
  <2>1. StreamSound(r) BY DEF LifecycleInvariant, ResponseSound
  <2>2. \A j \in 1..Len(logs[r].ring) : TerminalAt(r, j) => i = j
    BY <2>1 DEF StreamSound, EndsOnce, TerminalAt
  <2>3. Agrees(r, logs[r].ring[i].body) BY <2>1 DEF StreamSound, Tells, TerminalAt
  <2> QED BY <2>2, <2>3 DEF Agrees
<1> QED BY <1>1, LifecycleStaysSound, PTL

\* What the snapshot holds of a completed turn is what its own run produced,
\* whichever funnel archived it (ArchiveTurn, ArchiveReplayed; INV-48).
THEOREM OutputsAreKept == Spec => []CompletedTurnsKeepTheirOutput
<1>1. LifecycleInvariant => CompletedTurnsKeepTheirOutput
  <2> SUFFICES ASSUME LifecycleInvariant, NEW r \in Responses, HasConv(r),
                      records[r].status \in WithReply,
                      NEW i \in 1..Len(convs[ConvOf[r]].turns),
                      convs[ConvOf[r]].turns[i].response = r
               PROVE  convs[ConvOf[r]].turns[i].output = engine[r].emitted
    BY DEF CompletedTurnsKeepTheirOutput, WithReply
  <2>1. ConvOf[r] \in Conversations BY LifecycleConstants DEF HasConv
  <2>2. TurnSound(ConvOf[r], convs[ConvOf[r]].turns[i])
    BY <2>1 DEF LifecycleInvariant, TurnsSound
  <2> QED BY <2>2 DEF TurnSound
<1> QED BY <1>1, LifecycleStaysSound, PTL

\* The next turn never continues from a response without a reply: the tail is
\* an archived turn that completed (AdvanceTail; INV-55).
THEOREM TailsHaveReplies == Spec => []TailHasCommitted
<1>1. LifecycleInvariant => TailHasCommitted
  BY DEF LifecycleInvariant, TailSound, TailHasCommitted, WithReply, Exists
<1> QED BY <1>1, LifecycleStaysSound, PTL

----------------------------------------------------------------------------
(* What the announcements mean while no write is refused.                  *)

\* Only the degrade gate makes the stores read-only.
LEMMA StillWritable ==
    ASSUME Placed, [Next]_vars, ~Degradable
    PROVE  readOnly' = readOnly
<1> USE DEF Placed, Linked, LedgerKept
<1>1. CASE UNCHANGED vars BY <1>1 DEF vars, stores, ledgerVars
<1>2. ASSUME NEW r \in Responses, Creating(r) PROVE readOnly' = readOnly
  BY <1>2, AskingStep, AdmitStep, AnnounceCreatedStep, GiveBackStep
     DEF Creating, LedgerCreate
<1>3. ASSUME PollNothing \/ Degrade \/ \E r \in Responses : Heartbeat(r)
      PROVE  readOnly' = readOnly
  BY <1>3, AroundStep
<1>4. ASSUME NEW r \in Responses, Running_(r) \/ Executing(r) PROVE readOnly' = readOnly
  <2>1. CASE Conclude(r) BY <2>1, ConcludeStep DEF StillWorking
  <2>2. CASE \/ AnnounceFence(r) \/ AnnouncePush(r) \/ ReadContext(r) \/ Running_(r)
             \/ EmitPush(r) \/ ProbeFires(r)
    BY <2>2, WorkingStep DEF StillWorking
  <2> QED BY <1>4, <2>1, <2>2, ArchiveTurnStep, AdvanceTailStep, SettleMarkerStep,
             EndStreamStep, CloseStreamStep
          DEF Executing
<1>5. ASSUME NEW r \in Responses, Cleaning(r) \/ Deleting(r) PROVE readOnly' = readOnly
  BY <1>5, ReadBackStep, ReplayStep, ArchiveReplayedStep, ReleaseMarkerStep,
     AbortStreamStep, CloseAbortedStep, RemoveStreamStep, AnnounceDeletedStep
     DEF Cleaning, Deleting
<1>6. ASSUME NEW r \in Responses, Claim(r) \/ Cancel(r) \/ DeleteRecord(r) \/ Crash(r)
      PROVE  readOnly' = readOnly
  BY <1>6, ClaimStep, CancelStep, DeleteRecordStep, CrashStep
<1>7. ASSUME Reap \/ Sweep \/ Tick \/ \E c \in Conversations : DropConversation(c)
      PROVE  readOnly' = readOnly
  BY <1>7, ReapStep, SweepStep, TickStep, DropStep
<1>8. CASE Next BY <1>2, <1>3, <1>4, <1>5, <1>6, <1>7, <1>8 DEF Next
<1> QED BY <1>1, <1>8

\* What a step may do to the create call of a response.
CreateMoves(r) ==
    \/ creator'[r].pc = creator[r].pc
    \/ creator[r].pc \in Asking /\ creator'[r].pc \in Asking \cup {"refused"}
    \/ Admit(r) /\ creator'[r].pc = "announce"
    \/ Admit(r) /\ LedgerKept /\ creator'[r].pc = "giveback"
    \/ /\ AnnounceCreated(r) /\ creator[r].pc = "announce"
       /\ creator'[r].pc = "accepted" \/ (creator'[r].pc = "giveback" /\ ~CanAppend(r))
    \/ creator[r].pc = "giveback" /\ creator'[r].pc = "refused"
    \/ creator'[r].pc = "dead"

LEMMA EveryCreate ==
    ASSUME Placed, [Next]_vars
    PROVE  \A r \in Responses : CreateMoves(r)
<1> USE DEF Placed, Linked
<1> DEFINE Goal == \A r \in Responses : CreateMoves(r)
<1>0. creator' = creator => Goal BY DEF CreateMoves
<1>a. ASSUME NEW r \in Responses, OnlyCreator(r), CreateMoves(r) PROVE Goal
  <2>1. \A s \in Responses \ {r} : CreateMoves(s) BY <1>a DEF OnlyCreator, CreateMoves
  <2> QED BY <1>a, <2>1
<1>1. CASE UNCHANGED vars BY <1>0, <1>1 DEF vars, procs
<1>2. ASSUME NEW r \in Responses, Creating(r) PROVE Goal
  <2>1. OnlyCreator(r)
    BY <1>2, AskingStep, AdmitStep, AnnounceCreatedStep, GiveBackStep DEF Creating
  <2>2. ASSUME Admit(r) PROVE CreateMoves(r) BY <2>2, AdmitStep DEF CreateMoves
  <2>3. ASSUME AnnounceCreated(r) PROVE CreateMoves(r)
    BY <2>3, AnnounceCreatedStep DEF CreateMoves
  <2>4. ASSUME GiveBack(r) PROVE CreateMoves(r) BY <2>4, GiveBackStep DEF CreateMoves
  <2>5. ASSUME Resolve(r) \/ TakeMarker(r) \/ InspectHolder(r) \/ TakeOver(r)
        PROVE  CreateMoves(r)
    BY <2>5, AskingStep DEF CreateMoves
  <2>6. CreateMoves(r) BY <1>2, <2>2, <2>3, <2>4, <2>5 DEF Creating
  <2> QED BY <1>a, <2>1, <2>6
<1>3. ASSUME PollNothing \/ Degrade \/ \E r \in Responses : Heartbeat(r) PROVE Goal
  BY <1>0, <1>3, AroundStep
<1>4. ASSUME NEW r \in Responses, Running_(r) \/ Executing(r) PROVE Goal
  <2>1. CASE Conclude(r) BY <1>0, <2>1, ConcludeStep DEF StillWorking
  <2>2. CASE \/ AnnounceFence(r) \/ AnnouncePush(r) \/ ReadContext(r) \/ Running_(r)
             \/ EmitPush(r) \/ ProbeFires(r)
    BY <1>0, <2>2, WorkingStep DEF StillWorking
  <2> QED BY <1>0, <1>4, <2>1, <2>2, ArchiveTurnStep, AdvanceTailStep, SettleMarkerStep,
             EndStreamStep, CloseStreamStep
          DEF Executing
<1>5. ASSUME NEW r \in Responses, Cleaning(r) \/ Deleting(r) PROVE Goal
  BY <1>0, <1>5, ReadBackStep, ReplayStep, ArchiveReplayedStep, ReleaseMarkerStep,
     AbortStreamStep, CloseAbortedStep, RemoveStreamStep, AnnounceDeletedStep
     DEF Cleaning, Deleting
<1>6. ASSUME NEW r \in Responses, Claim(r) \/ Cancel(r) \/ DeleteRecord(r) PROVE Goal
  BY <1>0, <1>6, ClaimStep, CancelStep, DeleteRecordStep
<1>7. ASSUME NEW r \in Responses, Crash(r) PROVE Goal
  <2>1. OnlyCreator(r) /\ CreateMoves(r) BY <1>7, CrashStep DEF CreateMoves
  <2> QED BY <1>a, <2>1
<1>8. ASSUME Reap \/ Sweep \/ Tick \/ \E c \in Conversations : DropConversation(c)
      PROVE  Goal
  BY <1>0, <1>8, ReapStep, SweepStep, TickStep, DropStep
<1> HIDE DEF Goal
<1>9. CASE Next BY <1>2, <1>3, <1>4, <1>5, <1>6, <1>7, <1>8, <1>9 DEF Next, Goal
<1> QED BY <1>1, <1>9 DEF Goal

\* The stream was closed, if it was not removed since.
WasClosed(log) == log.closedFor # -1 \/ log.swept
ClosedBy(r) == WasClosed(logs'[r]) => WasClosed(logs[r]) \/ CloseStream(r) \/ CloseAborted(r)

\* Nobody but the run, the cancel and the reap closes a stream: an append and
\* a sweep leave an open one open.
LEMMA EveryClose ==
    ASSUME Placed, [Next]_vars
    PROVE  \A r \in Responses : ClosedBy(r)
<1> USE DEF Placed, Linked
<1> DEFINE Goal == \A r \in Responses : ClosedBy(r)
<1>0. logs' = logs => Goal BY DEF ClosedBy
<1>1. CASE UNCHANGED vars BY <1>0, <1>1 DEF vars, stores
<1>a. ASSUME NEW r \in Responses, NEW bodies \in SUBSET Bodies, LogAppended(r, bodies)
      PROVE  Goal
  <2>1. logs[r] \in Log BY DEF TypeOK
  <2>2. logs'[r].closedFor = logs[r].closedFor /\ logs'[r].swept = logs[r].swept
    BY <1>a, <2>1, PushedFields DEF LogAppended
  <2> QED BY <1>a, <2>2 DEF LogAppended, OnlyLog, ClosedBy, WasClosed
<1>b. {"created", "in_progress", "delta", "failed"} \subseteq Bodies
  BY LifecycleConstants, EventLogConstants
<1>2. ASSUME NEW r \in Responses, Creating(r) PROVE Goal
  <2>1. CASE AnnounceCreated(r)
    <3>1. LogAppended(r, {"created"}) BY <2>1, AnnounceCreatedStep
    <3> QED BY <1>a, <1>b, <3>1
  <2>2. CASE ~AnnounceCreated(r)
    BY <1>0, <1>2, <2>2, AskingStep, AdmitStep, GiveBackStep DEF Creating
  <2> QED BY <2>1, <2>2
<1>3. ASSUME PollNothing \/ Degrade \/ \E r \in Responses : Heartbeat(r) PROVE Goal
  BY <1>0, <1>3, AroundStep
<1>4. ASSUME NEW r \in Responses, StillWorking(r) PROVE Goal
  <2>1. LogAppended(r, {"in_progress", "delta"}) BY <1>4 DEF StillWorking
  <2> QED BY <1>a, <1>b, <2>1
<1>5. ASSUME NEW r \in Responses, Running_(r) \/ Executing(r) PROVE Goal
  <2>1. CASE Conclude(r) BY <1>0, <1>4, <2>1, ConcludeStep
  <2>2. CASE \/ AnnounceFence(r) \/ AnnouncePush(r) \/ ReadContext(r) \/ Running_(r)
             \/ EmitPush(r) \/ ProbeFires(r)
    BY <1>4, <2>2, WorkingStep
  <2>3. CASE ArchiveTurn(r) \/ AdvanceTail(r) \/ SettleMarker(r)
    BY <1>0, <2>3, ArchiveTurnStep, AdvanceTailStep, SettleMarkerStep
  <2>4. CASE EndStream(r)
    <3>1. LogAppended(r, {engine[r].status}) BY <2>4, EndStreamStep
    <3>2. engine[r].status \in Bodies BY EngineFields, EventLogConstants
    <3> QED BY <1>a, <3>1, <3>2
  <2>5. CASE CloseStream(r)
    <3>1. OnlyLog(r) BY <2>5, CloseStreamStep DEF RingKept
    <3> QED BY <2>5, <3>1 DEF OnlyLog, ClosedBy
  <2> QED BY <1>5, <2>1, <2>2, <2>3, <2>4, <2>5 DEF Executing
<1>6. ASSUME NEW r \in Responses, Cleaning(r) PROVE Goal
  <2>1. CASE AbortStream(r)
    <3>1. LogAppended(r, {"failed"}) BY <2>1, AbortStreamStep
    <3> QED BY <1>a, <1>b, <3>1
  <2>2. CASE CloseAborted(r)
    <3>1. OnlyLog(r) BY <2>2, CloseAbortedStep DEF RingKept
    <3> QED BY <2>2, <3>1 DEF OnlyLog, ClosedBy
  <2> QED BY <1>0, <1>6, <2>1, <2>2, ReadBackStep, ReplayStep, ArchiveReplayedStep,
             ReleaseMarkerStep
          DEF Cleaning
<1>7. ASSUME NEW r \in Responses,
             Claim(r) \/ Cancel(r) \/ DeleteRecord(r) \/ AnnounceDeleted(r) \/ Crash(r)
      PROVE  Goal
  BY <1>0, <1>7, ClaimStep, CancelStep, DeleteRecordStep, AnnounceDeletedStep, CrashStep
<1>8. ASSUME NEW r \in Responses, RemoveStream(r) PROVE Goal
  <2>1. OnlyLog(r) /\ logs'[r] \in {logs[r], NoLog} BY <1>8, RemoveStreamStep
  <2> QED BY <2>1, NoLogFields DEF OnlyLog, ClosedBy, WasClosed
<1>9. ASSUME Sweep PROVE Goal
  BY <1>9, SweepStep, SweptFields DEF ClosedBy, WasClosed
<1>10. ASSUME Tick PROVE Goal
  BY <1>10, TickStep DEF ClosedBy, WasClosed
<1>11. ASSUME Reap \/ \E c \in Conversations : DropConversation(c) PROVE Goal
  BY <1>0, <1>11, ReapStep, DropStep
<1> HIDE DEF Goal
<1>12. CASE Next
  BY <1>2, <1>3, <1>5, <1>6, <1>7, <1>8, <1>9, <1>10, <1>11, <1>12
     DEF Next, Deleting, Goal
<1> QED BY <1>1, <1>12 DEF Goal

\* Who announces the end of the turn of a response.
Announcing(r) == GiveBack(r) \/ SettleMarker(r) \/ ReleaseMarker(r)
AnnouncedBy(r) == HasConv(r) /\ TurnOver(r)' => TurnOver(r) \/ Announcing(r)

LEMMA NothingAnnounced ==
    ASSUME \A c \in Conversations : \A e : Said(convs'[c], e) => Said(convs[c], e)
    PROVE  \A r \in Responses : AnnouncedBy(r)
BY LifecycleConstants DEF AnnouncedBy, TurnOver, Said, HasConv

LEMMA MarksAnnounce ==
    ASSUME NEW r \in Responses, NEW c, NEW kind, MarksOnly(c, Event(kind, r)),
           kind = "turn_completed" => Announcing(r)
    PROVE  \A s \in Responses : AnnouncedBy(s)
<1> SUFFICES ASSUME NEW s \in Responses, HasConv(s), TurnOver(s)', ~TurnOver(s)
             PROVE  Announcing(s)
  BY DEF AnnouncedBy
<1>1. ConvOf[s] \in Conversations BY LifecycleConstants DEF HasConv
<1>2. Said(convs'[ConvOf[s]], Event("turn_completed", s))
      /\ ~Said(convs[ConvOf[s]], Event("turn_completed", s))
  BY DEF Said, TurnOver
<1>3. Event("turn_completed", s) = Event(kind, r)
  BY <1>1, <1>2 DEF MarksOnly, OnlyConv, Marked
<1> QED BY <1>3 DEF Event

LEMMA EveryAnnouncement ==
    ASSUME Placed, [Next]_vars
    PROVE  \A r \in Responses : AnnouncedBy(r)
<1> USE DEF Placed, Linked
<1> DEFINE Goal == \A r \in Responses : AnnouncedBy(r)
<1>0. convs' = convs => Goal BY NothingAnnounced
<1>a. ASSUME NEW c, OnlyConv(c), c \in Conversations =>
                                    \A e : Said(convs'[c], e) => Said(convs[c], e)
      PROVE  Goal
  BY <1>a, NothingAnnounced DEF OnlyConv
<1>1. CASE UNCHANGED vars BY <1>0, <1>1 DEF vars, stores, convVars
<1>2. ASSUME NEW r \in Responses, Creating(r) PROVE Goal
  <2>1. CASE Resolve(r) \/ TakeMarker(r) \/ InspectHolder(r) \/ TakeOver(r)
    BY <2>1, AskingStep, MarksAnnounce
  <2>2. CASE GiveBack(r) BY <2>2, GiveBackStep, MarksAnnounce DEF Announcing
  <2> QED BY <1>0, <1>2, <2>1, <2>2, AdmitStep, AnnounceCreatedStep DEF Creating, ConvsKept
<1>3. ASSUME PollNothing \/ Degrade \/ \E r \in Responses : Heartbeat(r) PROVE Goal
  BY <1>0, <1>3, AroundStep DEF ConvsKept
<1>4. ASSUME NEW r \in Responses, StillWorking(r) PROVE Goal
  BY <1>0, <1>4 DEF StillWorking, ConvsKept
<1>5. ASSUME NEW r \in Responses, Running_(r) \/ Executing(r) PROVE Goal
  <2>1. CASE Conclude(r) BY <1>0, <1>4, <2>1, ConcludeStep DEF ConvsKept
  <2>2. CASE \/ AnnounceFence(r) \/ AnnouncePush(r) \/ ReadContext(r) \/ Running_(r)
             \/ EmitPush(r) \/ ProbeFires(r)
    BY <1>4, <2>2, WorkingStep
  <2>3. CASE ArchiveTurn(r)
    BY <1>a, <2>3, ArchiveTurnStep DEF TurnAdded, Said
  <2>4. CASE AdvanceTail(r)
    BY <1>a, <2>4, AdvanceTailStep DEF Said
  <2>5. CASE SettleMarker(r) BY <2>5, SettleMarkerStep, MarksAnnounce DEF Announcing
  <2>6. CASE EndStream(r) \/ CloseStream(r)
    BY <1>0, <2>6, EndStreamStep, CloseStreamStep DEF ConvsKept
  <2> QED BY <1>5, <2>1, <2>2, <2>3, <2>4, <2>5, <2>6 DEF Executing
<1>8. ASSUME NEW r \in Responses, Cleaning(r) PROVE Goal
  <2>1. CASE ReleaseMarker(r) BY <2>1, ReleaseMarkerStep, MarksAnnounce DEF Announcing
  <2>2. CASE ArchiveReplayed(r)
    BY <1>a, <2>2, ArchiveReplayedStep DEF TurnAdded, Said
  <2> QED BY <1>0, <1>8, <2>1, <2>2, ReadBackStep, ReplayStep, AbortStreamStep,
             CloseAbortedStep
          DEF Cleaning, ConvsKept
<1>9. ASSUME NEW r \in Responses,
             Claim(r) \/ Cancel(r) \/ DeleteRecord(r) \/ RemoveStream(r) \/ Crash(r)
      PROVE  Goal
  BY <1>0, <1>9, ClaimStep, CancelStep, DeleteRecordStep, RemoveStreamStep, CrashStep
     DEF ConvsKept
<1>10. ASSUME NEW r \in Responses, AnnounceDeleted(r) PROVE Goal
  BY <1>10, AnnounceDeletedStep, MarksAnnounce
<1>11. ASSUME NEW d \in Conversations, DropConversation(d) PROVE Goal
  BY <1>11, <1>a, DropStep, NoConvFields DEF Said
<1>12. ASSUME Reap \/ Sweep \/ Tick PROVE Goal
  BY <1>0, <1>12, ReapStep, SweepStep, TickStep DEF ConvsKept
<1> HIDE DEF Goal
<1>13. CASE Next
  BY <1>2, <1>3, <1>5, <1>8, <1>9, <1>10, <1>11, <1>12, <1>13 DEF Next, Deleting, Goal
<1> QED BY <1>1, <1>13 DEF Goal

\* What is settled stays settled once the create has passed the ledger.
LEMMA SettledKept ==
    ASSUME Placed, [Next]_vars, \A c \in Conversations : ConvMoves(c),
           NEW r \in Responses, creator[r].pc \notin Asking, Settled(r)
    PROVE  Settled(r)'
<1>1. CASE StaysPut(r)
  <2>1. records'[r].status \in {records[r].status, "none"} BY <1>1 DEF StaysPut
  <2>2. records'[r].status \notin InFlight BY <2>1, Places DEF Settled
  <2>3. records'[r].status \in WithReply => records'[r].status = records[r].status
    BY <2>1 DEF WithReply
  <2>4. Archivable(r)' <=> Archivable(r) BY DEF Archivable, HasConv
  <2>5. Archivable(r)' /\ records'[r].status \in WithReply => Stays(r)'
    BY <2>3, <2>4, StaysKept DEF Settled
  <2> QED BY <2>2, <2>5 DEF Settled
<1>2. CASE RecordMoves(r)
  <2>1. ~Admit(r) BY AdmitStep DEF Admit, Asking
  <2> QED BY <1>2, <2>1 DEF RecordMoves, Settled
<1> QED BY <1>1, <1>2, EveryMove DEF Placed

\* A response nobody was told of, and one that was ended from outside.
LEMMA NothingToArchive ==
    ASSUME NEW r, records[r].status \in {"none", "failed", "cancelled"}
    PROVE  Settled(r)
BY DEF Settled, InFlight, WithReply

\* Who is past the create has been admitted.
LEMMA EndedIsPastAsking ==
    ASSUME Placed, NEW r \in Responses, Ended(r)
    PROVE  creator[r].pc \notin Asking
BY DEF Placed, Linked, LedgerLink, Ended

SteadyNow == LifecycleInvariant /\ SteadyInvariant

\* The run archives before it goes on, and no archival is refused.
LEMMA RunSettles ==
    ASSUME Steady, SteadyNow, [Next]_vars, Placed', \A c \in Conversations : ConvMoves(c),
           NEW r \in Responses, engine'[r].pc \in Settling \ {"archive"}
    PROVE  Settled(r)'
<1> USE Places DEF SteadyNow, SteadyInvariant
<1>0. Placed /\ TypeOK BY InvariantLayers DEF Placed, Linked
<1>1. CASE engine[r].pc \in Settling \ {"archive"}
  <2>1. Settled(r) BY <1>1 DEF AnnouncementSound
  <2>2. Ended(r) BY <1>0, <1>1 DEF Placed, OneSettles
  <2> QED BY <1>0, <2>1, <2>2, EndedIsPastAsking, SettledKept
<1>2. CASE RecordMoves(r)
  <2>1. ~Archivable(r)' BY <1>2 DEF RecordMoves, Archivable, HasConv
  <2>2. Ended(r)' BY DEF Placed, OneSettles
  <2> QED BY <2>1, <2>2 DEF Settled, Ended
<1>3. CASE ArchiveTurn(r)
  <2> DEFINE c == ConvOf[r]
  <2>1. Ended(r)' BY DEF Placed, OneSettles
  <2>2. SUFFICES ASSUME HasConv(r), convs'[c].live PROVE Archived(convs'[c], r)
    BY <2>1 DEF Settled, Ended, Stays, HasConv, Archivable
  <2>3. c \in Conversations BY <2>2, LifecycleConstants DEF HasConv
  <2>4. /\ TurnAdded(convs[c], convs'[c], Turn(r, engine[r].emitted))
        /\ TurnStored(r) => Archived(convs'[c], r)
    BY <1>0, <1>3, <2>3, ArchiveTurnStep
  <2>5. Owned(c, Owner) BY <2>2, <2>3, <2>4 DEF TurnAdded, OwnersKept, Owned
  <2>6. Writable BY <1>0 DEF TypeOK, Writable
  <2>7. TurnStored(r) BY <2>5, <2>6, Zenon DEF TurnStored, TurnOutcome
  <2> QED BY <2>4, <2>7
<1>4. CASE StaysPut(r) /\ engine[r].pc \notin Settling \ {"archive"} /\ ~ArchiveTurn(r)
  BY <1>4 DEF StaysPut, RunMoves
<1> QED BY <1>0, <1>1, <1>2, <1>3, <1>4, EveryMove DEF Placed

\* Whoever closes a stream has settled the response.
LEMMA ClosedIsSettled ==
    ASSUME SteadyNow, [Next]_vars, \A c \in Conversations : ConvMoves(c),
           NEW r \in Responses, WasClosed(logs'[r])
    PROVE  Ended(r)' /\ Settled(r)'
<1> USE Places DEF SteadyNow, SteadyInvariant
<1>0. Placed /\ TypeOK BY InvariantLayers DEF Placed, Linked
<1>1. SUFFICES Ended(r) /\ Settled(r)
  BY <1>0, EndedIsPastAsking, SettledKept, EndedStays
<1>2. CASE WasClosed(logs[r]) BY <1>2 DEF AnnouncementSound, WasClosed
<1>3. CASE CloseStream(r)
  <2>1. engine[r].pc = "close" BY <1>0, <1>3, CloseStreamStep
  <2> QED BY <1>0, <2>1 DEF AnnouncementSound, Placed, OneSettles
<1>4. CASE CloseAborted(r)
  <2>1. cleaner[r].pc = "close" BY <1>0, <1>4, CloseAbortedStep
  <2>2. Ended(r) /\ records[r].status \in {"failed", "cancelled", "none"}
    BY <1>0, <2>1 DEF Placed, OneSettles
  <2> QED BY <2>2, NothingToArchive
<1> QED BY <1>0, <1>2, <1>3, <1>4, EveryClose DEF ClosedBy

\* There is a buffer for every response.
LEMMA RoomForAll ==
    ASSUME Steady, NEW r \in Responses, ~logs[r].live
    PROVE  ~(LogCount >= MaxLogs)
<1> DEFINE Live == {s \in Responses : logs[s].live}
<1>1. IsFiniteSet(Responses \ {r}) /\ Cardinality(Responses \ {r}) = Cardinality(Responses) - 1
  BY FS_RemoveElement DEF Steady
<1>2. Live \subseteq Responses \ {r} OBVIOUS
<1>3. Cardinality(Live) <= Cardinality(Responses \ {r}) /\ IsFiniteSet(Live)
  BY <1>1, <1>2, FS_Subset
<1>4. /\ Cardinality(Responses) \in Nat /\ Cardinality(Live) \in Nat
      /\ Cardinality(Responses \ {r}) \in Nat
  BY <1>1, <1>3, FS_CardinalityType DEF Steady
<1>5. Cardinality(Responses) <= MaxLogs /\ MaxLogs \in Nat BY EventLogConstants DEF Steady
<1>6. Cardinality(Live) < MaxLogs BY <1>1, <1>3, <1>4, <1>5
<1>7. LogCount < MaxLogs BY <1>6 DEF LogCount
<1> QED BY <1>4, <1>5, <1>7 DEF LogCount

\* The marker is given back for a create that left no record, or whose
\* response ended and was swept before its first event.
LEMMA GivenBackIsSettled ==
    ASSUME Steady, SteadyNow, [Next]_vars, \A c \in Conversations : ConvMoves(c),
           NEW r \in Responses, creator'[r].pc = "giveback"
    PROVE  Settled(r)'
<1> USE Places DEF SteadyNow, SteadyInvariant
<1>0. Placed /\ Linked /\ TypeOK BY InvariantLayers DEF Placed, Linked
<1>1. CASE creator[r].pc = "giveback"
  BY <1>0, <1>1, SettledKept DEF AnnouncementSound, Asking
<1>2. CASE Admit(r) /\ LedgerKept
  <2>1. creator[r].pc \in Asking BY <1>2 DEF Admit, Asking
  <2>2. ~Exists(r) BY <1>0, <2>1 DEF Linked, LedgerLink
  <2>3. records[r].status = "none" BY <2>2 DEF Exists
  <2>4. records'[r].status = "none" BY <1>2, <2>3 DEF LedgerKept
  <2> QED BY <2>4 DEF Settled, InFlight, WithReply
<1>3. CASE AnnounceCreated(r) /\ creator[r].pc = "announce" /\ ~CanAppend(r)
  <2>1. PushOutcome(r) # "ok" BY <1>3 DEF CanAppend
  <2>2. ~(~logs[r].live /\ LogCount >= MaxLogs) BY RoomForAll
  <2>3. logs[r].swept BY <2>1, <2>2 DEF PushOutcome
  <2>4. Settled(r) BY <2>3 DEF AnnouncementSound
  <2> QED BY <1>0, <1>3, <2>4, SettledKept DEF Asking
<1>4. CreateMoves(r) BY <1>0, EveryCreate
<1> QED BY <1>1, <1>2, <1>3, <1>4 DEF CreateMoves, Asking

\* The end of a turn is announced by whoever settled its response.
LEMMA AnnouncedIsSettled ==
    ASSUME SteadyNow, [Next]_vars, \A c \in Conversations : ConvMoves(c),
           NEW r \in Responses, HasConv(r), TurnOver(r)'
    PROVE  creator'[r].pc \notin Asking /\ Settled(r)' /\ convs'[ConvOf[r]].live
<1> USE Places DEF SteadyNow, SteadyInvariant
<1>0. Placed /\ Linked /\ TypeOK BY InvariantLayers DEF Placed, Linked
<1>a. ConvOf[r] \in Conversations BY LifecycleConstants DEF HasConv
<1>b. convs'[ConvOf[r]].live = convs[ConvOf[r]].live
  <2>1. convs'[ConvOf[r]] # NoConv BY NoConvFields DEF TurnOver
  <2> QED BY <1>a, <2>1 DEF ConvMoves
<1>c. ASSUME TryRelease(r), ~TurnOver(r) PROVE convs[ConvOf[r]].live
  <2>1. ~SameConvs BY <1>c DEF SameConvs, convVars, TurnOver
  <2>2. ReleaseOutcome(ConvOf[r], Owner, r) = "released" BY <1>c, <2>1 DEF TryRelease
  <2> QED BY <2>2 DEF ReleaseOutcome, Refusal, Owned
<1>1. SUFFICES creator[r].pc \notin Asking /\ Settled(r) /\ convs[ConvOf[r]].live
  <2>1. ASSUME creator[r].pc \notin Asking PROVE creator'[r].pc \notin Asking
    <3>1. ~Admit(r) BY <2>1 DEF Admit, Asking
    <3>2. CreateMoves(r) BY <1>0, EveryCreate
    <3> QED BY <2>1, <3>1, <3>2 DEF CreateMoves, Asking
  <2> QED BY <1>0, <1>b, <2>1, SettledKept
<1>2. CASE TurnOver(r) BY <1>2 DEF AnnouncementSound
<1>3. CASE GiveBack(r) /\ ~TurnOver(r)
  BY <1>c, <1>3 DEF GiveBack, AnnouncementSound, Asking
<1>4. CASE SettleMarker(r) /\ ~TurnOver(r)
  <2>0. convs[ConvOf[r]].live BY <1>c, <1>4 DEF SettleMarker
  <2>1. engine[r].pc = "release" BY <1>0, <1>4, SettleMarkerStep
  <2>2. Ended(r) BY <1>0, <2>1 DEF Placed, OneSettles
  <2> QED BY <1>0, <2>0, <2>1, <2>2, EndedIsPastAsking DEF AnnouncementSound
<1>5. CASE ReleaseMarker(r) /\ ~TurnOver(r)
  <2>0. convs[ConvOf[r]].live BY <1>c, <1>5 DEF ReleaseMarker
  <2>1. cleaner[r].pc = "release" BY <1>0, <1>5, ReleaseMarkerStep
  <2>2. Ended(r) /\ records[r].status \in {"failed", "cancelled", "none"}
    BY <1>0, <2>1 DEF Placed, OneSettles
  <2> QED BY <1>0, <2>0, <2>2, EndedIsPastAsking, NothingToArchive
<1> QED BY <1>0, <1>2, <1>3, <1>4, <1>5, EveryAnnouncement DEF AnnouncedBy, Announcing

LEMMA InitIsSteady == Steady /\ Init => SteadyNow
<1> SUFFICES ASSUME Steady, Init PROVE SteadyNow OBVIOUS
<1>1. LifecycleInvariant BY InitIsSound
<1>2. ~readOnly BY DEF Init, LedgerInit
<1>3. OwnersKept BY DEF Init, OwnersKept, NoConv
<1>4. ASSUME NEW r \in Responses PROVE AnnouncementSound(r)
  <2>1. engine[r].pc = "idle" /\ creator[r].pc = "resolve" BY DEF Init
  <2>2. logs[r] = NoLog BY DEF Init, LogInit
  <2>3. ASSUME HasConv(r) PROVE ~TurnOver(r)
    <3>1. ConvOf[r] \in Conversations BY <2>3, LifecycleConstants DEF HasConv
    <3>2. convs[ConvOf[r]].events = <<>> BY <3>1 DEF Init, NoConv
    <3> QED BY <3>2 DEF TurnOver
  <2> QED BY <2>1, <2>2, <2>3, NoLogFields DEF AnnouncementSound, Settling
<1> QED BY <1>1, <1>2, <1>3, <1>4 DEF SteadyNow, SteadyInvariant

LEMMA SteadyPreserved == Steady /\ SteadyNow /\ [Next]_vars => SteadyNow'
<1> SUFFICES ASSUME Steady, SteadyNow, [Next]_vars PROVE SteadyNow' OBVIOUS
<1>1. LifecycleInvariant /\ LifecycleInvariant' BY SoundPreserved DEF SteadyNow
<1>2. Placed /\ Placed' /\ \A r \in Responses : AdvanceSound(r)
  <2>1. Placed' <=> Linked' /\ \A r \in Responses : OneSettles(r)' BY DEF Placed
  <2>2. Linked' <=> TypeOK' /\ KeysPair' /\ \A r \in Responses : LedgerLink(r)' BY DEF Linked
  <2>3. LifecycleInvariant' => Placed'
    BY <2>1, <2>2 DEF LifecycleInvariant, ResponseSound
  <2> QED BY <1>1, <2>3, InvariantLayers
<1>3. \A c \in Conversations : ConvMoves(c) BY <1>2, EveryConv
<1>4. ~readOnly' BY <1>2, StillWritable DEF Steady, SteadyNow, SteadyInvariant
<1>5. OwnersKept'
  BY <1>3, NoConvFields DEF OwnersKept, ConvMoves, SteadyNow, SteadyInvariant
<1>6. ASSUME NEW r \in Responses PROVE AnnouncementSound(r)'
  BY <1>2, <1>3, RunSettles, ClosedIsSettled, GivenBackIsSettled, AnnouncedIsSettled
     DEF AnnouncementSound, WasClosed, HasConv
<1> QED BY <1>1, <1>4, <1>5, <1>6 DEF SteadyNow, SteadyInvariant

\* A client that sees a turn completed and starts the next one reads a snapshot
\* that holds it: the marker is given back after the archival, whoever gives it
\* back, and what a swept or refused create gives back has no reply to archive
\* (SettleMarker, ReleaseMarker, GiveBack).  A refused write would break this,
\* so the store is taken to be writable and to have a buffer for every response.
THEOREM AnnouncedTurnsAreArchived ==
    ASSUME Steady
    PROVE  Spec => []AnnouncedTurnsAreReadable
<1>1. Init => SteadyNow BY InitIsSteady
<1>2. SteadyNow /\ [Next]_vars => SteadyNow' BY SteadyPreserved
<1>3. SteadyNow => AnnouncedTurnsAreReadable
  <2> SUFFICES ASSUME SteadyNow, NEW r \in Responses, Archivable(r), TurnOver(r),
                      records[r].status \in WithReply
               PROVE  InSnapshot(r)
    BY DEF AnnouncedTurnsAreReadable, WithReply
  <2>1. Settled(r) /\ convs[ConvOf[r]].live
    BY DEF SteadyNow, SteadyInvariant, AnnouncementSound, Archivable
  <2> QED BY <2>1 DEF Settled, Stays, InSnapshot, Archivable
<1> QED BY <1>1, <1>2, <1>3, PTL DEF Spec
=============================================================================

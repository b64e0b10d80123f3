--------------------------- MODULE EventLogProofs ---------------------------
(***************************************************************************)
(* Theorems of the event streams, for every set of responses, bodies and   *)
(* subscribers, every capacity, batch size and retention window.           *)
(***************************************************************************)
EXTENDS EventLog, TLAPS

\* What is in a ring is the end of what was written, by number.
RingMatches(log, written) ==
    /\ Len(written) = log.nextSeq
    /\ log.evictedBefore + Len(log.ring) = log.nextSeq
    /\ Len(log.ring) <= Capacity
    /\ \A i \in 1..Len(log.ring) :
          /\ log.ring[i].seq = log.evictedBefore + i - 1
          /\ log.ring[i].body = written[log.ring[i].seq + 1]

\* A buffer that does not exist is empty: the next event starts it afresh.
LogSound(log, written) ==
    /\ log \in Log
    /\ IF log.live THEN RingMatches(log, written) ELSE log = NoLog

\* What a subscriber received.  Its cursor counts what it got whatever happened
\* to the log; while the log is the one it subscribed to, it got just what was
\* written after `from`.
Follows(c, written, present) ==
    /\ c.state = "idle" => c.got = <<>>
    /\ c.state # "idle" =>
        /\ c.id \in Responses /\ c.cursor = c.from + Len(c.got)
        /\ c.epoch <= present[c.id]
        /\ (c.epoch = present[c.id] /\ c.got # <<>>) =>
              /\ c.cursor + 1 <= Len(written[c.id])
              /\ \A i \in 1..Len(c.got) : c.got[i] = written[c.id][c.from + 1 + i]

LogsMatch == \A id \in Responses : LogSound(logs[id], published[id])
SubscribersFollow == \A s \in Subscribers : Follows(sub[s], published, epoch)

\* The inductive invariant.
StreamInvariant == TypeOK /\ LogsMatch /\ SubscribersFollow

----------------------------------------------------------------------------
(* What a method makes of a buffer.                                        *)

LEMMA DeadlineIsNat == TombstoneAfter \in Nat
<1>1. \A a, b \in Nat : a * b \in Nat OBVIOUS
<1> QED BY <1>1, EventLogConstants DEF TombstoneAfter

LEMMA NoLogIsSound == ASSUME NEW written PROVE LogSound(NoLog, written)
BY DeadlineIsNat DEF LogSound, NoLog, Log

LEMMA LogFields ==
    ASSUME NEW log \in Log
    PROVE  /\ log.live \in BOOLEAN /\ log.swept \in BOOLEAN
           /\ log.ring \in Seq([seq : Nat, body : Bodies]) /\ Len(log.ring) \in Nat
           /\ log.nextSeq \in Nat /\ log.evictedBefore \in Nat
           /\ log.closedFor \in -1..TombstoneAfter
BY DEF Log

LEMMA EmptiedFields ==
    ASSUME NEW log \in Log
    PROVE  /\ Emptied(log) \in Log /\ Emptied(log).live = log.live
           /\ Emptied(log).nextSeq = log.nextSeq
           /\ Emptied(log).ring = <<>> /\ Emptied(log).evictedBefore = log.nextSeq
<1>1. log.nextSeq \in Nat BY LogFields
<1>2. \A next \in Nat, ring \in Seq([seq : Nat, body : Bodies]) :
         LET w == [log EXCEPT !.ring = ring, !.evictedBefore = next, !.swept = TRUE]
         IN  /\ w \in Log /\ w.live = log.live /\ w.nextSeq = log.nextSeq
             /\ w.ring = ring /\ w.evictedBefore = next
  BY DEF Log
<1>3. <<>> \in Seq([seq : Nat, body : Bodies]) OBVIOUS
<1> QED BY <1>1, <1>2, <1>3, Zenon DEF Emptied

\* The sequence facts the proofs use: one more element, and one fewer.
LEMMA AppendedSeq ==
    ASSUME NEW S, NEW s \in Seq(S), NEW e \in S
    PROVE  /\ Append(s, e) \in Seq(S)
           /\ Len(s) \in Nat /\ Len(Append(s, e)) = Len(s) + 1
           /\ Append(s, e)[Len(s) + 1] = e
           /\ \A i \in 1..Len(s) : Append(s, e)[i] = s[i]
OBVIOUS

LEMMA TailSeq ==
    ASSUME NEW S, NEW s \in Seq(S), s # <<>>
    PROVE  /\ Tail(s) \in Seq(S)
           /\ Len(s) \in Nat /\ Len(Tail(s)) = Len(s) - 1
           /\ \A i \in 1..(Len(s) - 1) : Tail(s)[i] = s[i + 1]
OBVIOUS

\* Pushing onto a buffer that matches, or onto one that does not exist yet,
\* which starts a new history.
LEMMA PushedIsSound ==
    ASSUME NEW log, NEW written \in Seq(Bodies), NEW body \in Bodies, LogSound(log, written)
    PROVE  LogSound(Pushed(log, body), IF log.live THEN Append(written, body) ELSE <<body>>)
<1> DEFINE old   == IF log.live THEN written ELSE <<>>
           now   == Append(old, body)
           E     == [seq : Nat, body : Bodies]
           e     == [seq |-> log.nextSeq, body |-> body]
           s     == log.ring
           t     == Append(s, e)
           full  == Len(t) > Capacity
           w     == Pushed(log, body)
           n     == Len(s)
<1>0. Append(<<>>, body) = <<body>> OBVIOUS
<1>1. now = IF log.live THEN Append(written, body) ELSE <<body>> BY <1>0
<1>2. log \in Log BY DEF LogSound
<1>3. /\ s \in Seq(E) /\ n \in Nat /\ e \in E
      /\ log.nextSeq \in Nat /\ log.evictedBefore \in Nat
  BY <1>2, LogFields
<1>4. old \in Seq(Bodies) OBVIOUS
<1>5. RingMatches(log, old)
  BY EventLogConstants DEF LogSound, RingMatches, NoLog
<1>6. w = [log EXCEPT !.live = TRUE, !.nextSeq = log.nextSeq + 1,
                      !.ring = IF full THEN Tail(t) ELSE t,
                      !.evictedBefore = IF full THEN log.evictedBefore + 1
                                        ELSE log.evictedBefore]
  BY DEF Pushed
<1>7. /\ t \in Seq(E) /\ Len(t) = n + 1 /\ t[n + 1] = e
      /\ \A i \in 1..n : t[i] = s[i]
  <2> HIDE DEF E, e, s
  <2> QED BY <1>3, AppendedSeq
<1>8. /\ now \in Seq(Bodies) /\ Len(old) \in Nat /\ Len(now) = Len(old) + 1
      /\ now[Len(old) + 1] = body
      /\ \A i \in 1..Len(old) : now[i] = old[i]
  <2> HIDE DEF old
  <2> QED BY <1>4, AppendedSeq
<1>9. /\ Len(old) = log.nextSeq /\ log.evictedBefore + n = log.nextSeq /\ n <= Capacity
      /\ \A i \in 1..n : s[i].seq = log.evictedBefore + i - 1 /\ s[i].body = old[s[i].seq + 1]
  BY <1>5 DEF RingMatches
<1>10. e.seq = log.nextSeq /\ e.body = body OBVIOUS
<1> HIDE DEF old, now, E, e, s, t, w, n
<1>11. \A i \in 1..(n + 1) : /\ t[i].seq = log.evictedBefore + i - 1
                             /\ t[i].body = now[t[i].seq + 1]
  <2> SUFFICES ASSUME NEW i \in 1..(n + 1)
               PROVE  t[i].seq = log.evictedBefore + i - 1 /\ t[i].body = now[t[i].seq + 1]
    OBVIOUS
  <2>1. CASE i = n + 1 BY <2>1, <1>3, <1>7, <1>8, <1>9, <1>10
  <2>2. CASE i \in 1..n
    <3>1. t[i].seq = log.evictedBefore + i - 1 /\ t[i].body = old[t[i].seq + 1]
      BY <2>2, <1>7, <1>9
    <3>2. t[i].seq + 1 \in 1..Len(old) BY <2>2, <3>1, <1>3, <1>9
    <3> QED BY <3>1, <3>2, <1>8
  <2> QED BY <2>1, <2>2, <1>3
<1>12. CASE full
  <2>1. t # <<>> BY <1>3, <1>7
  <2>2. /\ Tail(t) \in Seq(E) /\ Len(Tail(t)) = n
        /\ \A i \in 1..n : Tail(t)[i] = t[i + 1]
    BY <2>1, <1>3, <1>7, TailSeq
  <2>3. /\ w.ring = Tail(t) /\ w.evictedBefore = log.evictedBefore + 1
        /\ w.nextSeq = log.nextSeq + 1 /\ w.live = TRUE /\ w \in Log
    <3>1. w = [log EXCEPT !.live = TRUE, !.nextSeq = log.nextSeq + 1,
                          !.ring = Tail(t), !.evictedBefore = log.evictedBefore + 1]
      BY <1>6, <1>12
    <3>2. /\ log.nextSeq + 1 \in Nat /\ log.evictedBefore + 1 \in Nat
          /\ Tail(t) \in Seq([seq : Nat, body : Bodies])
      BY <1>3, <2>2 DEF E
    <3> DEFINE next == log.nextSeq + 1
               evicted == log.evictedBefore + 1
               ring == Tail(t)
    <3>3. /\ w = [log EXCEPT !.live = TRUE, !.nextSeq = next, !.ring = ring,
                             !.evictedBefore = evicted]
          /\ next \in Nat /\ evicted \in Nat /\ ring \in Seq([seq : Nat, body : Bodies])
      BY <3>1, <3>2
    <3> HIDE DEF next, evicted, ring
    <3>4. w.ring = ring /\ w.evictedBefore = evicted /\ w.nextSeq = next /\ w.live = TRUE
          /\ w \in Log
      BY <1>2, <3>3 DEF Log
    <3> QED BY <3>4 DEF next, evicted, ring
  <2>4. RingMatches(w, now)
    <3>1. \A i \in 1..n : /\ w.ring[i].seq = w.evictedBefore + i - 1
                          /\ w.ring[i].body = now[w.ring[i].seq + 1]
      <4> SUFFICES ASSUME NEW i \in 1..n
                   PROVE  /\ w.ring[i].seq = w.evictedBefore + i - 1
                          /\ w.ring[i].body = now[w.ring[i].seq + 1]
        OBVIOUS
      <4>1. i + 1 \in 1..(n + 1) /\ w.ring[i] = t[i + 1] BY <1>3, <2>2, <2>3
      <4>2. /\ t[i + 1].seq = log.evictedBefore + (i + 1) - 1
            /\ t[i + 1].body = now[t[i + 1].seq + 1]
        BY <4>1, <1>11
      <4>3. log.evictedBefore + (i + 1) - 1 = w.evictedBefore + i - 1 BY <1>3, <2>3
      <4> QED BY <4>1, <4>2, <4>3
    <3>2. w.evictedBefore + Len(w.ring) = w.nextSeq /\ Len(now) = w.nextSeq
      BY <2>2, <2>3, <1>3, <1>8, <1>9
    <3> QED BY <2>2, <2>3, <3>1, <3>2, <1>9 DEF RingMatches
  <2> QED BY <2>3, <2>4, <1>1 DEF LogSound, w
<1>13. CASE ~full
  <2>1. /\ w.ring = t /\ w.evictedBefore = log.evictedBefore
        /\ w.nextSeq = log.nextSeq + 1 /\ w.live = TRUE /\ w \in Log
    <3>1. w = [log EXCEPT !.live = TRUE, !.nextSeq = log.nextSeq + 1,
                          !.ring = t, !.evictedBefore = log.evictedBefore]
      BY <1>6, <1>13
    <3>2. /\ log.nextSeq + 1 \in Nat /\ log.evictedBefore \in Nat
          /\ t \in Seq([seq : Nat, body : Bodies])
      BY <1>3, <1>7 DEF E
    <3> DEFINE next == log.nextSeq + 1
               evicted == log.evictedBefore
               ring == t
    <3>3. /\ w = [log EXCEPT !.live = TRUE, !.nextSeq = next, !.ring = ring,
                             !.evictedBefore = evicted]
          /\ next \in Nat /\ evicted \in Nat /\ ring \in Seq([seq : Nat, body : Bodies])
      BY <3>1, <3>2
    <3> HIDE DEF next, evicted, ring
    <3>4. w.ring = ring /\ w.evictedBefore = evicted /\ w.nextSeq = next /\ w.live = TRUE
          /\ w \in Log
      BY <1>2, <3>3 DEF Log
    <3> QED BY <3>4 DEF next, evicted, ring
  <2>2. n + 1 <= Capacity BY <1>3, <1>7, <1>13, EventLogConstants
  <2>3. RingMatches(w, now)
    BY <2>1, <2>2, <1>3, <1>7, <1>8, <1>9, <1>11 DEF RingMatches
  <2> QED BY <2>1, <2>3, <1>1 DEF LogSound, w
<1> QED BY <1>12, <1>13

\* Retention empties a buffer up to its next number, or drops it.
LEMMA SweptIsSound ==
    ASSUME NEW log, NEW written, LogSound(log, written)
    PROVE  LogSound(Swept(log), written)
<1>1. log \in Log BY DEF LogSound
<1>2. Swept(log) \in {log, NoLog, Emptied(log)} BY DEF Swept
<1>3. CASE Swept(log) = Emptied(log) /\ ~log.live
  <2>1. log = NoLog BY <1>3 DEF LogSound
  <2>2. Swept(log) \in {log, NoLog}
    BY <2>1 DEF Swept, PastTombstone, PastRetention, NoLog
  <2> QED BY <2>2, NoLogIsSound
<1>4. CASE Swept(log) = Emptied(log) /\ log.live
  <2> DEFINE w == Emptied(log)
  <2>0. log.nextSeq \in Nat /\ Len(written) = log.nextSeq
    BY <1>1, <1>4, LogFields DEF LogSound, RingMatches
  <2>1. /\ w.ring = <<>> /\ w.evictedBefore = log.nextSeq /\ w.nextSeq = log.nextSeq
        /\ w.live = log.live /\ w \in Log
    BY <1>1, EmptiedFields
  <2> HIDE DEF w
  <2>2. RingMatches(w, written) BY <2>0, <2>1, EventLogConstants DEF RingMatches
  <2> QED BY <1>4, <2>1, <2>2 DEF LogSound, w
<1> QED BY <1>2, <1>3, <1>4, NoLogIsSound

\* Only the age of a buffer changes when it is closed or grows older.
LEMMA AgedIsSound ==
    ASSUME NEW log, NEW written, LogSound(log, written), NEW age \in -1..TombstoneAfter,
           log.live \/ age = log.closedFor
    PROVE  LogSound([log EXCEPT !.closedFor = age], written)
<1> DEFINE w == [log EXCEPT !.closedFor = age]
<1>1. /\ w \in Log /\ w.live = log.live /\ w.ring = log.ring
      /\ w.nextSeq = log.nextSeq /\ w.evictedBefore = log.evictedBefore
  BY DEF LogSound, Log
<1>2. CASE log.live
  BY <1>1, <1>2 DEF LogSound, RingMatches
<1>3. CASE ~log.live
  <2>1. log = NoLog /\ age = NoLog.closedFor BY <1>3 DEF LogSound
  <2>2. w = NoLog BY <2>1 DEF NoLog
  <2> QED BY <2>2, NoLogIsSound
<1> QED BY <1>2, <1>3

----------------------------------------------------------------------------
(* Steps of the writers, of the sweeper and of the clock.                  *)

\* A subscriber's state, where a proof needs no more of it.
LEMMA SubFields ==
    ASSUME TypeOK, NEW s \in Subscribers
    PROVE  /\ sub[s] \in Received
           /\ sub[s].id \in Responses \cup {None}
           /\ sub[s].epoch \in Nat /\ sub[s].from \in Nat \cup {-1}
           /\ sub[s].cursor \in Nat \cup {-1} /\ sub[s].drops \in Nat
           /\ sub[s].got \in Seq(Bodies) /\ Len(sub[s].got) \in Nat
           /\ sub[s].state \in {"idle", "open", "done", "error", "lost"}
BY DEF TypeOK, Received

\* A step that only rewrites buffers.
LEMMA BuffersWritten ==
    ASSUME StreamInvariant, logs' \in [Responses -> Log],
           \A id \in Responses : LogSound(logs'[id], published[id]),
           UNCHANGED <<published, epoch, appends, sub>>, readOnly' \in BOOLEAN
    PROVE  StreamInvariant'
BY DEF StreamInvariant, TypeOK, LogsMatch, SubscribersFollow

LEMMA AppendPreserves ==
    ASSUME StreamInvariant, NEW id \in Responses, NEW body \in Bodies, Append_(id, body)
    PROVE  StreamInvariant'
<1> DEFINE log == logs[id]
           old == published[id]
           now == IF log.live THEN Append(old, body) ELSE <<body>>
<1>1. LogSound(log, old) /\ old \in Seq(Bodies) /\ log.live \in BOOLEAN
  BY DEF StreamInvariant, LogsMatch, TypeOK, LogSound, Log
<1>2. LogSound(Pushed(log, body), now) BY <1>1, PushedIsSound
<1>3. now \in Seq(Bodies) BY <1>1
<1>4. /\ logs' = [logs EXCEPT ![id] = Pushed(log, body)]
      /\ published' = [published EXCEPT ![id] = now]
      /\ epoch' = [epoch EXCEPT ![id] = IF log.live THEN @ ELSE @ + 1]
      /\ appends' = appends + 1 /\ UNCHANGED <<readOnly, sub>>
  BY DEF Append_, LogPush
<1> HIDE DEF log, old, now
<1>5. TypeOK'
  <2>1. Pushed(log, body) \in Log BY <1>2 DEF LogSound
  <2>2. logs' \in [Responses -> Log] BY <2>1, <1>4 DEF StreamInvariant, TypeOK
  <2>3. published' \in [Responses -> Seq(Bodies)]
    BY <1>3, <1>4 DEF StreamInvariant, TypeOK
  <2>4. epoch' \in [Responses -> Nat] /\ appends' \in Nat
    BY <1>4 DEF StreamInvariant, TypeOK
  <2> QED BY <2>2, <2>3, <2>4, <1>4 DEF StreamInvariant, TypeOK
<1>6. LogsMatch'
  BY <1>2, <1>4 DEF StreamInvariant, LogsMatch, TypeOK
<1>7. SubscribersFollow'
  <2> SUFFICES ASSUME NEW s \in Subscribers PROVE Follows(sub[s], published', epoch')
    BY <1>4 DEF SubscribersFollow
  <2> DEFINE c == sub[s]
  <2>0. TypeOK BY DEF StreamInvariant
  <2>1. Follows(c, published, epoch) BY DEF StreamInvariant, SubscribersFollow
  <2>2. /\ c.epoch \in Nat /\ c.from \in Nat \cup {-1} /\ Len(c.got) \in Nat
        /\ c.got \in Seq(Bodies)
    BY <2>0, SubFields
  <2>3. \A i \in Responses : i # id => published'[i] = published[i] /\ epoch'[i] = epoch[i]
    BY <1>4, <2>0 DEF TypeOK
  <2>4. published'[id] = now /\ epoch[id] \in Nat
        /\ epoch'[id] = IF log.live THEN epoch[id] ELSE epoch[id] + 1
    BY <1>4, <2>0 DEF TypeOK
  <2> HIDE DEF c
  <2>5. CASE c.state = "idle" BY <2>1, <2>5 DEF Follows, c
  <2>6. CASE c.state # "idle" /\ c.id # id
    BY <2>1, <2>3, <2>6 DEF Follows, c
  <2>7. CASE c.state # "idle" /\ c.id = id /\ ~log.live
    \* A new log: what the subscriber had belongs to an earlier one.
    BY <2>1, <2>2, <2>4, <2>7 DEF Follows, c
  <2>8. CASE c.state # "idle" /\ c.id = id /\ log.live
    <3>1. now = Append(old, body) /\ epoch'[id] = epoch[id] BY <2>4, <2>8 DEF now
    <3>2. /\ Len(old) \in Nat /\ Len(now) = Len(old) + 1
          /\ \A i \in 1..Len(old) : now[i] = old[i]
      BY <1>1, <3>1, AppendedSeq
    <3>3. /\ c.cursor = c.from + Len(c.got) /\ c.epoch <= epoch[id]
          /\ (c.epoch = epoch[id] /\ c.got # <<>>) =>
                /\ c.cursor + 1 <= Len(old)
                /\ \A i \in 1..Len(c.got) : c.got[i] = old[c.from + 1 + i]
      BY <2>1, <2>8 DEF Follows, old
    <3>4. ASSUME c.epoch = epoch[id], c.got # <<>>
          PROVE  /\ c.cursor + 1 <= Len(now)
                 /\ \A i \in 1..Len(c.got) : c.got[i] = now[c.from + 1 + i]
      <4>1. c.cursor + 1 <= Len(old) /\ c.cursor = c.from + Len(c.got) BY <3>3, <3>4
      <4>2. \A i \in 1..Len(c.got) : c.from + 1 + i \in 1..Len(old)
        BY <4>1, <2>2, <3>2
      <4>3. c.cursor + 1 <= Len(now) BY <3>2, <4>1, <2>2
      <4>4. \A i \in 1..Len(c.got) : c.got[i] = old[c.from + 1 + i] BY <3>3, <3>4
      <4> QED BY <3>2, <4>2, <4>3, <4>4
    <3> QED BY <2>4, <2>8, <3>1, <3>3, <3>4 DEF Follows, c
  <2> QED BY <2>5, <2>6, <2>7, <2>8
<1> QED BY <1>5, <1>6, <1>7 DEF StreamInvariant

LEMMA ClosePreserves ==
    ASSUME StreamInvariant, NEW id \in Responses, NEW age \in CloseAges, Close(id, age)
    PROVE  StreamInvariant'
<1> DEFINE a == IF age > TombstoneAfter THEN TombstoneAfter ELSE age
<1>1. a \in -1..TombstoneAfter BY DeadlineIsNat, StreamConstants
<1>2. logs' = [logs EXCEPT ![id] = [logs[id] EXCEPT !.closedFor = a]] /\ logs[id].live
  BY DEF Close, LogClose
<1> HIDE DEF a
<1>3. LogSound([logs[id] EXCEPT !.closedFor = a], published[id])
  BY <1>1, <1>2, AgedIsSound DEF StreamInvariant, LogsMatch
<1>4. [logs[id] EXCEPT !.closedFor = a] \in Log BY <1>3 DEF LogSound
<1>5. logs' \in [Responses -> Log] /\ \A i \in Responses : LogSound(logs'[i], published[i])
  BY <1>2, <1>3, <1>4 DEF StreamInvariant, TypeOK, LogsMatch
<1> QED BY <1>5, BuffersWritten DEF Close, StreamInvariant, TypeOK

LEMMA RemovePreserves ==
    ASSUME StreamInvariant, NEW id \in Responses, RemoveLog(id)
    PROVE  StreamInvariant'
<1>1. \A w : LogSound(NoLog, w) BY NoLogIsSound
<1>2. NoLog \in Log BY <1>1 DEF LogSound
<1>3. logs' \in [Responses -> Log] /\ \A i \in Responses : LogSound(logs'[i], published[i])
  BY <1>1, <1>2 DEF RemoveLog, LogRemove, StreamInvariant, TypeOK, LogsMatch
<1> QED BY <1>3, BuffersWritten DEF RemoveLog, StreamInvariant, TypeOK

LEMMA SweepPreserves ==
    ASSUME StreamInvariant, Sweep
    PROVE  StreamInvariant'
<1>1. \A i \in Responses : logs'[i] = Swept(logs[i]) BY DEF Sweep, LogSweep
<1>2. \A i \in Responses : LogSound(logs'[i], published[i])
  BY <1>1, SweptIsSound DEF StreamInvariant, LogsMatch
<1>3. logs' \in [Responses -> Log]
  BY <1>2 DEF Sweep, LogSweep, LogSound
<1> QED BY <1>2, <1>3, BuffersWritten DEF Sweep, StreamInvariant, TypeOK

LEMMA TickPreserves ==
    ASSUME StreamInvariant, Tick
    PROVE  StreamInvariant'
<1>1. \A i \in Responses : LogSound(logs'[i], published[i])
  <2> SUFFICES ASSUME NEW i \in Responses PROVE LogSound(logs'[i], published[i])
    OBVIOUS
  <2> DEFINE old == logs[i].closedFor
             age == IF old = -1 \/ old >= TombstoneAfter THEN old ELSE old + 1
  <2>1. logs'[i] = [logs[i] EXCEPT !.closedFor = age] BY DEF Tick, LogTick
  <2>2. LogSound(logs[i], published[i]) BY DEF StreamInvariant, LogsMatch
  <2>3. old \in -1..TombstoneAfter BY <2>2, LogFields DEF LogSound
  <2>4. age \in -1..TombstoneAfter BY <2>3, DeadlineIsNat
  <2>5. logs[i].live \/ age = old
    <3>1. CASE ~logs[i].live
      <4>1. old = -1 BY <2>2, <3>1 DEF LogSound, NoLog
      <4> QED BY <4>1
    <3> QED BY <3>1
  <2> HIDE DEF age
  <2> QED BY <2>1, <2>2, <2>4, <2>5, AgedIsSound
<1>2. logs' \in [Responses -> Log]
  BY <1>1 DEF Tick, LogTick, LogSound
<1> QED BY <1>1, <1>2, BuffersWritten DEF Tick, StreamInvariant, TypeOK

LEMMA DegradePreserves ==
    ASSUME StreamInvariant, Degrade
    PROVE  StreamInvariant'
BY BuffersWritten DEF Degrade, StreamInvariant, TypeOK, LogsMatch

----------------------------------------------------------------------------
(* Steps of the subscriptions.                                             *)

\* A step that only moves one subscriber.
LEMMA SubscriberMoved ==
    ASSUME StreamInvariant, NEW s \in Subscribers, NEW c \in Received,
           Follows(c, published, epoch), sub' = [sub EXCEPT ![s] = c],
           UNCHANGED <<logs, readOnly, published, epoch, appends>>
    PROVE  StreamInvariant'
<1>1. sub' \in [Subscribers -> Received] BY DEF StreamInvariant, TypeOK
<1>2. SubscribersFollow'
  BY DEF StreamInvariant, TypeOK, SubscribersFollow
<1> QED BY <1>1, <1>2 DEF StreamInvariant, TypeOK, LogsMatch

LEMMA SubscribePreserves ==
    ASSUME StreamInvariant, NEW s \in Subscribers, NEW id \in Responses, NEW from \in Starts,
           Subscribe(s, id, from)
    PROVE  StreamInvariant'
<1> DEFINE c == [sub[s] EXCEPT !.id = id, !.epoch = epoch[id], !.from = from,
                               !.cursor = from, !.state = "open"]
<1>0. TypeOK BY DEF StreamInvariant
<1>1. from \in Nat \cup {-1} /\ epoch[id] \in Nat
  BY <1>0, StreamConstants DEF TypeOK
<1>2. sub[s] \in Received /\ sub[s].got = <<>>
  BY <1>0, SubFields DEF StreamInvariant, SubscribersFollow, Follows, Subscribe
<1>3. /\ c \in Received /\ c.id = id /\ c.epoch = epoch[id] /\ c.from = from
      /\ c.cursor = from /\ c.got = <<>> /\ c.state = "open"
  BY <1>1, <1>2 DEF Received
<1>4. sub' = [sub EXCEPT ![s] = c] BY DEF Subscribe
<1> HIDE DEF c
<1>5. Follows(c, published, epoch) BY <1>1, <1>3 DEF Follows
<1> QED BY <1>3, <1>4, <1>5, SubscriberMoved DEF Subscribe

\* A batch is the stretch of the ring from the reader's next number on, so it
\* is the stretch of what was written that the reader has not got.
LEMMA BatchFacts ==
    ASSUME StreamInvariant, NEW id \in Responses, NEW cursor \in Nat \cup {-1},
           ReadOutcome(id, cursor) = "batch"
    PROVE  LET batch == ReadBatch(id, cursor, Batch)
           IN  /\ Len(batch) \in Nat \ {0}
               /\ BodiesOf(batch) \in Seq(Bodies) /\ Len(BodiesOf(batch)) = Len(batch)
               /\ LastSeq(batch) = cursor + Len(batch)
               /\ cursor + 1 + Len(batch) <= Len(published[id])
               /\ \A i \in 1..Len(batch) : BodiesOf(batch)[i] = published[id][cursor + 1 + i]
<1> DEFINE log    == logs[id]
           ring   == log.ring
           n      == Len(ring)
           offset == cursor + 1 - log.evictedBefore
           last   == IF offset + Batch < n THEN offset + Batch ELSE n
           batch  == SubSeq(ring, offset + 1, last)
           E      == [seq : Nat, body : Bodies]
<1>0. ReadBatch(id, cursor, Batch) = batch BY DEF ReadBatch
<1>1. /\ log.live /\ cursor + 1 >= log.evictedBefore /\ cursor + 1 < log.nextSeq
      /\ log \in Log /\ RingMatches(log, published[id])
  <2>1. LogSound(log, published[id]) BY DEF StreamInvariant, LogsMatch
  <2>2. log.live /\ ~(cursor + 1 < log.evictedBefore) /\ cursor + 1 < log.nextSeq
    BY DEF ReadOutcome
  <2>3. log \in Log BY <2>1 DEF LogSound
  <2>4. log.evictedBefore \in Nat BY <2>3, LogFields
  <2> QED BY <2>1, <2>2, <2>3, <2>4 DEF LogSound
<1>2. /\ ring \in Seq(E) /\ n \in Nat /\ log.evictedBefore \in Nat /\ log.nextSeq \in Nat
  BY <1>1, LogFields
<1>3. /\ Len(published[id]) = log.nextSeq /\ log.evictedBefore + n = log.nextSeq
      /\ \A i \in 1..n : /\ ring[i].seq = log.evictedBefore + i - 1
                         /\ ring[i].body = published[id][ring[i].seq + 1]
  BY <1>1 DEF RingMatches
<1>4. offset \in Nat /\ offset < n BY <1>1, <1>2, <1>3
<1>5. last \in (offset + 1)..n BY <1>2, <1>4, StreamConstants
<1> HIDE DEF ring, n, offset, last, E
<1>6. /\ batch \in Seq(E) /\ Len(batch) = last - offset
      /\ \A i \in 1..Len(batch) : batch[i] = ring[offset + i] /\ offset + i \in 1..n
  <2>1. batch \in Seq(E) BY <1>2, <1>4, <1>5 DEF n
  <2>2. Len(batch) = last - offset BY <1>2, <1>4, <1>5 DEF n
  <2>3. \A i \in 1..Len(batch) : batch[i] = ring[offset + i] /\ offset + i \in 1..n
    BY <1>2, <1>4, <1>5, <2>2 DEF n
  <2> QED BY <2>1, <2>2, <2>3
<1>7. Len(batch) \in Nat \ {0} BY <1>2, <1>4, <1>5, <1>6
<1> HIDE DEF batch
<1>8. \A i \in 1..Len(batch) :
         /\ batch[i].seq = cursor + i
         /\ batch[i].body = published[id][cursor + 1 + i]
  <2> SUFFICES ASSUME NEW i \in 1..Len(batch)
               PROVE  batch[i].seq = cursor + i /\ batch[i].body = published[id][cursor + 1 + i]
    OBVIOUS
  <2>1. batch[i] = ring[offset + i] /\ offset + i \in 1..n BY <1>6
  <2>2. /\ batch[i].seq = log.evictedBefore + (offset + i) - 1
        /\ batch[i].body = published[id][batch[i].seq + 1]
    BY <2>1, <1>3
  <2>3. i \in Nat BY <1>7
  <2>4. log.evictedBefore + (offset + i) - 1 = cursor + i
    <3>1. \A e \in Nat, c \in Int, k \in Nat : e + ((c + 1 - e) + k) - 1 = c + k OBVIOUS
    <3>2. log.evictedBefore \in Nat /\ cursor \in Int BY <1>2
    <3>3. offset = cursor + 1 - log.evictedBefore BY DEF offset
    <3> HIDE DEF log
    <3> QED BY <3>1, <3>2, <3>3, <2>3
  <2>5. cursor + i + 1 = cursor + 1 + i BY <2>3
  <2> QED BY <2>2, <2>4, <2>5
<1>9. /\ BodiesOf(batch) \in Seq(Bodies) /\ Len(BodiesOf(batch)) = Len(batch)
      /\ \A i \in 1..Len(batch) : BodiesOf(batch)[i] = batch[i].body
  <2>1. \A i \in 1..Len(batch) : batch[i].body \in Bodies
    <3>1. \A i \in 1..Len(batch) : batch[i] \in E BY <1>6, <1>7
    <3> QED BY <3>1 DEF E
  <2>2. BodiesOf(batch) = [i \in 1..Len(batch) |-> batch[i].body] BY DEF BodiesOf
  <2> HIDE DEF batch
  <2>3. BodiesOf(batch) \in [1..Len(batch) -> Bodies] BY <2>1, <2>2
  <2>4. BodiesOf(batch) \in Seq(Bodies) BY <1>7, <2>3
  <2>5. Len(BodiesOf(batch)) = Len(batch) BY <1>7, <2>2
  <2> QED BY <2>2, <2>4, <2>5
<1>10. LastSeq(batch) = cursor + Len(batch)
  BY <1>7, <1>8 DEF LastSeq
<1>11. cursor + 1 + Len(batch) <= Len(published[id])
  <2>1. offset + log.evictedBefore = cursor + 1 BY <1>2 DEF offset
  <2>2. Len(published[id]) = log.evictedBefore + n BY <1>3
  <2>3. Len(batch) = last - offset BY <1>6
  <2> HIDE DEF log
  <2> QED BY <2>1, <2>2, <2>3, <1>2, <1>4, <1>5
<1> QED BY <1>0, <1>7, <1>8, <1>9, <1>10, <1>11

\* Two streams one after the other, by position.
LEMMA ConcatFacts ==
    ASSUME NEW S, NEW s \in Seq(S), NEW t \in Seq(S)
    PROVE  /\ s \o t \in Seq(S)
           /\ Len(s) \in Nat /\ Len(t) \in Nat /\ Len(s \o t) = Len(s) + Len(t)
           /\ \A i \in 1..Len(s) : (s \o t)[i] = s[i]
           /\ \A i \in 1..Len(t) : (s \o t)[Len(s) + i] = t[i]
OBVIOUS

LEMMA DeliverPreserves ==
    ASSUME StreamInvariant, NEW s \in Subscribers, Deliver(s)
    PROVE  StreamInvariant'
<1> DEFINE c      == sub[s]
           got    == c.got
           batch  == ReadBatch(c.id, c.cursor, Batch)
           bodies == BodiesOf(batch)
           state  == IF HasTerminal(batch) THEN "done" ELSE "open"
           d      == [c EXCEPT !.got = got \o bodies, !.cursor = LastSeq(batch),
                               !.state = state]
           w      == published[c.id]
<1>0. TypeOK /\ Follows(c, published, epoch)
  BY DEF StreamInvariant, SubscribersFollow
<1>1. /\ c \in Received /\ c.epoch \in Nat /\ c.from \in Nat \cup {-1}
      /\ c.cursor \in Nat \cup {-1} /\ got \in Seq(Bodies)
  BY <1>0, SubFields
<1>2. /\ c.id \in Responses /\ c.cursor = c.from + Len(got) /\ c.epoch <= epoch[c.id]
      /\ (c.epoch = epoch[c.id] /\ got # <<>>) =>
            \A i \in 1..Len(got) : got[i] = w[c.from + 1 + i]
  BY <1>0 DEF Follows, Deliver
<1>3. ReadOutcome(c.id, c.cursor) = "batch" BY DEF Deliver
<1>4. /\ Len(batch) \in Nat \ {0}
      /\ bodies \in Seq(Bodies) /\ Len(bodies) = Len(batch)
      /\ LastSeq(batch) = c.cursor + Len(batch)
      /\ c.cursor + 1 + Len(batch) <= Len(w)
      /\ \A i \in 1..Len(batch) : bodies[i] = w[c.cursor + 1 + i]
  BY <1>1, <1>2, <1>3, BatchFacts
<1>5. sub' = [sub EXCEPT ![s] = d] BY DEF Deliver
<1>6. state \in {"open", "done"} OBVIOUS
<1> HIDE DEF c, got, batch, bodies, state, w
<1>7. /\ got \o bodies \in Seq(Bodies) /\ Len(got) \in Nat
      /\ Len(got \o bodies) = Len(got) + Len(batch)
      /\ \A i \in 1..Len(got) : (got \o bodies)[i] = got[i]
      /\ \A i \in 1..Len(batch) : (got \o bodies)[Len(got) + i] = bodies[i]
  <2>1. /\ got \o bodies \in Seq(Bodies) /\ Len(got) \in Nat
        /\ Len(got \o bodies) = Len(got) + Len(bodies)
        /\ \A i \in 1..Len(got) : (got \o bodies)[i] = got[i]
        /\ \A i \in 1..Len(bodies) : (got \o bodies)[Len(got) + i] = bodies[i]
    <3>1. got \in Seq(Bodies) /\ bodies \in Seq(Bodies) BY <1>1, <1>4
    <3> QED BY ONLY <3>1, ConcatFacts
  <2> QED BY <1>4, <2>1
<1>8. LastSeq(batch) \in Nat BY <1>1, <1>4
<1>9. /\ d \in Received /\ d.id = c.id /\ d.epoch = c.epoch /\ d.from = c.from
      /\ d.got = got \o bodies /\ d.cursor = LastSeq(batch) /\ d.state # "idle"
  BY <1>1, <1>6, <1>7, <1>8 DEF Received
<1> HIDE DEF d
<1>10. \A i \in 1..Len(d.got) : c.epoch = epoch[c.id] => d.got[i] = w[c.from + 1 + i]
  <2> SUFFICES ASSUME NEW i \in 1..(Len(got) + Len(batch)), c.epoch = epoch[c.id]
               PROVE  d.got[i] = w[c.from + 1 + i]
    BY <1>7, <1>9
  <2>1. CASE i \in 1..Len(got)
    <3>1. got # <<>> BY <2>1
    <3>2. got[i] = w[c.from + 1 + i] BY <1>2, <2>1, <3>1
    <3> QED BY <1>7, <1>9, <2>1, <3>2
  <2>2. CASE i \notin 1..Len(got)
    <3> DEFINE j == i - Len(got)
    <3>1. j \in 1..Len(batch) /\ i = Len(got) + j BY <2>2, <1>4, <1>7
    <3>2. d.got[i] = bodies[j] BY <3>1, <1>7, <1>9
    <3>3. bodies[j] = w[c.cursor + 1 + j] BY <3>1, <1>4
    <3>4. c.cursor + 1 + j = c.from + 1 + i
      <4>1. j \in Nat /\ c.from \in Int /\ Len(got) \in Nat BY <1>1, <1>4, <1>7, <3>1
      <4>2. c.cursor = c.from + Len(got) /\ i = Len(got) + j BY <1>2, <3>1
      <4> HIDE DEF j
      <4> QED BY <4>1, <4>2
    <3> QED BY <3>2, <3>3, <3>4
  <2> QED BY <2>1, <2>2
<1>11. d.cursor = d.from + Len(d.got) /\ d.cursor + 1 <= Len(w)
  <2>1. d.cursor = c.cursor + Len(batch) BY <1>4, <1>9
  <2>2. Len(d.got) = Len(got) + Len(batch) /\ d.from = c.from BY <1>7, <1>9
  <2>3. d.cursor = d.from + Len(d.got) BY <2>1, <2>2, <1>1, <1>2, <1>4, <1>7
  <2>4. d.cursor + 1 = c.cursor + 1 + Len(batch) BY <2>1, <1>1, <1>4
  <2> QED BY <2>3, <2>4, <1>4
<1>12. Follows(d, published, epoch)
  BY <1>2, <1>9, <1>10, <1>11 DEF Follows, w
<1> QED BY <1>5, <1>9, <1>12, SubscriberMoved DEF Deliver

\* A step that only moves a subscriber from one state to another.
LEMMA StateMoved ==
    ASSUME StreamInvariant, NEW s \in Subscribers, sub[s].state # "idle",
           NEW state \in {"open", "done", "error", "lost"},
           sub' = [sub EXCEPT ![s] = [sub[s] EXCEPT !.state = state]],
           UNCHANGED <<logs, readOnly, published, epoch, appends>>
    PROVE  StreamInvariant'
<1> DEFINE c == sub[s]
           d == [c EXCEPT !.state = state]
<1>0. c \in Received /\ Follows(c, published, epoch)
  BY SubFields DEF StreamInvariant, SubscribersFollow
<1>1. /\ d \in Received /\ d.id = c.id /\ d.epoch = c.epoch /\ d.from = c.from
      /\ d.got = c.got /\ d.cursor = c.cursor /\ d.state # "idle"
  BY <1>0 DEF Received
<1>2. c.state # "idle" OBVIOUS
<1> HIDE DEF c, d
<1>3. Follows(d, published, epoch) BY <1>0, <1>1, <1>2 DEF Follows
<1> QED BY <1>1, <1>3, SubscriberMoved DEF c, d

LEMMA FailPreserves ==
    ASSUME StreamInvariant, NEW s \in Subscribers, Fail(s)
    PROVE  StreamInvariant'
<1>1. sub' = [sub EXCEPT ![s] = [sub[s] EXCEPT !.state = "error"]] /\ sub[s].state # "idle"
  BY DEF Fail
<1> QED BY <1>1, StateMoved DEF Fail

\* A resumed stream goes on where it was, whether or not anything had arrived.
LEMMA ResumePreserves ==
    ASSUME StreamInvariant, NEW s \in Subscribers, Resume(s)
    PROVE  StreamInvariant'
<1> DEFINE c        == sub[s]
           received == IF c.got = <<>> THEN -1 ELSE c.cursor
           cursor   == ResolveCursor(c.from, received)
           state    == IF ReadOutcome(c.id, cursor) \in {"batch", "empty"}
                       THEN "open" ELSE "error"
<1>0. TypeOK /\ Follows(c, published, epoch)
  BY DEF StreamInvariant, SubscribersFollow
<1>1. /\ c \in Received /\ c.from \in Nat \cup {-1} /\ c.cursor \in Nat \cup {-1}
      /\ c.got \in Seq(Bodies) /\ Len(c.got) \in Nat
  BY <1>0, SubFields
<1>2. c.state # "idle" /\ c.cursor = c.from + Len(c.got)
  BY <1>0 DEF Follows, Resume
<1>3. cursor = c.cursor
  <2>1. CASE c.got = <<>> BY <1>1, <1>2, <2>1 DEF ResolveCursor
  <2>2. CASE c.got # <<>>
    <3>1. Len(c.got) # 0 BY <1>1, <2>2
    <3>2. c.cursor # -1 BY <1>1, <1>2, <3>1
    <3> QED BY <2>2, <3>2 DEF ResolveCursor
  <2> QED BY <2>1, <2>2
<1>4. sub' = [sub EXCEPT ![s] = [c EXCEPT !.cursor = cursor, !.state = state]]
  BY DEF Resume
<1>5. state \in {"open", "error"} OBVIOUS
<1> HIDE DEF cursor, state
<1>6. [c EXCEPT !.cursor = cursor, !.state = state] = [c EXCEPT !.state = state]
  BY <1>1, <1>3 DEF Received
<1>7. /\ sub' = [sub EXCEPT ![s] = [sub[s] EXCEPT !.state = state]]
      /\ state \in {"open", "done", "error", "lost"}
  BY <1>4, <1>5, <1>6
<1> QED BY <1>2, <1>7, StateMoved DEF Resume

\* A broken connection: what arrived is a prefix, and the cursor goes with it.
LEMMA DisconnectPreserves ==
    ASSUME StreamInvariant, NEW s \in Subscribers, Disconnect(s)
    PROVE  StreamInvariant'
<1> DEFINE c == sub[s]
<1>0. TypeOK /\ Follows(c, published, epoch)
  BY DEF StreamInvariant, SubscribersFollow
<1>1. /\ c \in Received /\ c.from \in Nat \cup {-1} /\ c.drops \in Nat
      /\ c.got \in Seq(Bodies) /\ Len(c.got) \in Nat
  BY <1>0, SubFields
<1>2. c.state # "idle" BY DEF Disconnect
<1>3. PICK k \in 0..Len(c.got) :
           sub' = [sub EXCEPT ![s] =
                      [c EXCEPT !.got = SubSeq(c.got, 1, k), !.cursor = c.from + k,
                                !.drops = c.drops + 1, !.state = "lost"]]
  BY DEF Disconnect
<1> DEFINE got == SubSeq(c.got, 1, k)
           d   == [c EXCEPT !.got = got, !.cursor = c.from + k, !.drops = c.drops + 1,
                            !.state = "lost"]
<1> HIDE DEF c
<1>4. /\ got \in Seq(Bodies) /\ Len(got) = k /\ k \in Nat /\ k <= Len(c.got)
      /\ \A i \in 1..k : got[i] = c.got[i]
  BY <1>1
<1> HIDE DEF got
<1>5. c.from + k \in Nat \cup {-1} /\ c.drops + 1 \in Nat BY <1>1, <1>4
<1>6. /\ d \in Received /\ d.id = c.id /\ d.epoch = c.epoch /\ d.from = c.from
      /\ d.got = got /\ d.cursor = c.from + k /\ d.state # "idle"
  BY <1>1, <1>4, <1>5 DEF Received
<1> HIDE DEF d
<1>7. Follows(d, published, epoch)
  <2>1. /\ c.id \in Responses /\ c.cursor = c.from + Len(c.got) /\ c.epoch <= epoch[c.id]
        /\ (c.epoch = epoch[c.id] /\ c.got # <<>>) =>
              /\ c.cursor + 1 <= Len(published[c.id])
              /\ \A i \in 1..Len(c.got) : c.got[i] = published[c.id][c.from + 1 + i]
    BY <1>0, <1>2 DEF Follows
  <2>2. d.cursor = d.from + Len(d.got) BY <1>4, <1>6
  <2>3. ASSUME d.epoch = epoch[d.id], d.got # <<>>
        PROVE  /\ d.cursor + 1 <= Len(published[d.id])
               /\ \A i \in 1..Len(d.got) : d.got[i] = published[d.id][d.from + 1 + i]
    <3>1. k # 0 /\ c.got # <<>> BY <1>1, <1>4, <1>6, <2>3
    <3>2. /\ c.cursor + 1 <= Len(published[c.id])
          /\ \A i \in 1..Len(c.got) : c.got[i] = published[c.id][c.from + 1 + i]
      BY <1>6, <2>1, <2>3, <3>1
    <3>3. Len(published[c.id]) \in Nat BY <1>0, <2>1 DEF TypeOK
    <3>4. d.cursor + 1 <= Len(published[d.id])
      BY <1>1, <1>4, <1>6, <2>1, <3>2, <3>3
    <3>5. \A i \in 1..Len(d.got) : d.got[i] = published[d.id][d.from + 1 + i]
      BY <1>1, <1>4, <1>6, <3>2
    <3> QED BY <3>4, <3>5
  <2> QED BY <1>6, <2>1, <2>2, <2>3 DEF Follows
<1>8. sub' = [sub EXCEPT ![s] = d] BY <1>3 DEF d, got
<1> QED BY <1>6, <1>7, <1>8, SubscriberMoved DEF Disconnect

LEMMA InitEstablishes == Init => StreamInvariant
<1> SUFFICES ASSUME Init PROVE StreamInvariant OBVIOUS
<1>1. \A w : LogSound(NoLog, w) BY NoLogIsSound
<1>2. NoLog \in Log BY <1>1 DEF LogSound
<1>3. NoSub \in Received /\ NoSub.state = "idle" /\ NoSub.got = <<>>
  BY DEF NoSub, Received
<1>4. TypeOK
  <2>1. logs \in [Responses -> Log] BY <1>2 DEF Init, LogInit
  <2>2. published \in [Responses -> Seq(Bodies)] BY DEF Init
  <2>4. epoch \in [Responses -> Nat] /\ appends \in Nat /\ readOnly \in BOOLEAN
    BY DEF Init
  <2>3. sub \in [Subscribers -> Received] BY <1>3 DEF Init
  <2> QED BY <2>1, <2>2, <2>3, <2>4 DEF TypeOK
<1>5. LogsMatch BY <1>1 DEF LogsMatch, Init, LogInit
<1>6. SubscribersFollow BY <1>3 DEF SubscribersFollow, Follows, Init
<1> QED BY <1>4, <1>5, <1>6 DEF StreamInvariant

LEMMA StepPreserves == StreamInvariant /\ [Next]_vars => StreamInvariant'
<1> SUFFICES ASSUME StreamInvariant, [Next]_vars PROVE StreamInvariant' OBVIOUS
<1>1. CASE \E id \in Responses, body \in Bodies : Append_(id, body)
  BY <1>1, AppendPreserves
<1>2. CASE \E id \in Responses, age \in CloseAges : Close(id, age)
  BY <1>2, ClosePreserves
<1>3. CASE \E id \in Responses : RemoveLog(id) BY <1>3, RemovePreserves
<1>4. CASE Sweep BY <1>4, SweepPreserves
<1>5. CASE Tick BY <1>5, TickPreserves
<1>6. CASE Degrade BY <1>6, DegradePreserves
<1>7. CASE \E s \in Subscribers, id \in Responses, from \in Starts : Subscribe(s, id, from)
  BY <1>7, SubscribePreserves
<1>8. CASE \E s \in Subscribers : Deliver(s) \/ Fail(s) \/ Disconnect(s) \/ Resume(s)
  BY <1>8, DeliverPreserves, FailPreserves, DisconnectPreserves, ResumePreserves
<1>9. CASE UNCHANGED vars
  BY <1>9, BuffersWritten DEF vars, StreamInvariant, TypeOK, LogsMatch
<1> QED BY <1>1, <1>2, <1>3, <1>4, <1>5, <1>6, <1>7, <1>8, <1>9 DEF Next

----------------------------------------------------------------------------
(* Theorems.                                                               *)

\* The invariant holds in every reachable state.
THEOREM StreamsStaySound == Spec => []StreamInvariant
BY InitEstablishes, StepPreserves, PTL DEF Spec

\* Buffers and subscriptions always have the declared types.
THEOREM StreamTypeCorrect == Spec => []TypeOK
<1>1. StreamInvariant => TypeOK BY DEF StreamInvariant
<1> QED BY <1>1, StreamsStaySound, PTL

\* INV-11: at any capacity, the ring holds the last events written, numbered
\* without a gap, so read_after may index it (append, sweep, close, remove).
THEOREM RingIsIndexable == Spec => []RingHoldsTheTail
<1>1. StreamInvariant => RingHoldsTheTail
  BY DEF StreamInvariant, LogsMatch, LogSound, RingMatches, RingHoldsTheTail
<1> QED BY <1>1, StreamsStaySound, PTL

\* Two sequences of the same length with the same elements are the same.
LEMMA SameSequence ==
    ASSUME NEW S, NEW s \in Seq(S), NEW t \in Seq(S), Len(s) = Len(t),
           \A i \in 1..Len(s) : s[i] = t[i]
    PROVE  s = t
OBVIOUS

\* INV-40: for any number of subscribers, batch size and capacity, what a
\* client received is what was written after the position it asked for, over
\* evictions, sweeps, lost connections and resumptions (open_sse, read_after).
THEOREM StreamsHaveNoGap == Spec => []NoSilentGap
<1>1. StreamInvariant => NoSilentGap
  <2> SUFFICES ASSUME StreamInvariant, NEW s \in Subscribers,
                      sub[s].state # "idle", sub[s].epoch = epoch[sub[s].id],
                      sub[s].got # <<>>
               PROVE  sub[s].got = SubSeq(published[sub[s].id], sub[s].from + 2,
                                          sub[s].cursor + 1)
    BY DEF NoSilentGap
  <2> DEFINE c == sub[s]
             w == published[c.id]
             t == SubSeq(w, c.from + 2, c.cursor + 1)
  <2>1. TypeOK /\ Follows(c, published, epoch)
    BY DEF StreamInvariant, SubscribersFollow
  <2>2. /\ c.from \in Int /\ c.from >= -1 /\ c.cursor \in Int
        /\ c.got \in Seq(Bodies) /\ Len(c.got) \in Nat
    BY <2>1, SubFields
  <2>3. /\ c.id \in Responses /\ c.cursor = c.from + Len(c.got)
        /\ c.cursor + 1 <= Len(w)
        /\ \A i \in 1..Len(c.got) : c.got[i] = w[c.from + 1 + i]
    BY <2>1 DEF Follows
  <2>4. w \in Seq(Bodies) /\ Len(w) \in Nat BY <2>1, <2>3 DEF TypeOK
  <2> HIDE DEF c, w
  <2>5. /\ t \in Seq(Bodies) /\ Len(t) = Len(c.got)
        /\ \A i \in 1..Len(t) : t[i] = w[c.from + 1 + i]
    <3> DEFINE a == c.from + 2
               b == c.cursor + 1
    <3>1. a \in 1..(Len(w) + 1) /\ b \in (a - 1)..Len(w) /\ b - a + 1 = Len(c.got)
      <4>1. c.cursor = c.from + Len(c.got) /\ c.cursor + 1 <= Len(w) BY <2>3
      <4> DEFINE n == Len(c.got)
                 m == Len(w)
                 f == c.from
      <4>2. n \in Nat /\ m \in Nat /\ f \in Int /\ f >= -1 BY <2>2, <2>4
      <4>3. a = f + 2 /\ b = f + n + 1 /\ b <= m BY <4>1
      <4> HIDE DEF a, b, n, m, f
      <4>4. a \in 1..(m + 1) /\ b \in (a - 1)..m /\ b - a + 1 = n BY <4>2, <4>3
      <4> QED BY <4>4 DEF n, m
    <3>2. \A i \in Int : a + i - 1 = c.from + 1 + i BY <2>2
    <3> HIDE DEF a, b
    <3>3. /\ SubSeq(w, a, b) \in Seq(Bodies) /\ Len(SubSeq(w, a, b)) = b - a + 1
          /\ \A i \in 1..(b - a + 1) : SubSeq(w, a, b)[i] = w[a + i - 1]
      BY <2>4, <3>1
    <3>4. t = SubSeq(w, a, b) BY DEF a, b
    <3> HIDE DEF t
    <3>5. Len(t) = Len(c.got) BY <3>1, <3>3, <3>4
    <3>6. \A i \in 1..Len(t) : t[i] = w[a + i - 1] BY <3>1, <3>3, <3>4, <3>5
    <3>7. \A i \in 1..Len(t) : i \in Int BY <2>2, <3>5
    <3> QED BY <3>2, <3>3, <3>4, <3>5, <3>6, <3>7
  <2>6. c.got = t
    <3> HIDE DEF t
    <3> QED BY <2>2, <2>3, <2>5, SameSequence
  <2> QED BY <2>6 DEF c, w
<1> QED BY <1>1, StreamsStaySound, PTL
=============================================================================

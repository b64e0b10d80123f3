--------------------------- MODULE EventLogStore ---------------------------
(***************************************************************************)
(* The per-response event buffer behind the ResponseEventLog port          *)
(* (verify/mock/server/src/event_log.rs).  Every method takes the buffer's *)
(* own mutex once; append asks the ledger's fence first, under the other   *)
(* mutex, so the fence is a step of its caller and LogPush is the rest.    *)
(*                                                                         *)
(* A cursor is the last sequence number received, -1 for none, so the      *)
(* next one needed is always cursor + 1.  closedFor is how long ago the    *)
(* terminal_at_ms given to close was, -1 while the log is open, counted up *)
(* to the tombstone deadline, the last moment anything asks about.         *)
(***************************************************************************)
EXTENDS Shared, Integers, Sequences, FiniteSets

CONSTANTS
    Bodies,             \* what an event may carry
    TerminalBodies,     \* the bodies of terminal events
    Capacity,           \* capacity_per_response
    MaxLogs,            \* max_logs
    RetainFor,          \* retain_after_terminal, in clock ticks
    TombstoneFactor     \* TOMBSTONE_FACTOR

ASSUME EventLogConstants ==
    /\ TerminalBodies \subseteq Bodies
    /\ Capacity \in Nat \ {0} /\ MaxLogs \in Nat \ {0}
    /\ RetainFor \in Nat /\ TombstoneFactor \in Nat \ {0}

VARIABLE logs           \* id -> its buffer; live is FALSE when there is none

TombstoneAfter == RetainFor * TombstoneFactor

NoLog ==
    [live |-> FALSE, ring |-> <<>>, nextSeq |-> 0, evictedBefore |-> 0,
     closedFor |-> -1, swept |-> FALSE]

Log ==
    [live : BOOLEAN, ring : Seq([seq : Nat, body : Bodies]), nextSeq : Nat,
     evictedBefore : Nat, closedFor : -1..TombstoneAfter, swept : BOOLEAN]

LogInit == logs = [id \in Responses |-> NoLog]

LogCount == Cardinality({id \in Responses : logs[id].live})

----------------------------------------------------------------------------
(* Writing.                                                                *)

PushOutcome(id) ==
    CASE ~logs[id].live /\ LogCount >= MaxLogs -> "capacity_exceeded"
      [] logs[id].swept                        -> "expired"
      [] OTHER                                 -> "ok"

\* Mutant: the oldest event is dropped and the watermark stays.
PushedUnmarked(log, body) ==
    LET ring == Append(log.ring, [seq |-> log.nextSeq, body |-> body])
        full == Len(ring) > Capacity
    IN  [log EXCEPT !.live = TRUE, !.nextSeq = @ + 1,
                    !.ring = IF full THEN Tail(ring) ELSE ring]

\* A full ring evicts its oldest event and raises the watermark; the append
\* itself is never refused for it.
Pushed(log, body) ==
    LET ring == Append(log.ring, [seq |-> log.nextSeq, body |-> body])
        full == Len(ring) > Capacity
    IN  [log EXCEPT !.live = TRUE, !.nextSeq = @ + 1,
                    !.ring = IF full THEN Tail(ring) ELSE ring,
                    !.evictedBefore = IF full THEN @ + 1 ELSE @]

LogPush(id, body) ==
    /\ PushOutcome(id) = "ok"
    /\ logs' = [logs EXCEPT ![id] = Pushed(@, body)]

----------------------------------------------------------------------------
(* Reading.                                                                *)

ReadOutcome(id, cursor) ==
    CASE ~logs[id].live -> "unknown"
      [] logs[id].live /\ logs[id].swept -> "expired"
      [] OTHER -> IF cursor + 1 < logs[id].evictedBefore THEN "expired"
                  ELSE IF cursor + 1 < logs[id].nextSeq THEN "batch"
                  ELSE "empty"

\* The ring holds consecutive events from the watermark on, so the position of
\* an event is its distance from the watermark.
ReadBatch(id, cursor, limit) ==
    LET ring   == logs[id].ring
        offset == cursor + 1 - logs[id].evictedBefore
    IN  SubSeq(ring, offset + 1,
               IF offset + limit < Len(ring) THEN offset + limit ELSE Len(ring))

BodiesOf(events) == [i \in 1..Len(events) |-> events[i].body]
HasTerminal(events) == \E i \in 1..Len(events) : events[i].body \in TerminalBodies
LastSeq(events) == events[Len(events)].seq

----------------------------------------------------------------------------
(* Closing and retention.                                                  *)

\* The caller says when the response ended: `age` is how old that time is.
LogClose(id, age) ==
    /\ logs[id].live
    /\ logs' = [logs EXCEPT ![id].closedFor =
                   IF age > TombstoneAfter THEN TombstoneAfter ELSE age]

LogRemove(id) ==
    /\ logs[id].live
    /\ logs' = [logs EXCEPT ![id] = NoLog]

PastRetention(log) == log.closedFor >= RetainFor /\ log.closedFor # -1
PastTombstone(log) == log.closedFor >= TombstoneAfter /\ log.closedFor # -1

Emptied(log) ==
    [log EXCEPT !.ring = <<>>, !.evictedBefore = log.nextSeq, !.swept = TRUE]

\* Mutant: a ring that still holds events is left for the next pass.
SweptWhenDrained(log) ==
    IF log.ring = <<>> /\ PastTombstone(log) THEN NoLog ELSE log

Swept(log) ==
    CASE PastTombstone(log) -> NoLog
      [] ~PastTombstone(log) /\ ~log.swept /\ PastRetention(log) -> Emptied(log)
      [] OTHER -> log

LogSweep == logs' = [id \in Responses |-> Swept(logs[id])]

\* One clock tick, as seen by the closed logs.
LogTick ==
    logs' = [id \in Responses |->
                [logs[id] EXCEPT !.closedFor =
                    IF @ = -1 \/ @ >= TombstoneAfter THEN @ ELSE @ + 1]]
=============================================================================

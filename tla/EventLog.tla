------------------------------ MODULE EventLog ------------------------------
(***************************************************************************)
(* Event streams end to end: arbitrary writers on one side, the gateway's  *)
(* SSE subscriptions (gateway/src/sse.rs) on the other, the sweeper and    *)
(* deletion in between.  Clients lose their connections, with whatever was *)
(* in flight on them, and resume from the last event they received.        *)
(***************************************************************************)
EXTENDS EventLogStore

CONSTANTS
    Subscribers,
    Starts,         \* the starting_after values clients ask for, -1 for none
    Batch,          \* RESPONSE_BATCH
    CloseAges,      \* how stale the terminal time given to close may be
    MaxAppends,     \* bound on the events written
    MaxDrops        \* bound on the connections one client loses

ASSUME StreamConstants ==
    /\ Starts \subseteq Nat \cup {-1} /\ CloseAges \subseteq Nat
    /\ Batch \in Nat \ {0} /\ MaxAppends \in Nat /\ MaxDrops \in Nat

VARIABLES
    published,      \* history: id -> the bodies written to its present log
    epoch,          \* history: id -> how many logs it has had
    appends,        \* events written so far
    sub             \* subscriber -> its state

vars == <<logs, readOnly, published, epoch, appends, sub>>

NoSub == [id |-> None, epoch |-> 0, from |-> -1, cursor |-> -1, got |-> <<>>,
          drops |-> 0, state |-> "idle"]

Init ==
    /\ LogInit /\ readOnly = FALSE
    /\ published = [id \in Responses |-> <<>>]
    /\ epoch = [id \in Responses |-> 0]
    /\ appends = 0
    /\ sub = [s \in Subscribers |-> NoSub]

----------------------------------------------------------------------------
Append_(id, body) ==
    /\ ~readOnly /\ appends < MaxAppends
    /\ LogPush(id, body)
    /\ appends' = appends + 1
    /\ published' = [published EXCEPT ![id] =
                        IF logs[id].live THEN Append(@, body) ELSE <<body>>]
    /\ epoch' = [epoch EXCEPT ![id] = IF logs[id].live THEN @ ELSE @ + 1]
    /\ UNCHANGED <<readOnly, sub>>

\* Only the path that took the response to its terminal state in the ledger
\* closes its log, and the ledger lets one path through.
Close(id, age) ==
    /\ logs[id].closedFor = -1
    /\ LogClose(id, age)
    /\ UNCHANGED <<readOnly, published, epoch, appends, sub>>

RemoveLog(id) ==
    LogRemove(id) /\ UNCHANGED <<readOnly, published, epoch, appends, sub>>

Sweep == LogSweep /\ UNCHANGED <<readOnly, published, epoch, appends, sub>>

Tick == LogTick /\ UNCHANGED <<readOnly, published, epoch, appends, sub>>

Degrade ==
    /\ readOnly' = ~readOnly
    /\ UNCHANGED <<logs, published, epoch, appends, sub>>

\* open_sse probes before it answers 200, so an unknown or expired position is
\* refused and no stream starts.
Subscribe(s, id, from) ==
    /\ sub[s].state = "idle"
    /\ ReadOutcome(id, from) \in {"batch", "empty"}
    /\ sub' = [sub EXCEPT ![s] = [@ EXCEPT !.id = id, !.epoch = epoch[id], !.from = from,
                                           !.cursor = from, !.state = "open"]]
    /\ UNCHANGED <<logs, readOnly, published, epoch, appends>>

\* One turn of the stream loop that delivers something.  An empty long poll
\* just waits again and changes nothing.
Deliver(s) ==
    LET batch == ReadBatch(sub[s].id, sub[s].cursor, Batch)
    IN  /\ sub[s].state = "open"
        /\ ReadOutcome(sub[s].id, sub[s].cursor) = "batch"
        /\ sub' = [sub EXCEPT ![s] =
                      [@ EXCEPT !.got = sub[s].got \o BodiesOf(batch), !.cursor = LastSeq(batch),
                                !.state = IF HasTerminal(batch) THEN "done" ELSE "open"]]
        /\ UNCHANGED <<logs, readOnly, published, epoch, appends>>

\* The in-band error event: the stream ends.
Fail(s) ==
    /\ sub[s].state = "open"
    /\ ReadOutcome(sub[s].id, sub[s].cursor) \in {"unknown", "expired"}
    /\ sub' = [sub EXCEPT ![s].state = "error"]
    /\ UNCHANGED <<logs, readOnly, published, epoch, appends>>

\* The connection breaks and only the first k events of the stream arrived.
Disconnect(s) ==
    /\ sub[s].state \in {"open", "done"} /\ sub[s].drops < MaxDrops
    /\ \E k \in 0..Len(sub[s].got) :
          sub' = [sub EXCEPT ![s] = [@ EXCEPT !.got = SubSeq(sub[s].got, 1, k),
                                              !.cursor = sub[s].from + k,
                                              !.drops = sub[s].drops + 1, !.state = "lost"]]
    /\ UNCHANGED <<logs, readOnly, published, epoch, appends>>

\* Mutant: the query string wins over what the client received.
QueryWins(query, lastEventId) == query

\* resolve_cursor: the header reflects what the client received, and is absent
\* (-1) when it received nothing.
ResolveCursor(query, lastEventId) == IF lastEventId = -1 THEN query ELSE lastEventId

Resume(s) ==
    LET received == IF sub[s].got = <<>> THEN -1 ELSE sub[s].cursor
        cursor   == ResolveCursor(sub[s].from, received)
    IN  /\ sub[s].state = "lost"
        /\ sub' = [sub EXCEPT ![s] =
                      [@ EXCEPT !.cursor = cursor,
                                !.state = IF ReadOutcome(sub[s].id, cursor) \in {"batch", "empty"}
                                          THEN "open" ELSE "error"]]
        /\ UNCHANGED <<logs, readOnly, published, epoch, appends>>

Next ==
    \/ \E id \in Responses, body \in Bodies : Append_(id, body)
    \/ \E id \in Responses, age \in CloseAges : Close(id, age)
    \/ \E id \in Responses : RemoveLog(id)
    \/ Sweep \/ Tick \/ Degrade
    \/ \E s \in Subscribers, id \in Responses, from \in Starts : Subscribe(s, id, from)
    \/ \E s \in Subscribers : Deliver(s) \/ Fail(s) \/ Disconnect(s) \/ Resume(s)

Spec == Init /\ [][Next]_vars

\* Time passes, every peer's sweeper ticks, and the stream task of an open
\* connection is polled.
Fairness ==
    /\ WF_vars(Tick) /\ WF_vars(Sweep)
    /\ \A s \in Subscribers : WF_vars(Deliver(s) \/ Fail(s))

FairSpec == Spec /\ Fairness

----------------------------------------------------------------------------
(* What the event streams promise.                                         *)

Received == [id : Responses \cup {None}, epoch : Nat, from : Nat \cup {-1},
             cursor : Nat \cup {-1}, got : Seq(Bodies), drops : Nat,
             state : {"idle", "open", "done", "error", "lost"}]

TypeOK ==
    /\ logs \in [Responses -> Log]
    /\ readOnly \in BOOLEAN
    /\ published \in [Responses -> Seq(Bodies)]
    /\ epoch \in [Responses -> Nat] /\ appends \in Nat
    /\ sub \in [Subscribers -> Received]

\* INV-11: the events a log keeps are numbered without a gap from the
\* watermark to the next number, and are the last ones written, in order, so
\* that read_after may index the ring instead of searching it.
RingHoldsTheTail ==
    \A id \in Responses :
        LET log == logs[id]
        IN  log.live =>
              /\ Len(published[id]) = log.nextSeq
              /\ log.evictedBefore + Len(log.ring) = log.nextSeq
              /\ Len(log.ring) <= Capacity
              /\ \A i \in 1..Len(log.ring) :
                    /\ log.ring[i].seq = log.evictedBefore + i - 1
                    /\ log.ring[i].body = published[id][log.ring[i].seq + 1]

\* INV-40 and INV-12: what a client has received is exactly the events after
\* the position it asked for, without a gap, a repetition or a reordering,
\* over evictions, sweeps, lost connections and resumptions - as long as the
\* log it subscribed to was not removed and written again meanwhile.
NoSilentGap ==
    \A s \in Subscribers :
        LET c == sub[s]
        IN  (c.state # "idle" /\ c.epoch = epoch[c.id] /\ c.got # <<>>) =>
                c.got = SubSeq(published[c.id], c.from + 2, c.cursor + 1)

\* A closed stream lets go of its subscribers: whatever position it waits at,
\* and whether the log is still read, already swept or forgotten altogether,
\* every one of them is given the terminal event or an explicit error; nobody
\* waits for ever on a response that has ended.  The one excuse is a log that
\* was removed and written again, for that starts a new stream.
SubscribersAreReleased ==
    \A s \in Subscribers, n \in 1..MaxAppends :
        (sub[s].state = "open" /\ logs[sub[s].id].closedFor # -1 /\ epoch[sub[s].id] = n)
            ~> (sub[s].state # "open" \/ epoch[sub[s].id] > n)
=============================================================================

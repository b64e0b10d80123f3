---------------------------- MODULE Conformance ----------------------------
(***************************************************************************)
(* The repository's port contract (verify/conformance/src/lib.rs) played   *)
(* against the models of the three stores: every case of run_suite is a    *)
(* script of port calls and of the answers its assertions allow, and the   *)
(* suite runs its cases one after the other over the same stores, once or  *)
(* several times.                                                          *)
(*                                                                         *)
(* A script is a sequence of groups.  The calls of a group are spawned     *)
(* together and answered in any order; the case goes on when all of them   *)
(* are answered, and asks that the answers, in the order they came, be one *)
(* of the sequences the group allows.  A case that only calls in sequence  *)
(* has groups of one call.                                                 *)
(***************************************************************************)
EXTENDS LedgerStore, EventLogStore, ConversationStore

Seqs == INSTANCE SequencesExt

CONSTANTS
    Passes,         \* how often the suite is run against the same stores
    Racers,         \* RACERS, the calls of a contended group
    Limit,          \* LIMIT, the pending limit of the overload case
    Slots           \* how many responses a case may mint

ASSUME ConformanceConstants ==
    /\ Passes \in Nat \ {0} /\ Limit \in 1..Racers
    /\ Slots >= Racers + 3 /\ MaxEvents >= 4 /\ Racers <= Capacity /\ 5 <= Capacity

VARIABLES
    pass, at, step,     \* the pass, the case of it and the group of that
    spawned,            \* the calls of the group still unanswered, by position
    answers,            \* the answers of the group so far, in order
    held, accepted,     \* the responses the case has claimed, and had accepted, in order
    rows,               \* conversation -> what only its row holds: creation time, metadata
    failed              \* whether an assertion failed

suiteVars == <<pass, at, step, spawned, answers, held, accepted, rows, failed>>
vars == <<ledgerVars, logs, convVars, suiteVars>>

----------------------------------------------------------------------------
(* What a case names.  Tenants, ids, keys and conversations are minted per *)
(* case and pass.                                                          *)

R(case, n) == <<pass, case, n>>             \* new_id, fresh_key
T(case, who) == <<pass, case, who>>         \* fresh_tenant
C(case, n) == <<pass, case, n>>             \* fresh_conversation
Claimed == <<>>                             \* stands for the response last claimed
ClaimedBefore == <<1>>                      \* for the one claimed before it
Accepted(n) == <<n, n>>                     \* and for the n-th one accepted

One(call, allowed) == [calls |-> <<call>>, allowed |-> {<<a>> : a \in allowed}]
Race(calls, allowed) == [calls |-> calls, allowed |-> allowed]
Many(n, group) == [i \in 1..n |-> group]

\* The calls of the three ports.
Create(r, key, t) == [op |-> "create", id |-> r, key |-> key, tenant |-> t]
ClaimAny == [op |-> "claim"]
Probe(r, n) == [op |-> "check_attempt", id |-> r, attempt |-> n]
Complete(r, n, s, u) == [op |-> "complete", id |-> r, attempt |-> n, status |-> s, usage |-> u]
Cancel(r, t) == [op |-> "cancel", id |-> r, tenant |-> t]
Book(r, n, u) == [op |-> "record_partial_usage", id |-> r, attempt |-> n, usage |-> u]
Get(r) == [op |-> "get", id |-> r]
Delete(r) == [op |-> "delete", id |-> r]
Limited(n) == [op |-> "set_pending_limit", limit |-> n]
Drained == [op |-> "drain"]

Push(r, n, b) == [op |-> "append", id |-> r, attempt |-> n, body |-> b]
Read(r, cursor, n) == [op |-> "read_after", id |-> r, cursor |-> cursor, limit |-> n]
CloseLog(r) == [op |-> "close", id |-> r]
SweepLogs == [op |-> "sweep_expired"]

NewConv(c, t, now) == [op |-> "new_conversation", conv |-> c, tenant |-> t, now |-> now]
SetMetadata(c, t, keys) ==
    [op |-> "update_metadata", conv |-> c, tenant |-> t, metadata |-> keys]
GetConv(c, t) == [op |-> "get_conversation", conv |-> c, tenant |-> t]
DropConv(c, t) == [op |-> "delete_conversation", conv |-> c, tenant |-> t]
Purge(t) == [op |-> "delete_by_tenant", tenant |-> t]
ListConvs(t) == [op |-> "list", tenant |-> t]
Snapshot(c, t) == [op |-> "read_snapshot", conv |-> c, tenant |-> t]
Archive(c, t, r, out) ==
    [op |-> "append_turn", conv |-> c, tenant |-> t, id |-> r, output |-> out]
MoveTail(c, t, r) == [op |-> "advance", conv |-> c, tenant |-> t, id |-> r]
Acquire(c, t, r) == [op |-> "acquire_active", conv |-> c, tenant |-> t, id |-> r]
Release(c, t, r) == [op |-> "release_active", conv |-> c, tenant |-> t, id |-> r]
Unstick(c, t, r) == [op |-> "release_stale_active", conv |-> c, tenant |-> t, id |-> r]
Note(c, t) == [op |-> "append_event", conv |-> c, tenant |-> t]
ReadConv(c, t, cursor) ==
    [op |-> "read_conversation", conv |-> c, tenant |-> t, cursor |-> cursor]

----------------------------------------------------------------------------
(* The cases.                                                              *)

Numbers(a, b) == [i \in 1..(b - a + 1) |-> a + i - 1]
Orders(S) ==                                \* every element once, in any order
    {s \in [1..Cardinality(S) -> S] : \A x \in S : \E i \in DOMAIN s : s[i] = x}
FirstClaims == {<<r, 1>> : r \in Responses}

EventLogCase ==
    LET r == R("event-log", 1)
    IN  << One(Push(r, None, "created"), {0}) >>
        \o [i \in 1..4 |-> One(Push(r, None, "delta"), {i})]
        \o << One(Read(r, -1, 100), {Numbers(0, 4)}),
              One(Read(r, 0, 100), {Numbers(1, 4)}),
              One(Read(r, 999, 10), {<<>>}),
              One(Read(R("event-log", 2), -1, 10), {"unknown"}),
              One(CloseLog(r), {"ok"}),
              One(SweepLogs, {"ok"}),
              One(Read(r, -1, 10), {"expired"}),
              One(Read(r, 2, 10), {"expired"}) >>

\* The completed record is read back with the usage the completion reported.
LedgerCase ==
    LET r == R("ledger", 1)  key == R("ledger", 1)  t == T("ledger", 1)
    IN  << One(Create(r, key, t), {<<"accepted", r>>}),
           One(Create(R("ledger", 2), key, t), {<<"duplicate", r>>}),
           One(ClaimAny, FirstClaims),
           One(Probe(Claimed, 1), {"ok"}),
           One(Probe(Claimed, 2), {"stale_attempt"}),
           One(Complete(Claimed, 1, "completed", 1), {"ok"}),
           One(Complete(Claimed, 1, "completed", 0), {"stale_attempt"}),
           One(Complete(Claimed, 1, "in_progress", 0), {"invalid_transition"}),
           One(Get(Claimed), {<<"completed", 1>>}) >>

CancelCase ==
    LET r == R("cancel", 1)  t == T("cancel", 1)
    IN  << One(Create(r, r, t), {<<"accepted", r>>}),
           One(Cancel(r, T("cancel", 2)), {"not_found"}),
           One(Book(r, 1, 1), {"ok"}),
           One(Book(R("cancel", 2), 1, 1), {"not_found"}),
           One(Cancel(r, t), {"ok"}),
           One(Get(r), {<<"cancelled", 0>>}),
           One(Probe(r, 0), {"stale_attempt"}),
           One(Cancel(r, t), {"invalid_transition"}) >>

\* What a snapshot shows: the turns, oldest first, each with its output.
Turns(case, outs) == [i \in 1..Len(outs) |-> Turn(R(case, i), outs[i])]

ContextCase ==
    LET c == C("context", 1)  d == C("context", 2)
        t == T("context", 1)  u == T("context", 2)
        three == Turns("context", <<1, 1, 1>>)
    IN  << One(NewConv(c, t, 1), {"ok"}) >>
        \o [i \in 1..3 |-> One(Archive(c, t, R("context", i), 1), {i - 1})]
        \o << One(Snapshot(c, t), {three}),
              One(Snapshot(c, u), {"not_found"}),
              One(Snapshot(d, t), {"not_found"}),
              One(Delete(R("context", 1)), {"ok"}),
              One(Snapshot(c, t), {three}),
              One(Archive(c, t, R("context", 1), 1), {0}),
              One(Snapshot(c, t), {three}),
              One(Archive(c, t, R("context", 4), 0), {3}),
              One(Snapshot(c, t), {Turns("context", <<1, 1, 1, 0>>)}),
              One(NewConv(d, u, 1), {"ok"}),
              One(Archive(d, u, R("context", 5), 1), {0}),
              One(Purge(t), 1..Cardinality(Conversations)),
              One(Snapshot(d, u), {<<Turn(R("context", 5), 1)>>}) >>

\* The two claims are made in sequence, which is one order of two calls alike.
GlobalClaimCase ==
    LET f == R("global", 1)  m == R("global", 2)  t == T("global", 1)
    IN  << One(Drained, {"ok"}),
           One(Create(f, f, t), {<<"accepted", f>>}),
           One(Create(m, m, t), {<<"accepted", m>>}),
           Race(<<ClaimAny, ClaimAny>>, Orders({<<f, 1>>, <<m, 1>>})),
           One(Complete(ClaimedBefore, 1, "completed", 0), {"ok"}),
           One(Complete(Claimed, 1, "completed", 0), {"ok"}) >>

\* Exactly Limit of the racing creates are admitted, each can be read back, and
\* the racing claims get Limit responses, none of them twice.
Admissions(case) ==
    LET verdicts == {<<"accepted", R(case, i)>> : i \in 1..Racers} \cup {<<"overloaded", None>>}
    IN  {s \in [1..Racers -> verdicts] : Len(SelectSeq(s, LAMBDA a : a[1] = "accepted")) = Limit}
Present == (InFlight \cup Terminal) \X Usages
NoneTwice(s) == \A i, j \in DOMAIN s : s[i] = s[j] /\ s[i] # None => i = j
ClaimsUpTo(n) ==
    {s \in [1..Racers -> FirstClaims \cup {None}] :
        NoneTwice(s) /\ Len(SelectSeq(s, LAMBDA a : a # None)) = n}

OverloadCase ==
    LET t == T("overload", 1)
        r(i) == R("overload", i)
    IN  << One(Drained, {"ok"}),
           One(Limited(Limit), {"ok"}),
           Race([i \in 1..Racers |-> Create(r(i), r(i), t)], Admissions("overload")) >>
        \o [i \in 1..Limit |-> One(Get(Accepted(i)), Present)]
        \o << Race(Many(Racers, ClaimAny), ClaimsUpTo(Limit)),
              Race(Many(Racers, Push(Accepted(1), None, "delta")), Orders(0..(Racers - 1))),
              One(Limited(MaxRecords), {"ok"}) >>

ProvenanceCase ==
    LET r == R("provenance", 1)  f == R("provenance", 2)
        c == C("provenance", 1)  t == T("provenance", 1)
    IN  << One(NewConv(c, t, 1), {"ok"}) >>
        \o [i \in 1..3 |-> One(Push(r, None, "delta"), {i - 1})]
        \o << One(Archive(c, t, r, 1), {0}),
              One(CloseLog(r), {"ok"}),
              One(SweepLogs, {"ok"}),
              One(Read(r, -1, 64), {"expired"}),
              One(Snapshot(c, t), {<<Turn(r, 1)>>}),
              One(Create(f, f, t), {<<"accepted", f>>}),
              One(ClaimAny, FirstClaims),
              One(Push(Claimed, 1, "delta"), 0..Capacity),
              One(Push(Claimed, 0, "delta"), {"stale_attempt"}) >>

DurabilityCase ==
    LET r == R("durability", 1)  g == R("durability", 2)  t == T("durability", 1)
    IN  << One(Create(r, r, t), {<<"accepted", r>>}),
           One(Get(r), {<<"queued", 0>>}),
           One(Create(g, g, t), {<<"accepted", g>>}),
           One(Create(g, g, t), {<<"duplicate", g>>}) >>

\* Other cases may have left responses in the queue: the racing claims may
\* take those too, but none of them twice.
DistinctClaims(mine) ==
    {s \in [1..Racers -> FirstClaims \cup {None}] :
        /\ NoneTwice(s)
        /\ \E i \in 1..Racers : s[i] = <<mine, 1>>}
OneWinner(case) ==
    {s \in [1..Racers -> {"accepted", "duplicate"} \X {R(case, i) : i \in 2..(Racers + 1)}] :
        /\ Len(SelectSeq(s, LAMBDA a : a[1] = "accepted")) = 1
        /\ \A i, j \in 1..Racers : s[i][2] = s[j][2]}

ConcurrencyCase ==
    LET r == R("concurrency", 1)  l == R("concurrency", Racers + 2)
        key == R("concurrency", 2)  t == T("concurrency", 1)
    IN  << One(Create(r, r, t), {<<"accepted", r>>}),
           Race(Many(Racers, ClaimAny), DistinctClaims(r)),
           Race([i \in 1..Racers |-> Create(R("concurrency", i + 1), key, t)],
                OneWinner("concurrency")),
           Race(Many(Racers, Push(l, None, "delta")), Orders(0..(Racers - 1))),
           One(Read(l, -1, 128), {Numbers(0, Racers - 1)}) >>

\* The container, its metadata and its tail: tenants apart, metadata is
\* replaced whole, the last write of a tail wins.
Shown(tail, active, metadata) ==
    [tail |-> tail, active |-> active, made |-> 1, metadata |-> metadata]

ConversationTail ==
    LET c == C("conversation", 1)  a == C("conversation", 2)
        t == T("conversation", 1)  u == T("conversation", 2)
        r == R("conversation", 1)  s == R("conversation", 2)
    IN  << One(NewConv(c, t, 1), {"ok"}),
           One(GetConv(c, t), {Shown(None, None, {})}),
           One(GetConv(c, u), {"not_found"}),
           One(SetMetadata(c, u, {}), {"not_found"}),
           One(DropConv(c, u), {FALSE}),
           One(SetMetadata(c, t, {"topic", "stale"}), {Shown(None, None, {"topic", "stale"})}),
           One(SetMetadata(c, t, {"topic"}), {Shown(None, None, {"topic"})}),
           One(MoveTail(c, t, r), {"ok"}),
           One(GetConv(c, t), {Shown(r, None, {"topic"})}),
           One(MoveTail(c, t, s), {"ok"}),
           One(GetConv(c, t), {Shown(s, None, {"topic"})}),
           One(MoveTail(a, t, s), {"not_found"}),
           One(MoveTail(c, u, s), {"not_found"}),
           One(DropConv(c, t), {TRUE}),
           One(GetConv(c, t), {"not_found"}),
           One(DropConv(c, t), {FALSE}) >>

\* Listing, newest first, and erasure by tenant.
ConversationErasure ==
    LET a == C("conversation", 2)  b == C("conversation", 3)  c == C("conversation", 1)
        other == C("conversation", 4)
        t == T("conversation", 1)  u == T("conversation", 2)
        listings == UNION {[1..n -> {a, b, c, other}] : n \in 2..4}
        newestFirst(s) == /\ {a, b} \subseteq Seqs!ToSet(s) /\ other \notin Seqs!ToSet(s)
                          /\ \A i, j \in DOMAIN s : s[i] = b /\ s[j] = a => i < j
    IN  << One(NewConv(a, t, 1), {"ok"}),
           One(NewConv(b, t, 2), {"ok"}),
           One(NewConv(other, u, 1), {"ok"}),
           One(ListConvs(t), {s \in listings : newestFirst(s)}),
           One(Purge(t), 2..Cardinality(Conversations)),
           One(GetConv(a, t), {"not_found"}),
           One(GetConv(b, t), {"not_found"}),
           One(GetConv(other, u), {Shown(None, None, {})}) >>

ConversationCase == ConversationTail \o ConversationErasure

Holding(holder) == Shown(None, holder, {})

\* The marker and the events of the turns in one sequence.
TurnEvents ==
    LET c == C("events", 1)  t == T("events", 1)  r(i) == R("events", i)
    IN  << One(NewConv(c, t, 1), {"ok"}),
           One(Acquire(c, t, r(1)), {0}),
           One(GetConv(c, t), {Holding(r(1))}),
           One(ReadConv(c, t, -1), {<<Event("turn_started", r(1))>>}),
           One(Acquire(c, t, r(2)), {<<"busy", r(1)>>}),
           One(Acquire(c, t, r(1)), {0}),
           One(ReadConv(c, t, -1), {<<Event("turn_started", r(1))>>}),
           One(Release(c, t, r(1)), {1}),
           One(GetConv(c, t), {Holding(None)}),
           One(ReadConv(c, t, 0), {<<Event("turn_completed", r(1))>>}),
           One(Release(c, t, r(1)), 0..MaxEvents),
           One(ReadConv(c, t, 1), {<<>>}),
           One(Note(c, t), {2}),
           One(ReadConv(c, t, 1), {<<Event("business", None)>>}),
           One(ReadConv(c, t, -1), {<<Event("turn_started", r(1)),
                                      Event("turn_completed", r(1)),
                                      Event("business", None)>>}) >>

\* A stale holder, a stranger and the bound on the stream.
LockAndBound ==
    LET c == C("events", 1)  capped == C("events", 2)
        t == T("events", 1)  u == T("events", 2)
        r(i) == R("events", i)
    IN  << One(Acquire(c, t, r(3)), {3}),
           One(Unstick(c, t, r(3)), {TRUE}),
           One(GetConv(c, t), {Holding(None)}),
           One(Acquire(c, u, r(4)), {"not_found"}),
           One(NewConv(capped, t, 1), {"ok"}) >>
        \o [i \in 1..MaxEvents |-> One(Note(capped, t), {i - 1})]
        \o << One(Note(capped, t), {"capacity_exceeded"}) >>

ConversationEventsCase == TurnEvents \o LockAndBound

\* cases() and run_case, without the cases that only look at parsed values
\* and signatures.
Cases ==
    << EventLogCase, LedgerCase, CancelCase, ContextCase, GlobalClaimCase, OverloadCase,
       ProvenanceCase, DurabilityCase, ConcurrencyCase, ConversationCase,
       ConversationEventsCase >>

----------------------------------------------------------------------------
(* The ports.  A call's answer and its effect are one step of the store.   *)

Script == Cases[at]
Group == Script[step]
Running_ == ~failed /\ at <= Len(Cases)

\* The response a call names.
Named(call) ==
    CASE call.id = Claimed       -> held[Len(held)]
      [] call.id = ClaimedBefore -> held[Len(held) - 1]
      [] Len(call.id) = 2        -> accepted[call.id[1]]
      [] OTHER                   -> call.id

SameLedger == UNCHANGED ledgerVars
SameLogs == UNCHANGED logs
SameConvs == UNCHANGED convVars
SameCase == UNCHANGED <<held, accepted, rows>>

Reply(i, answer) ==
    /\ spawned' = spawned \ {i}
    /\ answers' = Append(answers, answer)
    /\ UNCHANGED <<pass, at, step, failed>>

\* A write that answers `ok` or with the refusal it met.
Write(i, outcome, Effect) ==
    /\ Reply(i, outcome)
    /\ IF outcome = "ok" THEN Effect ELSE SameLedger
    /\ SameCase /\ SameLogs /\ SameConvs

Creating(i, call) ==
    LET outcome == CreateOutcome(call.key)
        answer == CASE outcome = "accepted"  -> call.id
                    [] outcome = "duplicate" -> idem[call.key]
                    [] OTHER                 -> None
    IN  /\ call.op = "create"
        /\ Reply(i, <<outcome, answer>>)
        /\ \/ \E spec \in Specs : LedgerCreate(call.id, call.key, call.tenant, spec)
           \/ outcome # "accepted" /\ SameLedger
        /\ accepted' = IF outcome = "accepted" THEN Append(accepted, call.id) ELSE accepted
        /\ UNCHANGED <<held, rows>> /\ SameLogs /\ SameConvs

\* AgentId::new: every claim is made by an agent nobody heard of before.
FreshAgent == CHOOSE a \in Agents : heartbeats[a] = -1

Claiming(i, call) ==
    /\ call.op = "claim"
    /\ \/ \E r \in Responses :
             /\ LedgerClaim(r, FreshAgent)
             /\ Reply(i, <<r, records[r].attempt + 1>>)
             /\ held' = Append(held, r)
       \/ LedgerClaimNothing /\ Reply(i, None) /\ UNCHANGED held
    /\ UNCHANGED <<accepted, rows>> /\ SameLogs /\ SameConvs

\* Claiming and completing until nothing is left to claim.
Draining(i, call) ==
    LET last == held[Len(held)]
        busy == held # <<>> /\ records[last].status = "in_progress"
    IN  /\ call.op = "drain"
        /\ \/ /\ ~busy
              /\ \E r \in Responses : LedgerClaim(r, FreshAgent) /\ held' = Append(held, r)
              /\ UNCHANGED <<pass, at, step, spawned, answers, accepted, rows, failed>>
           \/ /\ busy /\ LedgerComplete(last, records[last].attempt, "completed", 0)
              /\ UNCHANGED suiteVars
           \/ /\ ~busy /\ LedgerClaimNothing /\ Reply(i, "ok") /\ SameCase
        /\ SameLogs /\ SameConvs

LedgerWrites(i, call) ==
    \/ /\ call.op = "check_attempt"
       /\ Write(i, FenceOutcome(Named(call), call.attempt), SameLedger)
    \/ /\ call.op = "complete"
       /\ Write(i, IF call.status \in Terminal THEN FenceOutcome(Named(call), call.attempt)
                   ELSE "invalid_transition",
                LedgerComplete(Named(call), call.attempt, call.status, call.usage))
    \/ /\ call.op = "cancel"
       /\ Write(i, CancelOutcome(call.id, call.tenant), LedgerCancel(call.id, call.tenant))
    \/ /\ call.op = "record_partial_usage"
       /\ Write(i, IF Exists(call.id) THEN "ok" ELSE "not_found",
                LedgerRecordPartialUsage(call.id, call.attempt, call.usage))
    \/ /\ call.op = "delete"       \* deleting what is not there succeeds
       /\ Write(i, "ok", IF Exists(call.id) THEN LedgerDelete(call.id) ELSE SameLedger)
    \/ /\ call.op = "set_pending_limit"
       /\ Write(i, "ok", SetPendingLimit(call.limit))

Getting(i, call) ==
    /\ call.op = "get"
    /\ Reply(i, <<records[Named(call)].status, records[Named(call)].usage>>)
    /\ SameCase /\ SameLedger /\ SameLogs /\ SameConvs

\* An append that carries an attempt asks the fence first.
AppendAnswer(id, attempt) ==
    CASE attempt # None /\ FenceOutcome(id, attempt) # "ok" -> FenceOutcome(id, attempt)
      [] attempt = None /\ PushOutcome(id) # "ok" -> PushOutcome(id)
      [] OTHER -> logs[id].nextSeq

Appending(i, call) ==
    LET id == Named(call)
        fenced == call.attempt # None /\ FenceOutcome(id, call.attempt) # "ok"
    IN  /\ call.op = "append"
        /\ Reply(i, AppendAnswer(id, call.attempt))
        /\ \/ ~fenced /\ LogPush(id, call.body)
           \/ (fenced \/ PushOutcome(id) # "ok") /\ SameLogs
        /\ SameCase /\ SameLedger /\ SameConvs

\* The numbers of the events read, or the refusal.
ReadAnswer(id, cursor, limit) ==
    CASE ReadOutcome(id, cursor) = "batch" ->
            [k \in 1..Len(ReadBatch(id, cursor, limit)) |-> ReadBatch(id, cursor, limit)[k].seq]
      [] ReadOutcome(id, cursor) = "empty" -> <<>>
      [] OTHER -> ReadOutcome(id, cursor)

LogCalls(i, call) ==
    /\ \/ /\ call.op = "read_after"
          /\ Reply(i, ReadAnswer(call.id, call.cursor, call.limit))
          /\ SameLogs
       \/ call.op = "close" /\ Reply(i, "ok") /\ LogClose(call.id, RetainFor)
       \/ call.op = "sweep_expired" /\ Reply(i, "ok") /\ LogSweep
    /\ SameCase /\ SameLedger /\ SameConvs

----------------------------------------------------------------------------
(* The conversation store's answers.                                       *)

Position(conv, r) == CHOOSE k \in 1..Len(conv.turns) : conv.turns[k].response = r
Row(c) == [tail |-> convs[c].tail, active |-> convs[c].active,
           made |-> rows[c].made, metadata |-> rows[c].metadata]

ConvReads(i, call) ==
    LET owned == Owned(call.conv, call.tenant)
    IN  /\ \/ call.op = "get_conversation" /\ Reply(i, IF owned THEN Row(call.conv) ELSE "not_found")
           \/ /\ call.op = "read_snapshot"
              /\ Reply(i, IF owned THEN convs[call.conv].turns ELSE "not_found")
           \/ /\ call.op = "read_conversation"
              /\ Reply(i, SubSeq(convs[call.conv].events, call.cursor + 2,
                                 Len(convs[call.conv].events)))
        /\ SameConvs /\ UNCHANGED rows

\* A refused write changes nothing.
ConvWrite(i, taken, answer, refusal, Effect) ==
    Reply(i, IF taken THEN answer ELSE refusal) /\ (IF taken THEN Effect ELSE SameConvs)

\* The row of a conversation: creation and its metadata.
RowWrites(i, call) ==
    LET c == call.conv  t == call.tenant
    IN  \/ /\ call.op = "new_conversation"
           /\ Reply(i, "ok") /\ ConvCreate(c, t)
           /\ rows' = [rows EXCEPT ![c] = [made |-> call.now, metadata |-> {}]]
        \/ /\ call.op = "update_metadata" /\ SameConvs
           /\ IF Owned(c, t)
              THEN /\ Reply(i, [Row(c) EXCEPT !.metadata = call.metadata])
                   /\ rows' = [rows EXCEPT ![c].metadata = call.metadata]
              ELSE Reply(i, "not_found") /\ UNCHANGED rows

ConvWrites(i, call) ==
    LET c == call.conv  t == call.tenant  conv == convs[c]  owned == Owned(c, t)
    IN  \/ call.op = "delete_conversation" /\ ConvWrite(i, owned, TRUE, FALSE, ConvDelete(c, t))
        \/ /\ call.op = "append_turn"
           /\ ConvWrite(i, owned,
                        IF Archived(conv, call.id) THEN Position(conv, call.id) - 1
                        ELSE Len(conv.turns),
                        "not_found", AppendTurn(c, t, call.id, call.output))
        \/ /\ call.op = "advance"
           /\ ConvWrite(i, owned, "ok", "not_found", Advance(c, t, call.id))
        \/ /\ call.op = "append_event"
           /\ ConvWrite(i, owned /\ ~Full(c), Len(conv.events),
                        IF owned THEN "capacity_exceeded" ELSE "not_found",
                        AppendEvent(c, t, "business", None))

MarkerCalls(i, call) ==
    LET c == call.conv  t == call.tenant  r == call.id  conv == convs[c]
        acquire == AcquireOutcome(c, t, r)
        refusal == CASE acquire = "busy"      -> <<"busy", conv.active>>
                     [] acquire = "reentrant" -> conv.lockSeq
                     [] OTHER                 -> acquire
    IN  \/ /\ call.op = "acquire_active"
           /\ ConvWrite(i, acquire = "acquired", Len(conv.events), refusal, AcquireActive(c, t, r))
        \/ /\ call.op = "release_active"
           /\ ConvWrite(i, ReleaseOutcome(c, t, r) = "released", Len(conv.events), 0,
                        ReleaseActive(c, t, r))
        \/ /\ call.op = "release_stale_active"
           /\ ConvWrite(i, StaleHolder(c, t, r), TRUE, FALSE, ReleaseStale(c, t, r))

TenantCalls(i, call) ==
    LET mine == {c \in Conversations : Owned(c, call.tenant)}
        newer(c, d) == rows[c].made > rows[d].made
    IN  \/ call.op = "list" /\ Reply(i, Seqs!SetToSortSeq(mine, newer)) /\ SameConvs
        \/ /\ call.op = "delete_by_tenant"
           /\ Reply(i, Cardinality(mine))
           /\ ConvDeleteByTenant(call.tenant)

ConvCalls(i, call) ==
    /\ \/ ConvReads(i, call)
       \/ RowWrites(i, call)
       \/ /\ ConvWrites(i, call) \/ MarkerCalls(i, call) \/ TenantCalls(i, call)
          /\ UNCHANGED rows
    /\ UNCHANGED <<held, accepted>> /\ SameLedger /\ SameLogs

----------------------------------------------------------------------------
(* The suite.                                                              *)

Start(p, case) ==
    pass' = p /\ at' = case /\ step' = 1 /\ held' = <<>> /\ accepted' = <<>>

Spawned(group) == 1..Len(group.calls)

Init ==
    /\ LedgerInit /\ LogInit /\ ConvInit
    /\ pass = 1 /\ at = 1 /\ step = 1 /\ held = <<>> /\ accepted = <<>>
    /\ answers = <<>> /\ failed = FALSE
    /\ rows = [c \in Conversations |-> [made |-> 0, metadata |-> {}]]
    /\ spawned = Spawned(Group)

Answer ==
    /\ Running_
    /\ \E i \in spawned :
          LET call == Group.calls[i]
          IN  \/ Creating(i, call) \/ Claiming(i, call) \/ Draining(i, call)
              \/ LedgerWrites(i, call) \/ Getting(i, call)
              \/ Appending(i, call) \/ LogCalls(i, call) \/ ConvCalls(i, call)

\* All calls of the group are answered: the assertions look at the answers.
Judge ==
    /\ Running_ /\ spawned = {}
    /\ failed' = (answers \notin Group.allowed)
    /\ answers' = <<>>
    /\ \/ step < Len(Script) /\ step' = step + 1 /\ UNCHANGED <<pass, at, held, accepted>>
       \/ step = Len(Script) /\ at < Len(Cases) /\ Start(pass, at + 1)
       \/ step = Len(Script) /\ at = Len(Cases) /\ pass < Passes /\ Start(pass + 1, 1)
       \/ step = Len(Script) /\ at = Len(Cases) /\ pass = Passes /\ Start(pass, at + 1)
    /\ spawned' = IF at' <= Len(Cases) THEN Spawned(Cases[at'][step']) ELSE {}
    /\ UNCHANGED <<ledgerVars, logs, convVars, rows>>

\* The suite has come to its end, or a case has panicked.
Over == ~Running_ /\ UNCHANGED vars

Next == Answer \/ Judge \/ Over

Spec == Init /\ [][Next]_vars

\* No assertion of the contract fails, in whatever order the calls that a case
\* spawns together are answered (run_suite, and in it the assert_* functions).
ContractHolds == ~failed
=============================================================================

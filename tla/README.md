# A TLA+ model of nova-chat

nova-chat serves an OpenAI-style Responses API from several equal peers. A
gateway admits a *response* (one turn of a model), an execution process claims
and runs it, its events are streamed to clients over SSE, and its result is
archived in a *conversation*. Nothing is kept in the peers: everything they
know of each other goes through three stores behind ports. This project models
those stores, the processes that call them, what happens when the calls of
different processes interleave, fail half-way or stop coming, what clients may
write and read back, and the life of a node and of an execution process around
all that.

Paths below are relative to `src/`. "INV-n", "FR-n" and "Dn" are the
repository's own numbers (`docs/architecture/invariants.md`,
`docs/requirements/spec.md`).

## 1. The system

### Components, their state and operations

| component | state | operations | code |
|---|---|---|---|
| response ledger | records (status, attempt, owner, usage, key, tenant), FIFO of queued ids, idempotency keys, heartbeats, partial usage, read-only flag, pending limit | create, claim, heartbeat, check_attempt, complete, cancel, reap, record_partial_usage, get, delete, delete_by_tenant, set_read_only, set_pending_limit | `verify/mock/server/src/ledger.rs`, `store.rs`; port `crates/responses/src/ports/ledger.rs` |
| event log | per response: a bounded ring of numbered events, the eviction watermark, the terminal time, the swept flag | append, read_after, close, remove, sweep_expired | `verify/mock/server/src/event_log.rs` |
| conversation store | per conversation: the turn marker, the tail, an append-only event stream, the snapshot of archived turns | create, delete, acquire_active, release_active, release_stale_active, append_turn, advance, append_event, read_snapshot | `verify/mock/server/src/conversation.rs` |
| responses service | none of its own; the sweeper's channel | create, cancel, delete, retrieve, wait_terminal, start, stop | `crates/responses/src/service/responses.rs` |
| wire protocol | none: limits, validation, conversions | request to turn, turn to object, context to transcript | `crates/responses/src/protocol/`, `domain.rs`, `context.rs` |
| agent runtime | the tasks in progress and their permits; per run the event sink | run_once (claim, heartbeat task, context, runner, sink, completion or failure), start, stop | `crates/agent-runtime/src/runtime.rs`, `sink.rs` |
| sweeper | none of its own | tick: reap, clean up each reaped claim, sweep expired streams | `crates/responses/src/service/sweep.rs` |
| SSE delivery | a cursor per connection | open_sse, resolve_cursor | `gateway/src/sse.rs` |
| gateway | the draining flag, key tables | routes, authentication, admin operations, boot, drain, exit | `gateway/src/` |
| port contract suite | none | eleven cases that call the ports | `verify/conformance/src/lib.rs` |
| the rest | configuration and wiring | RPC transport, mock runners, scenarios and their oracle, build tooling | see "Not modelled" |

### How they interact

A create resolves the anchor (reading the conversation's snapshot and checking
its depth), takes the conversation's *turn marker*, has the ledger admit and
queue the record, and appends the `created` event. An execution process polls
`claim`, which raises the record's *attempt* to 1 and makes the process its
owner; from then on every event it appends carries the attempt and is fenced
by it. It announces `in_progress`, reads the snapshot, runs the runner, and on
its end calls, one after the other: the ledger's `complete`, `append_turn`,
`advance`, `release_active`, `append` of the terminal event, `close`. A cancel
and a reap end a response from outside: each raises the attempt (which fences
the run off) and then archives what it can replay from the event log, releases
the marker, appends a `failed` event and closes the stream - the cancel in the
order archive, release, event, close; the sweeper in the order event, close,
archive, release. Deleting a response removes its record, then its stream, then
announces the removal on the conversation.

### What is hard here

* Each store is atomic per call, and nothing spans two calls. Every terminal
  path is four to six calls, three such paths race for every response, and any
  number of clients act in between.
* The fence is checked under the ledger's mutex; the event it protects is
  written under another.
* Processes die, tasks are aborted at the end of a stop budget, and a request
  future is dropped when its client goes away, all between any two calls.
* Stores refuse: the read-only degrade, an unreachable conversation store, a
  full ring, a full event stream, a full record map.
* The output of a run is written down twice, by the sink as it appends and in
  the events themselves, and read back by four different reconstructions.
* What the service emits, clients send back: objects, items of history, ids.
* A node drains what a shared ledger says is in flight, while requests that
  passed its check are still on their way to that ledger.
* Liveness rests on timeouts only (heartbeat TTL, retention, tombstones), which
  race the late answers of what they gave up.

`PROJECT.json` lists these as hazards, each at its line with the properties
that watch it.

### What makes each component correct

* *Ledger*: a response has at most one holder ever; only the holder passes the
  fence; nothing queued is lost or offered twice; one key, one response;
  terminal records are final; booked usage is never lost.
* *Event log*: the ring is the gapless tail of what was written; a subscriber
  gets exactly the events after its position or an explicit error; a closed
  stream lets its subscribers go.
* *Conversation store*: the marker and the stream agree; turns on the stream do
  not overlap and none disappears; a turn is archived once; nothing already
  written is rewritten.
* *Lifecycle*: the stream ends once and as the ledger says; a turn announced as
  completed is readable; the tail has a reply; every response ends; no marker
  and, as long as no process dies, no stream is left held or open for ever.

* *Output*: sink and replay rebuild the same output; no token a subscriber saw
  is missing from the archived turn; what a reader is told is over is over.
* *Session*: what is accepted is within every limit; what is emitted can be
  sent again; a refused or repeated create leaves its conversation free.
* *Node*: a run whose process beats in time is not reaped, an abandoned one is;
  stop and drain are bounded; a drain waits for what was accepted.

## 2. The modules

```
Shared ── LedgerStore ───────┬─ Ledger ── LedgerInv ─┬─ LedgerFacts ── LedgerProofs
      │                      │                       └─ MCLedger
      ├─ EventLogStore ──────┼─ EventLog ─┬─ EventLogProofs
      │        │             │            └─ MCEventLog
      │        └─ OutputStream ─┬─ OutputProofs
      │                         └─ MCOutputStream
      └─ ConversationStore ──┼─ Conversation ─┬─ ConversationProofs
                             │                └─ MCConversation
                             ├─ Lifecycle ── LifecycleProps ─┬─ MCLifecycle
                             │   (L == INSTANCE Ledger)      └─ LifecycleInv ── LifecycleProofs
                             └─ Conformance ── MCConformance

Protocol ── Session ─┬─ SessionProofs      Daemon ── Gateway ─┬─ GatewayProofs
                     └─ MCSession                             └─ MCGateway
```

The three `*Store` modules hold a store's state and one operator per method.
`Ledger`, `EventLog` and `Conversation` put *arbitrary callers* around one
store: what holds there holds whatever the callers do. `Lifecycle` puts the
*real callers* around all three, one store call per step, and `Conformance`
the repository's own contract. `OutputStream` looks into the payload of one
response's stream, `Session` at requests and contexts over many turns, and
`Daemon` and `Gateway` at the processes' own life; each of the three reduces the
stores to what its questions need.

**LedgerStore / Ledger.** `records`, `queued`, `idem`, `heartbeats`,
`partialUsage`, `readOnly`, `pendingLimit` are the fields of `Inner` in
`store.rs`. Every method runs under one mutex, so it is one action. The answers
callers tell apart are operators of their own (`CreateOutcome`, `FenceOutcome`,
`CancelOutcome`), with the tests in the order of the code. `LedgerClaim` is the
whole pop loop: it drops the stale entries before the one it takes.
`LedgerReap` finishes every lost claim in one step. `Remove` keeps the queue
entries and idempotency keys of what it removes, as `remove_record` does.
`Ledger` adds `minted` (ids are never reused), and the histories `admitted` and
`granted` the properties are stated over.

**EventLogStore / EventLog.** `logs[id]` is the buffer; `live` says whether the
map has one. `LogPush` is the second critical section of `append`. The ring
evicts, `LogSweep` empties a ring past its retention and drops one past its
tombstone. `EventLog` adds the gateway's side: `Subscribe` probes first, as
`open_sse` does, `Deliver` is one turn of the stream loop, `Disconnect` loses
any suffix of what was sent, and `Resume` sends the `Last-Event-ID` with the
query string of the first request (`ResolveCursor`).

**ConversationStore / Conversation.** A conversation is one record with its
marker, the number its marker was announced at, the last response released
(`completed`), its stream and its snapshot. Releases are idempotent through
`completed`; archival is idempotent per response (`WithTurn`). `TakeOver` is
`release_stale_active`: in `Conversation` any caller may use it at any time.

**Lifecycle.** Four processes per response, each with a program counter:

| process | code | steps |
|---|---|---|
| `creator` | `create` | Resolve, TakeMarker (acquire, re-acquire), InspectHolder, TakeOver, Admit, AnnounceCreated, GiveBack |
| `engine` | `run_once` | Claim, Heartbeat (task), AnnounceFence + AnnouncePush, ReadContext, EmitFence + EmitPush per delta, ProbeFires, RunnerEnds, Conclude, ArchiveTurn, AdvanceTail, SettleMarker, EndStream, CloseStream |
| `cleaner` | `cancel`, or the clean-up half of `tick` | Cancel or Reap, ReadBack, Replay, ArchiveReplayed, ReleaseMarker, AbortStream, CloseAborted, in the order `CancelThen` or `ReapThen` gives |
| `deleter` | `delete` | DeleteRecord (and again), RemoveStream, AnnounceDeleted |

and the environment: `PollNothing`, `Sweep`, `DropConversation`, `Degrade`,
`Tick`, `Crash`. A fenced `append` is two steps (fence, push) because it is two
critical sections; an unfenced one is one step. Errors the code only logs are
`Try...` operators: the step is taken whether or not the store accepts.

Abstractions of the data: a turn's output is the number of deltas in it, a
token is a delta, an event's payload is its kind, and a request is its anchor,
key and `store` flag.

**OutputStream.** One response over `EventLogStore`. A token is numbered by the
call that streamed it, an item by its place in the output, so a lost, repeated
or misplaced token shows. The runner makes any sequence of sink calls
(`OutputItemAdded`, `OutputItemDone`, `TextDeltaCall`, `AsideCall`), also after
a Stop; the sink records before it appends, the append is fence and push, and
`LoseCall` loses the call or its answer. `RunCompletes` and `RunFails` are the
runtime's two funnels, `ReplayPage` and `ArchiveReplay` those of a cancel or a
reap, page by page. The stream is read twice, at two times, each page a step of
its own: `ReadPage` is the service's read, from which a GET and a synchronous
create answer (`Retrieved`, `SyncAnswer`) and the create of a later turn checks
the context it would run on (`CheckedOutput`); `InheritPage` is the runtime's,
once that turn was claimed, and what its run inherits (`InheritedOutput`).
Between the two the response may go on, be ended by anyone, and evict.

**Protocol / Session.** `Protocol` is what a request goes through: which wire
forms parse (`Parses`), the rules in the order of `validate` (`Rules`,
`Violation`), the anchor, the turn made of it (`TurnSpec`), the object rendered
from it, and the context that grows by it (`WithTurn`, `ContextViolation`,
`Transcript`). Strings are their lengths; JSON is its nesting, measured by the
code's explicit stack (`Visit`). `Session` has clients create, retrieve, echo
the object they got last, continue responses and conversations and repeat keys,
with the steps of create, marker and run interleaving.

**Daemon / Gateway.** `Daemon` is the execution process: `Poll` takes a permit,
`Claim` is `run_once`'s claim, `Beat` the heartbeat task, `Stop`, `Drained` and
`GiveUp` the stop with its budget, `Restart` the next process, and beside it the
sweeper's `Reap` and `CleanUp`. A process starts with any of the `Intervals`,
which `HeartbeatEvery` raises to the code's floor; no relation to the ttl is
assumed, for the interval is an argument of one process and the ttl the
configuration of another. What a read-only ledger refuses (the claim, the end of
a run, the append that would start a stream) is refused; heartbeats it takes.
`Gateway` is a node: `Boot` with its configuration checks, for every route the
checks in their order (`Verdict`) and the handler between its awaits, the open
streams, the purge as a process, `Signal`, the drain loop, `Exit`. Only the
shutdown's wait for connections and the hanging up of clients are external (axum
and the network).

**Conformance.** Eleven cases of `run_suite` as scripts of calls and the answers
the suite asserts, run against the three store modules themselves, metadata and
listings of conversations included. Calls a case spawns together are answered in
every order. It ties the store models to what the real adapters are tested for.
Left out are assertions about texts and parsed values. The two claims of
`GlobalClaimCase` are raced, which the code makes one after the other: both ask
for the same, so the orders differ in nothing.

### Abstract specification and refinement

`Ledger!Spec` is the abstract specification of what the processes may do to the
ledger. `LedgerSpec` (in LifecycleProps) instantiates it with the histories
computed from the composition's own state - what was minted and admitted from
`idem`, what was granted from the engines that have started - and is both
checked as a property of `Lifecycle` and proved of it (`LedgerIsImplemented`):
every step of the composition is a step of `Ledger` or leaves it alone. What is
proved about `Ledger` therefore carries over.

## 3. The runs

### Passing

| run | module, cfg | distinct states | what it shows |
|---|---|---|---|
| `ledger` | MCLedger | 166 k | the promises of the ledger that its callers rely on, under arbitrary callers |
| `event_log` | MCEventLog | 317 k | `RingHoldsTheTail` and `NoSilentGap` over evictions, sweeps, removals and lost connections; `SubscribersAreReleased`: whoever follows a stream that is closed is let go, also when the stream is swept or forgotten first |
| `conversation` | MCConversation | 571 k | marker, stream and snapshot agree, for racing and repeated callers, takeovers, full streams and outages |
| `one_response` | MCLifecycle, MCOneResponse | 153 k | the run, the cancel and the reap of one response racing, with eviction, retention and two crashes: the stores agree afterwards, the response ends, its marker is freed, its stream closed (unless a process dies); refinement of the ledger |
| `two_turns` | MCLifecycle, MCTwoTurns | 158 k | two creates competing for a conversation, takeovers included, and a cancel: a turn announced as over is in the snapshot |
| `disturbed` | MCLifecycle, MCDisturbed | 1.2 M | the response, its conversation or both deleted, repeatedly, and the read-only degrade switched, at any moment |
| `output` | MCOutputStream, MCOutput | 2.9 M | `FunnelsAgree`: sink and replay give the same output; `SeenTokensAreArchived` (INV-61) with lost and raced appends; `ArchivedOnce`; `OnlyLaterOutputIsUnchecked`: a later turn inherits what its create checked, or what the response completed with since; `AnswersAreTrue`: what is answered as ended is what the response became |
| `session` | MCSession | 245 k | `EchoIsAccepted`, `HistoryCanBeResent` (INV-47), `AcceptedFitsTheLimits` (the four bounds of FR-27), `ConversationsAreFreed`, `SequentialTurnsStayInBounds` (INV-41 for turns that do not overlap), `TranscriptIsComplete` |
| `gateway` | MCGateway | 105 k | `HealthyRunsAreNotReaped` beside a process too slow for the ttl, `StopIsBounded`, `DrainWaitsForTheAccepted`; under fairness `AbandonedRunsEnd` and `OnlyStreamsHoldAnExit` |
| `conformance` | MCConformance | 7 k | `ContractHolds`: the store models give every port answer those cases assert, under every order of racing calls |

### Violations: where the documents and the code disagree

Each of these checks one sentence of the documents or comments and finds a
behaviour of the code that contradicts it. The quotes are in `PROJECT.json`.

| run | property | behaviour TLC finds |
|---|---|---|
| `takeover` | `OneTurnAtATime` | create takes the marker before its record exists; a second create that inspects the holder then finds no record, takes it for terminal and takes the marker over; both turns run |
| `overflow` | `CompletedOutputIsRetained` | the ring evicts the first event of a long stream; every reader starts at the first event and takes the refusal for an empty stream, so a completed response is answered without output though its terminal event is held |

### Further disagreements, without a run of their own

Behaviours of the models (or plain readings of the code) that a sentence of the
repository denies:

* The `created` append fails (the log store is full) after the record was
  queued: the client is refused and the response runs
  (`service/responses.rs:319`; `docs/requirements/spec.md:137`).
* A cancel between the fence check and the push lets an event of a superseded
  attempt through (`event_log.rs:133`, and its comment at line 131). If the
  event is a late `in_progress`, a GET says `in_progress` of an ended response
  once it is the last lifecycle event.
* A cancel before the `created` event, or after its eviction, cannot replay the
  stream and skips the archival of the input too (`service/responses.rs:427`;
  INV-61 at `docs/architecture/invariants.md:74`).
* The run closes its stream as of its claim time, so the run's length is taken
  off the retention window (`runtime.rs:654`; `ports/event_log.rs:74`).
* The conversation is deleted during the run: the run cannot store its output
  and returns without closing the stream (`runtime.rs:384`; `sse.rs:114`).
  `EveryStreamEnds` therefore is checked where conversations are not deleted.
* The drain gives up at its deadline so that a long generation does "not block
  a deploy indefinitely" (`gateway/src/shutdown.rs:49`), but the graceful
  shutdown after it waits for open streams without a deadline, and a
  conversation stream never ends: `OnlyStreamsHoldAnExit` says just that.
* "Startup orphan reclaim" (`shutdown.rs:50`, `runtime.rs:208`) does not exist:
  abandoned runs wait for a heartbeat to expire and for some peer's sweeper.
* "An in-flight tick is never interrupted" (`service/responses.rs:100`) holds
  for `stop`, not for `main`, which returns right after it.
* The budget of a stop starts anew with every task joined (`runtime.rs:213`).
  `StopIsBounded` states the bound that holds.
* Context bounds are checked before the marker is taken
  (`docs/design/03-context-chain.md:118` counts on them at read time): turns
  that overlap exceed them.
* After a purge "该租户内容全部不可读", all of the tenant's content is unreadable
  (FR-21, `docs/requirements/spec.md:89`), and "Erasure must cover every store
  holding tenant data, or "purged" would be a false claim"
  (`gateway/src/routes/admin.rs:87`). The purge deletes conversations and
  records and leaves the event logs. They stay readable until their retention is
  over, and for good if the response was in flight, since nobody closes its log
  any more; `routes/responses.rs:256` looks at the record only if there is one
  and streams the log all the same. `Purge`, `PurgeRecords` and the streams of
  `Gateway` have these steps; there is no property of a purge, because the one
  that is asked for does not hold, and what is left of it restates the deletion.
* A continuation of a bare response that is still in flight is accepted
  (`service/responses.rs:589`), its bounds are checked without the output that
  is about to exist, and its run reads the stream again, with it: the bound of
  INV-41 and FR-17 was never checked of that output.
  `OnlyLaterOutputIsUnchecked` allows this case and no other.
* "执行端失联判定 90s（心跳 30s × 3）" (`docs/requirements/parameters.md:141`) is
  a matter of two deployments: neither `crates/responses/src/config.rs:138` nor
  `gateway/src/config.rs:92` compares the ttl with the interval, an argument of
  the execution process. One that beats more slowly than the ttl loses its
  healthy runs, as the slow process of `gateway` does.
* The suite is called "safe to run repeatedly"
  (`verify/conformance/src/lib.rs:8`); a second pass over the same store claims
  what the first left queued, and fails.
* Tokens of an interrupted run are never reported to the ledger
  (`record_partial_usage` has no caller outside the tests); the execution
  deadline is handed to the runner and looked at by nobody.

And some that no document speaks of: a `chain.max_depth` of 1 passes validation
and refuses every continuation; a task spawned before a stop may still claim after it; finished
tasks are joined only when the loop stops; a synchronous create whose stream
overflowed is answered with the object of its creation, `queued`.

### Bounds, and why they are enough

* *Ledger*: three responses, two agents, two keys, two tenants, `MaxRecords` 2.
  Three responses are what it takes for a queue with a stale entry before and
  after a waiting one, two keys for a replay beside a fresh request; a limit of
  0 shows the clamp. The proofs remove these bounds.
* *Event log*: capacity 2 and batch 2 with up to four appends gives eviction
  before, between and after deliveries; `MaxLogs` 1 with two responses reaches
  the map's limit and, with removal, a log written anew. `TombstoneFactor` is 2
  instead of 10: what matters is that the tombstone deadline is later than the
  retention deadline (and in `disturbed` 1, where the two coincide, which keeps
  that run small).
* *Conversation*: one slot, two conversations (so a second comes after a
  deletion), streams of at most five events: two whole turns and the bound.
* *Lifecycle*: one response suffices for the races of its own terminal paths,
  two for those between turns. `MaxDeltas` 2 with `Capacity` 3 in
  `one_response` evicts the beginning of a stream that a cancel or reap then
  fails to replay. `MaxDepth` 1 in `two_turns` refuses a second turn that
  resolves after the first was archived and admits one that resolved before.
  No run combines a crash with a deletion. Elapsed times are counted only as far
  as the last bound anything compares them with. `HeartbeatTtl` 0 means one tick without a
  heartbeat loses a claim: a heartbeat may or may not come before every tick.
* *Output*: every interleaving of the two reads with the run, its end and each
  other, for four sink calls, one of them an aside, over a ring of six: an item
  with tokens and a second one, or tokens outside any item. A page of three
  makes every replay and read of a whole stream cross a page boundary. `overflow`
  has a ring of four and two calls, one event too many.
* *Session*: `Scripts` are the bound: 53 requests, each alone with its echo and
  its continuations, so that every rule is met at, below and above its limit,
  and two scripts in which two clients share a conversation (one of them with a
  key) or one continues the other's response. `PendingLimit` 1 makes the second
  admission overload; three ids leave room for a turn after a race. A chain
  depth of 2 lets a conversation reach its bound. `MaxNodes` bounds the
  documents whose depth is measured.
* *Gateway*: `Agendas` are the bound: seven pairs of what two connections ask for,
  with the daemon told to stop in one and the node in four. Together they would
  multiply states without adding a race: each agenda holds the actors of one
  hazard. A ttl and a budget of 1 are the smallest at which a heartbeat can be
  late, a claim lost and a stop over its budget. `Intervals` are 0, which the
  floor makes 1, as long as the ttl, and 2, longer than the ttl; the agendas with
  a stop and with the read-only degrade have both. Ages, waits and `MaxElapsed`
  are counted to the last value anything compares them with.
* *Conformance*: four racers for the code's 24 and 12, a limit of two for its three; `Slots`
  is what the largest case mints.
* Symmetry is used for `ledger` and `conversation` only, where ids are merely
  compared and all properties are safety properties.

Simplifications of the composition: the conversations exist from the start
(creating one is an action of `Conversation`); the reads of a replay see one
page; the clean-ups of several claims reaped in one tick run concurrently
rather than one after the other, which allows more interleavings than the code
has; an agent id is the id of the response it claimed, since each `run_once`
mints its own and claims at most once; a marker is never re-entered, because
the id of a create is minted by that call.

### Fairness

`SystemFairness` asks for weak fairness of every process's own next step (the
executor polls ready tasks, RPCs return), of claiming (some peer's poll loop
runs), of the reap and the sweep (every peer runs a sweeper on an interval) and
of time. A crashed process has no step left, so nothing is asked of it.
`RunnerFairness` asks that a runner which has not been stopped ends; that is the
runner's part of the contract, and the code has nothing to enforce it with (the
hung runner above). Without it `EveryResponseEnds` fails.
Heartbeats, deltas, cancels, deletions, degrades and crashes are not fair. In
`EventLog`, time, the sweep and the task of an open connection are fair. In
`Gateway`, the node's loop, its handlers, its sweeper, heartbeats and the end of
a stop are weakly fair; nothing is asked of clients, of runners or of whoever
stops the daemon. Time there waits for timers that are due, and a daemon stopped
and restarted for ever has one due again and again, so time is strongly fair:
clocks advance whatever a process does.

## 4. The proofs

Eight modules hold theorems. Each proves, for every value of the constants that
satisfies the named assumptions, that an inductive invariant holds of the
specification the runs check, and then reads the properties off it. The
inductive invariants were checked by TLC on the instance of their run before
they were proved, except `OutputInvariant` and `TurnsAreKept`, which say that
some list or sum exists and which TLC cannot enumerate.

Every safety invariant and every action property of the passing runs is stated
by a theorem, `ContractHolds` excepted.

*Recursion.* The folds of the models (`FoldLeft`, `MapThenSumSet`) and their
recursive functions stand for a CHOOSE of a function that satisfies its own
equation. The provers cannot be handed an operator, so each fold has a lemma of
its own (`ReplayFold`, `ObjectFold`, `OutputFold`, `TranscriptFold`,
`SumOfList`, ...): a function with that equation exists for every length, by
induction over a *set* of numbers (`SetInduction`), so the chosen one satisfies
it, and whatever is made step by step ends where the fold does.

### The ledger

`LedgerProofs` proves, for every set of responses, agents, keys, tenants and
specs and every value of the limits, of `Ledger!Spec`:

| theorem | statement |
|---|---|
| `LedgerIsInvariant` | `[]LedgerInvariant` |
| `LedgerTypeCorrect` | `[]TypeOK` |
| `SingleClaim` | `[]AtMostOneGrant` (INV-1) |
| `FenceIsExclusive` | `[]FenceAdmitsOnlyTheOwner` (INV-6) |
| `RunningIsHeld` | `[]RunningHasItsHolder` |
| `QueueLosesNothing` | `[]QueuedExactlyOnce` |
| `KeysAreIdempotent` | `[]OneResponsePerKey` (INV-2) |
| `RecordsNeverRegress` | `RecordsOnlyMoveForward` (INV-5) |
| `UsageIsNeverUnbooked` | `UsageNeverLost` (INV-51, the part the ledger can keep) |

Assumed are only `SharedConstants` and `LedgerConstants`: the absent value is
none of the ids, usages are naturals with 0 among them, and the limits are
naturals.

*The inductive invariant.* None of the promises is inductive by itself. A
response could be granted twice if a queue held its id twice or if a *queued*
record had already been granted, so `QueueIsSound` (entries are distinct and
were minted) and `StatusMatchesHistory` (a queued record is in the queue, has
attempt 0 and no grant; a running one has attempt 1) go in; `create` keeps the
queue's distinctness only because no minted id is created again, hence
`GrantsAreMinted` and the `minted` parts. `RunningHasItsHolder` and
`AtMostOneGrant` together give the fence: whoever passes it has the record's
attempt, and the only grant of that id is the owner's. `KeysRemember` ties
`admitted` to `idem`. That an in-flight record carries no usage
(`StatusMatchesHistory`) is what makes booking in `cancel` and `reap` harmless:
it never overwrites a figure reported for the attempt.

*Layout.* One lemma per action, and lemmas on what each record constructor
returns and what each positive answer implies. Completion, cancel, reap and
deletion only take records out of flight or leave them, which
`LeavingFlightPreserves` treats once.

`LedgerIsInvariant`, `LedgerTypeCorrect`, `RunningIsHeld` and `UsageIsNeverUnbooked` are
left to the proofs; the other five are checked by the run `ledger` as well.

`LedgerFacts` holds the lemmas on the ledger's operators that the composition's
proofs use too.

### The event log and its subscribers

`EventLogProofs`, of `EventLog!Spec`, from `EventLogConstants` (capacity, cap
and tombstone factor at least 1) and `StreamConstants`:

| theorem | statement |
|---|---|
| `StreamsStaySound` | `[]StreamInvariant` |
| `StreamTypeCorrect` | `[]TypeOK` |
| `RingIsIndexable` | `[]RingHoldsTheTail` (INV-11) |
| `StreamsHaveNoGap` | `[]NoSilentGap` |

*The inductive invariant.* `RingMatches` says by number what the property says
by sequence: watermark plus ring length is the next number, and position *i*
holds number watermark + *i* - 1 and the body written under it. Arithmetic on
numbers is what evictions and reads preserve; equality of sequences is then one
lemma (`SameSequence`). A subscriber's cursor is where it began plus what it got
(`Follows`), over all its reconnections, and only while the log is the one it
subscribed to (`epoch`): a removed and rewritten log starts numbering afresh,
which is where the unguarded statement is false.

### The conversation store

`ConversationProofs`, of `Conversation!Spec` (arbitrary callers), from
`ConversationConstants`:

| theorem | statement |
|---|---|
| `ConversationsStaySound` | `[]ConversationInvariant` |
| `ConversationTypeCorrect` | `[]TypeOK`, the bound on a stream included |
| `MarkersAreAnnounced` | `[]MarkerIsAnnounced` (INV-58) |
| `StreamsAreTurnByTurn` | `[]TurnsDoNotOverlap` |
| `NoTurnIsForgotten` | `[]StartedTurnsAreAccountedFor` |
| `SnapshotIsIdempotent` | `[]TurnsArchivedOnce` (D30) |
| `ConversationsOnlyGrow` | `HistoryIsAppendOnly` (INV-59) |

*The inductive invariant* is `Sound(v, gone)` of each conversation by itself:
no method touches two. The parts need each other. A release appends
`turn_completed` for the marker it clears, so that turns do not overlap needs
the marker to be the last boundary on the stream (`MarkerMatches`), and that no
started turn is forgotten needs to know that a marker is only ever cleared by a
completion or a takeover (`gone`).

### The node and the execution process

`GatewayProofs`, of `Gateway!Spec`, from `DaemonConstants` (intervals, ttl and
budget are numbers, in no relation) and `GatewayConstants`:

| theorem | statement |
|---|---|
| `GatewayStaysSound` | `[]GatewayInvariant` |
| `HealthyRunsSurvive` | `[]HealthyRunsAreNotReaped` (INV-9, of a process that beats within the ttl) |
| `StopsAreBounded` | `[]StopIsBounded` |
| `DrainsWait` | `[]DrainWaitsForTheAccepted` |

*The inductive invariant.* `RunsAreHeard` bounds the age of a claim by the age
of its task's heartbeat timer, whatever the interval; `StopIsPaced` bounds the
time a stop has taken by one budget per task already joined, which is why
cardinalities of the running tasks come in; `StopLeavesNothing` that a daemon
that stopped has no task; `DrainIsFinal` that after the signal nothing enters
the set of accepted responses.

### The composition

`LifecycleProofs`, of `Lifecycle!Spec`, from `LifecycleConstants` and the
constants of the three stores, for any number of responses, conversations,
deltas and crashes:

| theorem | statement |
|---|---|
| `LifecycleTypeCorrect` | `[]TypeOK` |
| `LedgerKnowsFirst` | `[]Linked`: the record comes before every act on a response |
| `LedgerIsImplemented` | `LedgerSpec`: the composition implements `Ledger!Spec` |
| `LifecycleStaysSound` | `[]LifecycleInvariant` |
| `ResponsesEndOnce` | `[]StreamAgreesWithLedger` |
| `OutputsAreKept` | `[]CompletedTurnsKeepTheirOutput` |
| `TailsHaveReplies` | `[]TailHasCommitted` |
| `AnnouncedTurnsAreArchived` | `[]AnnouncedTurnsAreReadable`, if `Steady` |

*Refinement.* `InitRefines` maps the initial state, and `StepRefines` every
action to the action of `Ledger` it performs or to a stutter. The mapped
histories are read off the composition's state, so that a claim is new to
`granted` needs `Linked`: a queued response was not started, a started one is
minted, and an id is named by nobody but its own create before that.

*The inductive invariant*, `LifecycleInvariant`, adds to `Linked` that the three
terminal paths exclude each other: whoever moved the record is the only one to
settle the response (`OneSettles`). From it follows that once a stream tells its
end nobody is left to tell another (`StreamSound`), that a turn in a snapshot is
of a response that ended and has its own run's output (`TurnsSound`), and that
the tail advances only to such a turn (`AdvanceSound`, `TailSound`).

*The hypothesis of the last theorem*, `Steady`, is that the store is never
degraded to read-only and has a buffer for every response. It is not an
artefact: a refused `append_turn` or `append` is logged and passed over by the
code, so with refused writes a turn can be announced as over without being in
the snapshot. The run `two_turns` satisfies it, and is the one that checks the
property. The invariant is `LifecycleInvariant /\ SteadyInvariant`.

### Requests and sessions

`SessionProofs`, of `Session!Spec`, from `ProtocolConstants` and
`SessionConstants` (the absent value is no id, no number and no name; a run ends
in a terminal status; lists are lists, items have a size; `MaxNodes` is enough
to measure any of the `Documents`), for any clients, scripts, limits and
replies:

| theorem | statement |
|---|---|
| `SessionStaysSound` | `[]SessionInvariant` |
| `EchoesAreAccepted` | `[]EchoIsAccepted` |
| `NoConversationStaysLocked` | `[]ConversationsAreFreed` |
| `TurnsInSequenceStayInBounds` | `[]SequentialTurnsStayInBounds` (INV-41 for turns that do not overlap) |
| `HistoriesCanBeResent` | `[]HistoryCanBeResent` (INV-47), if `RepliesAreItems` |
| `TranscriptsAreComplete` | `[]TranscriptIsComplete` |
| `AcceptedStaysInBounds` | `[]AcceptedFitsTheLimits` (FR-27: number, length of each, total, depth) |

*Lemmas on the protocol.* `NotRefused` restates the ingress without the order of
its rules; `AcceptedTwice` is the heart of the echo: whatever request is
accepted, what is rendered of it is accepted too, field by field (`EchoFields`,
`ToolChoiceReadBack`). `KeptCanBeSent` is the same for a history.

*The inductive invariant.* Every marker is held by a create that has yet to be
admitted or to give it back, or by a run that has yet to settle
(`MarkersAreHeld`): a create past its refusal, or a run that ends, is the only
one that can clear it. A create's id is nobody else's (`CreatesAreSound`). While
no two turns of a conversation overlapped, at most one create or run is under
way in it and the bound it checked still has room for it (`InTurn`); that is
why a check made before the marker is taken is enough for them, and the
invariant says nothing of turns that do overlap, for which it is not.
The last three theorems add `ListsAreSound`: what a request, its turn and its
object hold of what was written, and what a context holds of what was answered.

*The hypothesis of `HistoriesCanBeResent`*, `RepliesAreItems`, is the runner's
contract: what it answers with are items a request may hold. The service keeps
what the runner gave it as it is, so without the contract the property fails.

*Transcripts.* `TurnsAreKept` says of every conversation that reading its
entries one by one (`Reads`) gives a list which contains every archived turn
whole (`Includes`) and is as long as all of them together. Archiving appends one
turn to that list (`TurnIsRead`, `TurnIsAdded`). "Together" is a sum over a set
of responses whose order `MapThenSumSet` leaves open; `SumIsUnique` shows that
whatever the order, it is the sum that grew by each turn as it came.

*Limits.* `json_depth` walks a document with a stack of its own instead of
calling itself. `StaysInReach` is its loop invariant: if the document has a
level d, a node on the stack still has what is missing of it below, or the
maximum counts it already; at the end the stack is empty. `DepthIsMeasured`
concludes that a document within the measured depth has no level beyond the
limit. `SumOfList` shows that the total the rules add up in the list's order is
the sum of the sizes. Since whatever is rendered of an accepted request is
accepted (`ObjectsAreSound`), a record satisfies the rules for as long as it
exists.

### The output of a run

`OutputProofs`, of `OutputStream!Spec`, from `OutputConstants` (the absent value
is none of the values it stands in for; a page holds at least one event) and
`EventLogConstants`, for any number of sink calls, any capacity and any page:

| theorem | statement |
|---|---|
| `OutputStaysSound` | `[]OutputInvariant` |
| `FunnelsAlwaysAgree` | `[]FunnelsAgree` |
| `SeenTokensAlwaysArchived` | `[]SeenTokensAreArchived` (INV-61) |
| `AlwaysArchivedOnce` | `[]ArchivedOnce` |
| `OnlyLaterOutputUnchecked` | `[]OnlyLaterOutputIsUnchecked` (INV-41) |
| `AnswersAlwaysTrue` | `[]AnswersAreTrue` |

*The inductive invariant.* The readers and the replay fold over the stream, and
the ring may have evicted its beginning, so the invariant cannot speak of the
ring alone. `OutputInvariant` says that there is a list *h* of everything ever
published, whose end the ring holds (`Holds`), and the runs *a*, *l* and *o* of
the three folds over it (`Runs`): what the replay, the service's and the
runtime's reconstruction make of the first *k* events. A replay, a reader or an
heir that has come to a cursor holds the value of its run there, so neither where
its pages were cut nor when each was read matters.

`SinkAgrees` then ties the sink to the end of *a*: while every append was taken,
what the stream tells, with the append still in flight (`Ahead`), is what the
sink holds (`Match`). A refused or lost append stops the sink for good, and from
then on only `Rebuilt` is left: the stream tells what *some* sink held, with
every token that was seen of it. That is all an interrupted turn needs, and
`SinkSound` of that sink - items at their places, no token in two texts - is why
it is archived once. `ObjectsSound` says that the output all objects add up to
is that of the last one, which is why the two reconstructions agree on a stream
that has ended, and that nothing is told of the output before the end, which is
why a create that came earlier has checked none of it; and that the last object
tells the status in the ledger, which only one of the engine and
the cleaner can have set (`StatusSound`).

*Layout.* The folds first, then one lemma per sink call (`AddedCall`,
`DeltaCall`, `DoneCall`, `AsideKept`), `FunnelsMatch` (a replay that matches a
sink archives what the sink does), `PushExtends` (one event more on the stream
is one step more of the three runs), then one lemma per action.

### Only model-checked

* Liveness - `EveryResponseEnds`, `EveryMarkerIsFreed`, `EveryStreamEnds`,
  `SubscribersAreReleased`, `AbandonedRunsEnd`, `OnlyStreamsHoldAnExit` - since
  fairness is outside the prover's reach.
* `ContractHolds`: a fixed list of calls and of the answers allowed to them.
  There is nothing in it to generalise over but the number of racers and of
  passes, and of the latter the code's own suite allows only one; TLC
  enumerates every order of the racing calls.

## 5. Not modelled

* Canonical form, ids, the integrity tag: encoders and a keyed hash, functions
  of their input without shared state.
* Which hosts a URL may name, the ranges of sampling parameters: one Boolean or
  one bound each in `Protocol`; wording of errors; constant-time comparison.
* `update_metadata`, and the reads `list` and `get` of conversations, outside
  `Conformance`: nothing else reads what they write, or they write nothing.
* The RPC client and server. A lost answer is modelled for the appends of a run
  (`LoseCall`) and for callers that die (`Crash`); retries do not exist in the
  transport.
* The mock execution daemon: runners used for verification. `Lifecycle` and
  `OutputStream` let a runner do what the runner's contract allows.
* Scenarios, oracle and build tooling: they observe the system and keep no
  state of it. Of the contract suite, the cases that only parse values or
  compare signatures.
* The long poll's waiting: an empty read changes nothing, and a missed wake-up
  costs at most the poll's deadline.

## 6. Plan

Done: the three stores, their arbitrary-caller specifications, the composition;
the output of a run and its reconstructions; requests, contexts and chains; the
execution process and the node; the port contract against the models; proofs of
the ledger, the event log, the conversation store, the node, the composition
with its refinement, the output of a run, and sessions. What is left, in this
order:

1. `Lifecycle`: what remains of `AnnouncedTurnsAreReadable` when a write is
   refused.
2. `Lifecycle` and `OutputStream`: that the output of the second refines what
   the first says of an archived turn, a number of deltas.
3. `Conformance`: the contended cases for any number of racers.

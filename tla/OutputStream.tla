---------------------------- MODULE OutputStream ----------------------------
(***************************************************************************)
(* What becomes of the output of one response: the calls its runner makes  *)
(* on the EventSink (crates/agent-runtime/src/sink.rs), the events they    *)
(* append, and everyone who rebuilds something from those events or from   *)
(* the sink - the runtime's own funnels, the replay of a cancel or a reap, *)
(* the retrieval of the response and the two reconstructions of a bare     *)
(* chain.                                                                  *)
(*                                                                         *)
(* A token is numbered by the call that streamed it; an item is named by   *)
(* the order of its announcement.  An append is two steps, its fence and   *)
(* its push, as in the event log; every other step is one call on a store. *)
(***************************************************************************)
EXTENDS EventLogStore, SequencesExt

CONSTANTS
    Id,             \* the response
    MaxCalls,       \* bound on the calls the runner makes on its sink
    Asides,         \* the kinds of calls made that no reconstruction looks at
    MaxAsides,      \* bound on those calls
    Page            \* REPLAY_PAGE, EVENT_REPLAY_PAGE and event_page

\* Tokens are numbers, and so are the ids of items.
Item == [type : {"message", "call"}, id : Nat, text : Seq(Nat),
         status : {"in_progress", "completed", "incomplete"}]
Placed == [at : Nat, item : Item]
ResponseObject ==
    [status : {"queued", "in_progress", "completed", "incomplete", "failed", "cancelled"},
     output : Seq(Item)]
EventKinds ==
    {"created", "in_progress", "completed", "incomplete", "failed", "added", "done", "delta"}
        \cup Asides
Event == [kind : EventKinds, at : Nat \cup {None}, item : Item \cup {None},
          text : Nat \cup {None}, object : ResponseObject \cup {None}]
Pending == [event : Event, fenced : BOOLEAN]

ASSUME OutputConstants ==
    /\ Id \in Responses
    /\ None \notin Item \cup Placed \cup ResponseObject \cup Pending \cup Seq(Item)
    /\ Asides \subseteq {"reasoning", "args_delta", "args_done", "part_added", "text_done",
                         "part_done"}
    /\ MaxCalls \in Nat /\ MaxAsides \in Nat /\ Page \in Nat \ {0}

VARIABLES
    status,     \* of the ledger record
    sink,       \* the EventSink of the run
    call,       \* the append in flight: its event, and whether its fence passed
    engine,     \* the execution: where it is, and the items it has for its funnel
    cleaner,    \* the cancel or the reap, and how far its replay is
    archive,    \* the output items of the archived turn, or None
    reader,     \* a client, or the create of a later turn, reading the response
    heir,       \* the run of that later turn, reading it again
    counts,     \* calls and asides made
    shown       \* tokens of announced messages that reached the stream of a
                \* running response

vars == <<logs, readOnly, status, sink, call, engine, cleaner, archive, reader,
          heir, counts, shown>>

Ended == {"completed", "incomplete", "failed", "cancelled"}

----------------------------------------------------------------------------
(* Items, response objects and events.                                     *)

Message(id, text, done) == [type |-> "message", id |-> id, text |-> text, status |-> done]
FunctionCall(id, done)  == [type |-> "call", id |-> id, text |-> <<>>, status |-> done]

Object(state, output) == [status |-> state, output |-> output]
WithoutOutput(state) == Object(state, <<>>)

Lifecycle(kind, object) ==
    [kind |-> kind, at |-> None, item |-> None, text |-> None, object |-> object]
ItemEvent(done, at, item) ==
    [kind |-> IF done THEN "done" ELSE "added", at |-> at, item |-> item,
     text |-> None, object |-> None]
TextDelta(at, token) ==
    [kind |-> "delta", at |-> at, item |-> None, text |-> token, object |-> None]
\* Reasoning deltas, argument deltas and their end, content parts opened and
\* closed, the end of a text: for live rendering only.
Aside(kind, at) ==
    [kind |-> kind, at |-> at, item |-> None, text |-> None, object |-> None]

TerminalKinds == {"completed", "incomplete", "failed"}
IsTerminal(event) == event.kind \in TerminalKinds

----------------------------------------------------------------------------
(* The sink.                                                               *)

NewSink ==
    [stopped |-> FALSE, outputIndex |-> 0, reasoning |-> <<>>,
     completed |-> <<>>, openItem |-> None, openText |-> <<>>]

CurrentIndex(s) == IF s.outputIndex = 0 THEN 0 ELSE s.outputIndex - 1

\* An item of the kind `type` is announced under the next index.
AfterAdded(s, item) ==
    [s EXCEPT !.outputIndex = @ + 1, !.openItem = item, !.openText = <<>>]

\* Mutant: the text of a closed item stays with the sink.
AfterDoneKeepingText(s, item) ==
    [s EXCEPT !.completed = Append(@, item)]

AfterDone(s, item) ==
    [s EXCEPT !.completed = Append(@, item), !.openItem = None, !.openText = <<>>]

\* Recorded before the append, which may yet be refused.
AfterDelta(s, token) == [s EXCEPT !.openText = Append(@, token)]

AfterAside(s, kind, token) ==
    IF kind = "reasoning" THEN [s EXCEPT !.reasoning = Append(@, token)] ELSE s

PartialItem(s) ==
    IF s.openItem # None /\ s.openItem.type = "message" /\ s.openText # <<>>
    THEN <<Message(s.openItem.id, s.openText, "incomplete")>> ELSE <<>>

\* What the runtime archives of a run that failed.
SinkOutput(s) == s.completed \o PartialItem(s)

----------------------------------------------------------------------------
(* The replay of a stream whose run is out of reach.                       *)

NoReplay == [items |-> <<>>, open |-> None, text |-> <<>>]

OpenAt(acc, at) == acc.open # None /\ acc.open.at = at

\* Mutant: the item that is done stays open.
ReplayDoneLeavesOpen(acc, event) ==
    [acc EXCEPT !.items = Append(@, [at |-> event.at, item |-> event.item])]

ReplayItemDone(acc, event) ==
    [items |-> Append(acc.items, [at |-> event.at, item |-> event.item]),
     open  |-> IF OpenAt(acc, event.at) THEN None ELSE acc.open,
     text  |-> IF OpenAt(acc, event.at) THEN <<>> ELSE acc.text]

ReplayEvent(acc, event) ==
    CASE event.kind = "added" ->
            [acc EXCEPT !.open = [at |-> event.at, item |-> event.item], !.text = <<>>]
      [] event.kind = "done" -> ReplayItemDone(acc, event)
      [] event.kind = "delta" ->
            [acc EXCEPT !.text = IF OpenAt(acc, event.at) THEN Append(@, event.text) ELSE @]
      [] OTHER -> acc

ReplayBatch(acc, events) == FoldLeft(ReplayEvent, acc, BodiesOf(events))

Indexed(acc) ==
    IF acc.open # None /\ acc.open.item.type = "message" /\ acc.text # <<>>
    THEN Append(acc.items, [at   |-> acc.open.at,
                            item |-> Message(acc.open.item.id, acc.text, "incomplete")])
    ELSE acc.items

\* The sort is stable: of two items under one index the earlier comes first.
Place(items, i) ==
    Cardinality({j \in DOMAIN items :
                    items[j].at < items[i].at \/ (items[j].at = items[i].at /\ j <= i)})

ReplayedItems(acc) ==
    LET items == Indexed(acc)
    IN  [p \in 1..Len(items) |->
            items[CHOOSE i \in DOMAIN items : Place(items, i) = p].item]

----------------------------------------------------------------------------
Idle == [pc |-> "idle", by |-> "cancel", cursor |-> -1, acc |-> NoReplay]

NoReader == [pc |-> "idle", record |-> "queued", cursor |-> -1, latest |-> None,
             ended |-> FALSE, lost |-> FALSE]
NoHeir == [pc |-> "read", cursor |-> -1, outputs |-> <<>>, lost |-> FALSE]

\* The response was created: its record is queued and its first event is out.
Init ==
    /\ readOnly = FALSE
    /\ logs = [r \in Responses |->
                  Pushed(NoLog, Lifecycle("created", WithoutOutput("queued")))]
    /\ status = "queued"
    /\ sink = NewSink
    /\ call = None
    /\ engine = [pc |-> "idle", items |-> <<>>]
    /\ cleaner = Idle
    /\ archive = None
    /\ reader = NoReader
    /\ heir = NoHeir
    /\ counts = [calls |-> 0, asides |-> 0]
    /\ shown = {}

Rest(pc) == engine' = [engine EXCEPT !.pc = pc]

----------------------------------------------------------------------------
(* Appending.                                                              *)

\* The engine claims the response and appends in_progress, under its attempt.
Begin ==
    /\ engine.pc = "idle" /\ status = "queued"
    /\ status' = "in_progress"
    /\ Rest("announce")
    /\ call' = [event |-> Lifecycle("in_progress", WithoutOutput("in_progress")),
                fenced |-> FALSE]
    /\ UNCHANGED <<logs, readOnly, sink, cleaner, archive, reader, heir, counts, shown>>

\* The fence of an append.  A sink that was refused once appends no more; what
\* becomes of the announcement of the run is not looked at.
FenceCall ==
    /\ call # None /\ ~call.fenced
    /\ \/ /\ status = "in_progress"
          /\ call' = [call EXCEPT !.fenced = TRUE]
          /\ UNCHANGED <<sink, engine>>
       \/ /\ status # "in_progress"
          /\ call' = None
          /\ IF engine.pc = "announce" THEN Rest("run") /\ UNCHANGED sink
             ELSE sink' = [sink EXCEPT !.stopped = TRUE] /\ UNCHANGED engine
    /\ UNCHANGED <<logs, readOnly, status, cleaner, archive, reader, heir, counts,
                   shown>>

ShowsToken(event) ==
    event.kind = "delta" /\ sink.openItem # None /\ sink.openItem.type = "message"

PushCall ==
    /\ call # None /\ call.fenced
    /\ LogPush(Id, call.event)
    /\ shown' = IF ShowsToken(call.event) /\ status = "in_progress"
                THEN shown \cup {call.event.text} ELSE shown
    /\ call' = None
    /\ IF engine.pc = "announce" THEN Rest("run") ELSE UNCHANGED engine
    /\ UNCHANGED <<readOnly, status, sink, cleaner, archive, reader, heir, counts>>

\* The transport fails before the call arrives, or its answer is lost.  The
\* runner gets an error and gives up.
LoseCall ==
    /\ call # None
    /\ IF call.fenced
       THEN /\ LogPush(Id, call.event)
            /\ shown' = IF ShowsToken(call.event) /\ status = "in_progress"
                        THEN shown \cup {call.event.text} ELSE shown
       ELSE UNCHANGED <<logs, shown>>
    /\ call' = None
    /\ Rest(IF engine.pc = "announce" THEN "run" ELSE "error")
    /\ UNCHANGED <<readOnly, status, sink, cleaner, archive, reader, heir, counts>>

----------------------------------------------------------------------------
(* The runner.  It closes an item before it opens the next; text outside   *)
(* an item is allowed, and so is going on after a Stop.                    *)

SinkCall(next, event) ==
    /\ engine.pc = "run" /\ call = None
    /\ counts.calls < MaxCalls
    /\ counts' = [counts EXCEPT !.calls = @ + 1,
                                !.asides = IF event.kind \in Asides THEN @ + 1 ELSE @]
    /\ sink' = next
    /\ call' = IF sink.stopped THEN None ELSE [event |-> event, fenced |-> FALSE]
    /\ UNCHANGED <<logs, readOnly, status, engine, cleaner, archive, reader, heir,
                   shown>>

Token == counts.calls + 1

OutputItemAdded ==
    /\ sink.openItem = None
    /\ \E item \in {Message(sink.outputIndex, <<>>, "in_progress"),
                    FunctionCall(sink.outputIndex, "in_progress")} :
          SinkCall(AfterAdded(sink, item), ItemEvent(FALSE, sink.outputIndex, item))

OutputItemDone ==
    /\ sink.openItem # None
    /\ LET item == [sink.openItem EXCEPT
                       !.status = "completed",
                       !.text = IF sink.openItem.type = "message" THEN sink.openText ELSE @]
       IN  SinkCall(AfterDone(sink, item), ItemEvent(TRUE, CurrentIndex(sink), item))

TextDeltaCall ==
    SinkCall(AfterDelta(sink, Token), TextDelta(CurrentIndex(sink), Token))

AsideCall ==
    /\ counts.asides < MaxAsides
    /\ \E kind \in Asides :
          SinkCall(AfterAside(sink, kind, Token),
                   Aside(kind, IF kind = "reasoning" THEN 0 ELSE CurrentIndex(sink)))

----------------------------------------------------------------------------
(* The end of the run, and the runtime's funnels.                          *)

\* Superseded, or a result handed back by a runner whose sink was refused.
RunDiscarded ==
    /\ engine.pc = "run" /\ call = None /\ sink.stopped
    /\ Rest("done")
    /\ sink' = NewSink
    /\ UNCHANGED <<logs, readOnly, status, call, cleaner, archive, reader, heir,
                   counts, shown>>

\* The ledger lets one of complete, cancel and reap through.  The sink is dropped
\* with the run.
Commit(outcome, items) ==
    /\ IF status = "in_progress"
       THEN status' = outcome /\ engine' = [pc |-> "archive", items |-> items]
       ELSE UNCHANGED status /\ Rest("done")
    /\ sink' = NewSink
    /\ UNCHANGED <<logs, readOnly, call, cleaner, archive, reader, heir, counts, shown>>

RunCompletes ==
    /\ engine.pc = "run" /\ call = None /\ ~sink.stopped /\ sink.openItem = None
    /\ \E outcome \in {"completed", "incomplete"} : Commit(outcome, sink.completed)

RunFails ==
    /\ \/ engine.pc = "run" /\ call = None
       \/ engine.pc = "error"
    /\ Commit("failed", SinkOutput(sink))

ArchiveRun ==
    /\ engine.pc = "archive"
    /\ archive' = engine.items
    /\ Rest("terminal")
    /\ UNCHANGED <<logs, readOnly, status, sink, call, cleaner, reader, heir, counts,
                   shown>>

\* Mutant: the terminal event of a completed run carries no output.
TerminalObjectBare(state, items) == WithoutOutput(state)

\* The failed object says nothing of what the run produced.
TerminalObject(state, items) ==
    IF state = "failed" THEN WithoutOutput(state) ELSE Object(state, items)

EndRun ==
    /\ engine.pc = "terminal"
    /\ LogPush(Id, Lifecycle(status, TerminalObject(status, engine.items)))
    /\ Rest("done")
    /\ UNCHANGED <<readOnly, status, sink, call, cleaner, archive, reader, heir,
                   counts, shown>>

----------------------------------------------------------------------------
(* Cancel and reap.                                                        *)

CleanerTo(pc) == cleaner' = [cleaner EXCEPT !.pc = pc]

Cancel ==
    /\ status \in {"queued", "in_progress"}
    /\ status' = "cancelled"
    /\ cleaner' = [Idle EXCEPT !.pc = "replay"]
    /\ UNCHANGED <<logs, readOnly, sink, call, engine, archive, reader, heir, counts,
                   shown>>

Reap ==
    /\ status = "in_progress"
    /\ status' = "failed"
    /\ cleaner' = [Idle EXCEPT !.pc = "terminal", !.by = "reap"]
    /\ UNCHANGED <<logs, readOnly, sink, call, engine, archive, reader, heir, counts,
                   shown>>

\* Mutant: the replay is content with one page.
ReplayDoneAfterPage(cursor) == cursor # -1 \/ ReadOutcome(Id, cursor) = "empty"

ReplayDone(cursor) == ReadOutcome(Id, cursor) = "empty"

\* One page of the replay.  A stream that lost its beginning archives nothing.
ReplayPage ==
    /\ cleaner.pc = "replay"
    /\ \/ /\ ReplayDone(cleaner.cursor)
          /\ CleanerTo("archive")
       \/ /\ ~ReplayDone(cleaner.cursor)
          /\ ReadOutcome(Id, cleaner.cursor) = "batch"
          /\ LET batch == ReadBatch(Id, cleaner.cursor, Page)
             IN  cleaner' = [cleaner EXCEPT !.cursor = LastSeq(batch),
                                            !.acc = ReplayBatch(@, batch)]
       \/ /\ ~ReplayDone(cleaner.cursor)
          /\ ReadOutcome(Id, cleaner.cursor) = "expired"
          /\ CleanerTo(IF cleaner.by = "cancel" THEN "terminal" ELSE "done")
    /\ UNCHANGED <<logs, readOnly, status, sink, call, engine, archive, reader, heir,
                   counts, shown>>

ArchiveReplay ==
    /\ cleaner.pc = "archive"
    /\ archive' = ReplayedItems(cleaner.acc)
    /\ cleaner' = [Idle EXCEPT !.by = cleaner.by,
                              !.pc = IF cleaner.by = "cancel" THEN "terminal" ELSE "done"]
    /\ UNCHANGED <<logs, readOnly, status, sink, call, engine, reader, heir, counts,
                   shown>>

EndStream ==
    /\ cleaner.pc = "terminal"
    /\ LogPush(Id, Lifecycle("failed", WithoutOutput(status)))
    /\ CleanerTo(IF cleaner.by = "cancel" THEN "done" ELSE "replay")
    /\ UNCHANGED <<readOnly, status, sink, call, engine, archive, reader, heir,
                   counts, shown>>

----------------------------------------------------------------------------
(* Reading the response, twice: the service for a GET or for the create of *)
(* a later turn, which keeps the last lifecycle object it meets; and, once *)
(* that turn is claimed, its run, which adds up the output of all of them. *)
(* The stream moves on between the two.  Both go page by page to the first *)
(* page with a terminal event, or to the end, and leave their position     *)
(* behind with the loop.                                                   *)

\* Mutant: the first lifecycle object is kept.
FirstObject(latest, event) == IF latest = None THEN event.object ELSE latest

LatestObject(latest, event) == IF event.object = None THEN latest ELSE event.object

AddOutput(outputs, event) ==
    IF event.object = None THEN outputs ELSE outputs \o event.object.output

\* A page that may end the reading.
Ends(events) == \E i \in DOMAIN events : IsTerminal(events[i])

StartReading ==
    /\ reader.pc = "idle"
    /\ reader' = [reader EXCEPT !.pc = "read", !.record = status]
    /\ UNCHANGED <<logs, readOnly, status, sink, call, engine, cleaner, archive, heir,
                   counts, shown>>

ReadPage ==
    /\ reader.pc = "read"
    /\ LET outcome == ReadOutcome(Id, reader.cursor)
           batch   == ReadBatch(Id, reader.cursor, Page)
           events  == BodiesOf(batch)
       IN  \/ /\ outcome = "batch"
              /\ reader' = [reader EXCEPT
                    !.pc     = IF Ends(events) THEN "done" ELSE "read",
                    !.cursor = IF Ends(events) THEN -1 ELSE LastSeq(batch),
                    !.latest = FoldLeft(LatestObject, @, events),
                    !.ended  = Ends(events)]
           \/ /\ outcome \in {"empty", "expired"}
              /\ reader' = [reader EXCEPT !.pc = "done", !.cursor = -1,
                                          !.lost = outcome = "expired"]
    /\ UNCHANGED <<logs, readOnly, status, sink, call, engine, cleaner, archive, heir,
                   counts, shown>>

\* The later turn was created after its check, and is claimed at any time.
InheritPage ==
    /\ reader.pc = "done" /\ heir.pc = "read"
    /\ LET outcome == ReadOutcome(Id, heir.cursor)
           batch   == ReadBatch(Id, heir.cursor, Page)
           events  == BodiesOf(batch)
       IN  \/ /\ outcome = "batch"
              /\ heir' = [heir EXCEPT
                    !.pc      = IF Ends(events) THEN "done" ELSE "read",
                    !.cursor  = IF Ends(events) THEN -1 ELSE LastSeq(batch),
                    !.outputs = FoldLeft(AddOutput, @, events)]
           \/ /\ outcome \in {"empty", "expired"}
              /\ heir' = [heir EXCEPT !.pc = "done", !.cursor = -1,
                                      !.lost = outcome = "expired"]
    /\ UNCHANGED <<logs, readOnly, status, sink, call, engine, cleaner, archive, reader,
                   counts, shown>>

\* The object a client gets, from the record it was asked with when the stream
\* has nothing: the one just read for a GET, the one just created for a
\* synchronous create.
CurrentObject(record) == IF reader.latest = None THEN WithoutOutput(record) ELSE reader.latest
Retrieved == CurrentObject(reader.record)
SyncAnswer == CurrentObject("queued")

\* The output a later turn inherits, as its create checks it and as its run
\* reads it; None when the chain is reported broken.
CheckedOutput == IF reader.latest = None THEN <<>> ELSE reader.latest.output
InheritedOutput == IF heir.lost THEN None ELSE heir.outputs

----------------------------------------------------------------------------
Next ==
    \/ Begin \/ FenceCall \/ PushCall \/ LoseCall
    \/ OutputItemAdded \/ OutputItemDone \/ TextDeltaCall \/ AsideCall
    \/ RunDiscarded \/ RunCompletes \/ RunFails \/ ArchiveRun \/ EndRun
    \/ Cancel \/ Reap \/ ReplayPage \/ ArchiveReplay \/ EndStream
    \/ StartReading \/ ReadPage \/ InheritPage

Spec == Init /\ [][Next]_vars

----------------------------------------------------------------------------
Overflowed == logs[Id].evictedBefore > 0

Tokens(items) == UNION {Range(items[i].text) : i \in DOMAIN items}

\* The two ways to save the output of an interrupted run say the same: what
\* the runtime would archive from its sink is what a cancel or a reap would
\* replay from the stream, whenever no call was refused or lost and nothing
\* was evicted (partial_item and completed against replay_completed_items).
FunnelsAgree ==
    (engine.pc = "run" /\ call = None /\ ~sink.stopped /\ ~Overflowed) =>
        SinkOutput(sink) = ReplayedItems(ReplayBatch(NoReplay, logs[Id].ring))

\* INV-61: whoever archives an interrupted turn - the failing run, the cancel
\* or the reap - keeps every token of an announced message that subscribers
\* could read while the response was running, with calls lost, refused and
\* raced by the cancel.
SeenTokensAreArchived == archive # None => shown \subseteq Tokens(archive)

\* Nothing is archived twice, whichever of the two funnels runs: no two items
\* of an archived turn share a place in the output or a token.
ArchivedOnce ==
    archive # None =>
        \A i, j \in DOMAIN archive :
            i < j => /\ archive[i].id < archive[j].id
                     /\ Range(archive[i].text) \cap Range(archive[j].text) = {}

\* INV-41: a later turn runs on the output its create has checked the bounds
\* of, though the service and the runtime reconstruct a bare response at
\* different times and each in its own way.  The one exception is a create
\* that found the response not yet over: what the response then completes with
\* is inherited, whole and once, and was checked by nobody.
OnlyLaterOutputIsUnchecked ==
    (heir.pc = "done" /\ InheritedOutput # None) =>
        \/ InheritedOutput = CheckedOutput
        \/ /\ ~reader.ended /\ status \in {"completed", "incomplete"}
           /\ InheritedOutput = engine.items

\* What a client is told is over is over in the ledger, with that status, and
\* a completed response shows the items its run handed over: to a GET and to
\* the synchronous create, whose record is as old as the response.
AnswersAreTrue ==
    reader.pc = "done" =>
        \A answer \in {Retrieved, SyncAnswer} :
            answer.status \in Ended =>
                /\ answer.status = status
                /\ (status \in {"completed", "incomplete"} /\ ~reader.lost) =>
                       answer.output = engine.items

HoldsTerminal == \E i \in 1..Len(logs[Id].ring) : IsTerminal(logs[Id].ring[i].body)

\* runtime.rs: "its record and the terminal event (carrying the full object,
\* output included) are its retention" - while the stream holds the terminal
\* event, a response that completed is retrieved with its output.
CompletedOutputIsRetained ==
    (reader.pc = "done" /\ reader.record \in {"completed", "incomplete"} /\ HoldsTerminal
        /\ engine.pc = "done") => Retrieved.output = engine.items
=============================================================================

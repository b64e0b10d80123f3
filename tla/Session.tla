------------------------------ MODULE Session ------------------------------
(***************************************************************************)
(* Clients that chat through POST /v1/responses: what they write, what is  *)
(* made of it (Protocol), the turn that comes of it, and what they read    *)
(* back and send again.                                                    *)
(*                                                                         *)
(* A client keeps sending one message of its own, or the echo of the last  *)
(* object it got, under one idempotency key or none.  The calls of a       *)
(* create and of a run interleave; the faults of the stores are Lifecycle's.*)
(***************************************************************************)
EXTENDS Protocol, FiniteSets

CONSTANTS
    Clients,
    Scripts,        \* what each client may be sending: a request, and its key or
                    \* None; or None, and the client does nothing
    Documents,      \* the JSON documents there are, with the ones nested in them
    Replies,        \* what a run may end with: status, output, reasoning
    PendingLimit    \* the ledger's limit on responses in flight

IsList(s) == Len(s) \in Nat /\ DOMAIN s = 1..Len(s)

\* The loop that measures a document has come to its end.
Measurable(value) == Measured(value).stack = <<>>

\* Tools that are documents and items that have a size.
Written(tools, items) ==
    /\ \A i \in DOMAIN tools : tools[i] \in Documents
    /\ IsList(items)
    /\ \A i \in DOMAIN items : ItemBytes(items[i]) \in Nat

ASSUME SessionConstants ==
    /\ \A value \in Documents :
          /\ IsList(value.kids) /\ Range(value.kids) \subseteq Documents
          /\ Measurable(value)
    /\ \A script \in Scripts :
          /\ DOMAIN script = Clients
          /\ \A c \in Clients :
                script[c] # None => Written(script[c].wire.tools, ToItems(script[c].wire))
    /\ \A reply \in Replies :
          /\ reply.status \in {"completed", "failed", "incomplete", "cancelled"}
          /\ IsList(reply.output)
    /\ PendingLimit \in Nat

VARIABLES
    clients,        \* client -> its create in progress and the last object it got
    records,        \* response -> its record and the step its run is at, or NoRecord
    convs           \* conversation -> marker and snapshot, and whether two of its
                    \* turns ever overlapped (history)

vars == <<clients, records, convs>>

NoRecord == [status |-> "unknown"]
Known(r) == records[r] # NoRecord
InFlight(r) == Known(r) /\ records[r].status \in {"queued", "in_progress"}
InConversation(r) == records[r].spec.anchor.kind = "conversation"

Init ==
    /\ \E script \in Scripts :
          clients = [c \in Clients |->
                        [pc |-> "idle", script |-> script[c], sent |-> None, id |-> None,
                         holder |-> None, object |-> None]]
    /\ records = [r \in ResponseIds |-> NoRecord]
    /\ convs = [v \in ConversationIds |-> [marker |-> None, context |-> EmptyContext,
                                        overlapped |-> FALSE]]

Goes(c, pc) == clients' = [clients EXCEPT ![c].pc = pc]

\* The create is answered; the object a client has is the last one it was sent.
Answered(c, object) ==
    clients' = [clients EXCEPT ![c].pc = "idle", ![c].id = None, ![c].holder = None,
                               ![c].sent = None, ![c].object = object]
Refused(c, error) == error # None /\ Answered(c, clients[c].object)

Spec_(c) == TurnSpec(clients[c].sent)

----------------------------------------------------------------------------
(* The context an anchor stands for, to the create and to the run.         *)

\* What the stream of a response says of its output: nothing before its end,
\* and nothing if it failed.
StreamOutput(r) ==
    IF records[r].step = "done" /\ records[r].status # "failed" THEN records[r].output
    ELSE <<>>

Found(context) == [error |-> None, context |-> context]
Missing(error) == [error |-> error, context |-> EmptyContext]

OfPrevious(r) ==
    LET spec == records[r].spec
    IN  CASE spec.anchor.kind = "conversation" -> Found(convs[spec.anchor.id].context)
          [] spec.anchor.kind = "root" ->
                Found(FromItems(spec.items \o StreamOutput(r), 1))
          [] OTHER -> Missing("chain_broken")

Snapshot(anchor) ==
    CASE anchor.kind = "root" -> Found(EmptyContext)
      [] anchor.kind = "conversation" -> Found(convs[anchor.id].context)
      [] OTHER -> IF Known(anchor.id) THEN OfPrevious(anchor.id) ELSE Missing("chain_broken")

\* The create also refuses to continue what was not stored.
NotStored(anchor) ==
    anchor.kind = "previous" /\ Known(anchor.id) /\ ~records[anchor.id].spec.store

ResolveError(anchor) ==
    CASE NotStored(anchor) -> "previous_not_stored"
      [] Snapshot(anchor).error # None -> Snapshot(anchor).error
      [] OTHER -> ContextViolation(Snapshot(anchor).context)

----------------------------------------------------------------------------
(* create.                                                                 *)

Submit(c) ==
    /\ clients[c].pc = "idle" /\ clients[c].script # None
    /\ \E wire \in {clients[c].script.wire} \cup
                   (IF clients[c].object = None THEN {} ELSE {Echo(clients[c].object)}) :
          \/ Refused(c, Refusal(wire))
          \/ /\ Refusal(wire) = None
             /\ clients' = [clients EXCEPT ![c].pc = "resolve", ![c].sent = wire]
    /\ UNCHANGED <<records, convs>>

Unused == {r \in ResponseIds : ~Known(r) /\ \A c \in Clients : clients[c].id # r}

\* Another turn of the conversation is under way, up to its archival.
Overlaps(v, c) ==
    \/ \E d \in Clients \ {c} :
          clients[d].id # None /\ Spec_(d).anchor = [kind |-> "conversation", id |-> v]
    \/ \E r \in ResponseIds :
          /\ Known(r) /\ records[r].spec.anchor = [kind |-> "conversation", id |-> v]
          /\ records[r].step \in {"run", "archive"}

Resolve(c) ==
    /\ clients[c].pc = "resolve"
    /\ LET error == ResolveError(Spec_(c).anchor)
       IN  \/ Refused(c, error) /\ UNCHANGED convs
           \/ /\ error = None
              /\ Unused # {}
              /\ clients' = [clients EXCEPT
                    ![c].id = CHOOSE r \in Unused : TRUE,
                    ![c].pc = IF Spec_(c).anchor.kind = "conversation"
                              THEN "acquire" ELSE "admit"]
              /\ convs' = [v \in ConversationIds |->
                              IF Spec_(c).anchor = [kind |-> "conversation", id |-> v]
                              THEN [convs[v] EXCEPT !.overlapped = @ \/ Overlaps(v, c)]
                              ELSE convs[v]]
    /\ UNCHANGED records

Conversation(c) == Spec_(c).anchor.id
Stale(r) == ~InFlight(r)

AcquireTurn(c) ==
    /\ clients[c].pc \in {"acquire", "reacquire"}
    /\ LET holder == convs[Conversation(c)].marker
       IN  \/ /\ holder = None
              /\ convs' = [convs EXCEPT ![Conversation(c)].marker = clients[c].id]
              /\ Goes(c, "admit")
           \/ /\ holder # None
              /\ IF clients[c].pc = "acquire"
                 THEN clients' = [clients EXCEPT ![c].pc = "holder", ![c].holder = holder]
                 ELSE Refused(c, "conversation_busy")
              /\ UNCHANGED convs
    /\ UNCHANGED records

JudgeHolder(c) ==
    /\ clients[c].pc = "holder"
    /\ IF Stale(clients[c].holder) THEN Goes(c, "takeover")
       ELSE Refused(c, "conversation_busy")
    /\ UNCHANGED <<records, convs>>

TakeOver(c) ==
    /\ clients[c].pc = "takeover"
    /\ convs' = [convs EXCEPT ![Conversation(c)].marker =
                                 IF @ = clients[c].holder THEN None ELSE @]
    /\ Goes(c, "reacquire")
    /\ UNCHANGED records

KeyOf(c) == IF clients[c].script.key = None THEN clients[c].id ELSE clients[c].script.key
WithKey(key) == {r \in ResponseIds : Known(r) /\ records[r].key = key}

\* The ledger's answer to try_create.
AdmitOutcome(c) ==
    CASE WithKey(KeyOf(c)) # {} -> "duplicate"
      [] Cardinality({r \in ResponseIds : InFlight(r)}) >= PendingLimit -> "overloaded"
      [] OTHER -> "accepted"

\* Mutant: only an overloaded ledger counts as a refusal.
MustReleaseOverload(outcome) == outcome = "overloaded"

MustRelease(outcome) == outcome # "accepted"

Queued(c) ==
    [spec |-> Spec_(c), key |-> KeyOf(c), status |-> "queued", step |-> "run",
     output |-> <<>>, reasoning |-> None, turns |-> 0]

\* The client is answered with the object of its new response or of the one its
\* key already stands for, unless a marker has to be given back first.
Admit(c) ==
    /\ clients[c].pc = "admit"
    /\ LET outcome == AdmitOutcome(c)
           release == MustRelease(outcome) /\ Spec_(c).anchor.kind = "conversation"
           object  == CASE outcome = "accepted" -> ResponseObject(Spec_(c))
                        [] outcome = "duplicate" ->
                              ResponseObject(records[CHOOSE r \in WithKey(KeyOf(c)) :
                                                        TRUE].spec)
                        [] OTHER -> clients[c].object
       IN  /\ records' = IF outcome # "accepted" THEN records
                         ELSE [records EXCEPT ![clients[c].id] = Queued(c)]
           /\ IF release
              THEN clients' = [clients EXCEPT ![c].pc = "release", ![c].object = object]
              ELSE Answered(c, object)
    /\ UNCHANGED convs

\* release_after_failed_admission.
ReleaseTurn(c) ==
    /\ clients[c].pc = "release"
    /\ convs' = [convs EXCEPT ![Conversation(c)].marker =
                                 IF @ = clients[c].id THEN None ELSE @]
    /\ Answered(c, clients[c].object)
    /\ UNCHANGED records

\* GET /v1/responses/{id} of any response.
Retrieve(c) ==
    /\ clients[c].pc = "idle" /\ clients[c].script # None
    /\ \E r \in ResponseIds :
          /\ Known(r)
          /\ clients' = [clients EXCEPT ![c].object = ResponseObject(records[r].spec)]
    /\ UNCHANGED <<records, convs>>

----------------------------------------------------------------------------
(* The run of a response.                                                  *)

StepTo(r, step) == records' = [records EXCEPT ![r].step = step]

AfterRun(r) ==
    IF ~InConversation(r) THEN "close"
    ELSE IF records[r].spec.store THEN "archive" ELSE "release"

\* A claim, and the snapshot the run is given; without one it fails at once.
Start(r) ==
    /\ Known(r) /\ records[r].status = "queued"
    /\ LET snapshot == Snapshot(records[r].spec.anchor)
       IN  records' = [records EXCEPT
              ![r].status = IF snapshot.error = None THEN "in_progress" ELSE "failed",
              ![r].step = IF snapshot.error = None THEN @ ELSE AfterRun(r),
              ![r].turns = snapshot.context.turns]
    /\ UNCHANGED <<clients, convs>>

\* The turn of a failed run is archived without its reasoning.
ReasoningOf(reply) == IF reply.status = "failed" THEN None ELSE reply.reasoning

Finish(r) ==
    /\ Known(r) /\ records[r].status = "in_progress"
    /\ \E reply \in Replies :
          records' = [records EXCEPT ![r].status = reply.status, ![r].output = reply.output,
                                     ![r].reasoning = ReasoningOf(reply),
                                     ![r].step = AfterRun(r)]
    /\ UNCHANGED <<clients, convs>>

ArchiveTurn(r) ==
    /\ Known(r) /\ records[r].step = "archive"
    /\ LET v == records[r].spec.anchor.id
       IN  convs' = [convs EXCEPT ![v].context =
                        WithTurn(@, records[r].spec.items, records[r].output,
                                 records[r].reasoning)]
    /\ StepTo(r, "release")
    /\ UNCHANGED clients

\* Only the end of a bare response's stream is read again.
Settle(r) ==
    /\ Known(r) /\ records[r].step = "release"
    /\ LET v == records[r].spec.anchor.id
       IN  convs' = [convs EXCEPT ![v].marker = IF @ = r THEN None ELSE @]
    /\ StepTo(r, "done")
    /\ UNCHANGED clients

CloseStream(r) ==
    /\ Known(r) /\ records[r].step = "close"
    /\ StepTo(r, "done")
    /\ UNCHANGED <<clients, convs>>

Next ==
    \/ \E c \in Clients :
          \/ Submit(c) \/ Resolve(c) \/ AcquireTurn(c) \/ JudgeHolder(c) \/ TakeOver(c)
          \/ Admit(c) \/ ReleaseTurn(c) \/ Retrieve(c)
    \/ \E r \in ResponseIds :
          Start(r) \/ Finish(r) \/ ArchiveTurn(r) \/ Settle(r) \/ CloseStream(r)

Spec == Init /\ [][Next]_vars

----------------------------------------------------------------------------
\* tool.rs: a client that reads a response object back and sends its fields
\* again is not rejected: what the service renders of any request it accepted -
\* tool choice, conversation, metadata, the items the text became - parses and
\* validates as a request.
EchoIsAccepted ==
    \A c \in Clients : clients[c].object # None => Refusal(Echo(clients[c].object)) = None

Resent(items) == [PlainRequest EXCEPT !.text = None, !.items = items]

\* INV-47: every item the service emits is acceptable as input.  The history of
\* a conversation, sent out in full the way chain_broken tells the caller to,
\* is refused for its size at most.
HistoryCanBeResent ==
    \A v \in ConversationIds :
        LET wire == Resent(ItemsOf(convs[v].context))
        IN  wire.items # <<>> =>
                Refusal(wire) = None \/ (Parses(wire) /\ Violation(wire) = "Limits")

\* Some value lies d levels below the document.
DeeperThan(value, d) ==
    LET below[n \in Nat] ==
            IF n = 0 THEN {value} ELSE UNION {Range(v.kids) : v \in below[n - 1]}
    IN  below[d] # {}

\* FR-27: what was accepted is within each of its four bounds - the number of
\* items, the length of each, their total, the depth of the documents - taken
\* from their meaning: no value deeper than the limit, however the iterative
\* measure got to its depth, and no sum above the limit.
AcceptedFitsTheLimits ==
    \A r \in ResponseIds : Known(r) =>
        LET spec == records[r].spec
        IN  /\ \A i \in DOMAIN spec.tools : ~DeeperThan(spec.tools[i], Limits.depth)
            /\ Len(spec.items) \in 1..Limits.items
            /\ \A i \in DOMAIN spec.items : ItemBytes(spec.items[i]) <= Limits.itemBytes
            /\ MapThenSumSet(LAMBDA i : ItemBytes(spec.items[i]), DOMAIN spec.items)
                  <= Limits.totalBytes

Quiet ==
    /\ \A c \in Clients : clients[c].pc = "idle"
    /\ \A r \in ResponseIds : Known(r) => records[r].step = "done"

\* A create that takes the marker and is then refused, overloaded or answered
\* with the response its key already stands for gives it back: when nothing is
\* going on any more, no conversation is locked.
ConversationsAreFreed == Quiet => \A v \in ConversationIds : convs[v].marker = None

\* INV-41, as far as the code keeps it: the bounds are checked on a snapshot
\* read before the marker is taken, so turns that overlap pass a check that
\* does not see them; turns that follow one another keep the conversation and
\* the context each run is given within the depth.
SequentialTurnsStayInBounds ==
    \A v \in ConversationIds : ~convs[v].overlapped =>
        /\ convs[v].context.turns <= Chain.depth
        /\ \A r \in ResponseIds :
              Known(r) /\ records[r].spec.anchor = [kind |-> "conversation", id |-> v] =>
                  records[r].turns < Chain.depth

\* How a turn is shown.  The reasoning of a turn without output is not kept.
Shown(r) ==
    LET record == records[r]
    IN  [i \in 1..Len(record.spec.items) |-> Said(record.spec.items[i])]
        \o (IF record.reasoning = None \/ record.output = <<>> THEN <<>> ELSE <<Thought>>)
        \o [i \in 1..Len(record.output) |-> Said(record.output[i])]

\* The transcript of a conversation shows every archived turn whole and in one
\* piece, thoughts included, and nothing else.
TranscriptIsComplete ==
    \A v \in ConversationIds :
        LET archived == {r \in ResponseIds :
                            /\ Known(r) /\ records[r].spec.anchor = [kind |-> "conversation",
                                                                    id |-> v]
                            /\ records[r].spec.store
                            /\ records[r].step \in {"release", "done"}}
            transcript == Transcript(convs[v].context)
        IN  /\ Len(transcript) = MapThenSumSet(LAMBDA r : Len(Shown(r)), archived)
            /\ \A r \in archived : \E k \in 0..Len(transcript) - Len(Shown(r)) :
                  SubSeq(transcript, k + 1, k + Len(Shown(r))) = Shown(r)
=============================================================================

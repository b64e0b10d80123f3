------------------------- MODULE ConversationStore -------------------------
(***************************************************************************)
(* The conversation store: container, turn marker, event stream and        *)
(* materialised snapshot (verify/mock/server/src/conversation.rs over      *)
(* store.rs).  Every method is one critical section, so one action; the    *)
(* answers its callers tell apart are the *Outcome operators, and a method *)
(* that answers with an error writes nothing.                              *)
(*                                                                         *)
(* An event's sequence number is its position in the stream less one.      *)
(***************************************************************************)
EXTENDS Shared, Integers, Sequences, FiniteSets

CONSTANTS
    Conversations,      \* conversation ids, each minted once
    Outputs,            \* what a turn may have produced
    MaxConversations,   \* max_conversations
    MaxEvents           \* max_events_per_conversation

ASSUME ConversationConstants ==
    /\ None \notin Conversations
    /\ MaxConversations \in Nat \ {0} /\ MaxEvents \in Nat \ {0}

VARIABLES
    convs,          \* id -> conversation with its event stream and snapshot
    unavailable     \* the store cannot be reached

convVars == <<convs, unavailable>>

NoConv ==
    [live |-> FALSE, tenant |-> None, active |-> None, tail |-> None,
     events |-> <<>>, lockSeq |-> -1, completed |-> None, turns |-> <<>>]

Event(kind, r) == [kind |-> kind, response |-> r]
EventKinds == {"turn_started", "turn_completed", "response_deleted", "business"}
Turn(r, output) == [response |-> r, output |-> output]

Conv ==
    [live      : BOOLEAN,
     tenant    : Tenants \cup {None},
     active    : Responses \cup {None},
     tail      : Responses \cup {None},
     events    : Seq([kind : EventKinds, response : Responses \cup {None}]),
     lockSeq   : Nat \cup {-1},
     completed : Responses \cup {None},
     turns     : Seq([response : Responses, output : Outputs])]

ConvInit == convs = [c \in Conversations |-> NoConv] /\ unavailable = FALSE

\* A conversation of another tenant reads as absent.
Owned(c, tenant) == convs[c].live /\ convs[c].tenant = tenant
Writable == ~unavailable /\ ~readOnly
ConvCount == Cardinality({c \in Conversations : convs[c].live})

Full(c) == Len(convs[c].events) >= MaxEvents

\* Mutant: the number is allocated before the lock, so an event is overwritten.
AnnouncedTwice(conv, kind, r) ==
    [conv EXCEPT !.events = IF @ = <<>> THEN <<Event(kind, r)>>
                            ELSE [@ EXCEPT ![Len(@)] = Event(kind, r)]]

Announced(conv, kind, r) == [conv EXCEPT !.events = Append(@, Event(kind, r))]

\* The failures every write method starts with.
Refusal == IF unavailable THEN "unavailable" ELSE "read_only"

----------------------------------------------------------------------------
(* Containers.                                                             *)

ConvCreate(c, tenant) ==
    /\ Writable /\ ~convs[c].live /\ ConvCount < MaxConversations
    /\ convs' = [convs EXCEPT ![c] = [NoConv EXCEPT !.live = TRUE, !.tenant = tenant]]
    /\ UNCHANGED unavailable

\* The stream and the snapshot go with the container.
ConvDelete(c, tenant) ==
    /\ Writable /\ Owned(c, tenant)
    /\ convs' = [convs EXCEPT ![c] = NoConv]
    /\ UNCHANGED unavailable

ConvDeleteByTenant(tenant) ==
    /\ Writable
    /\ convs' = [c \in Conversations |-> IF Owned(c, tenant) THEN NoConv ELSE convs[c]]
    /\ UNCHANGED unavailable

SetUnavailable(enabled) == unavailable' = enabled /\ UNCHANGED convs

----------------------------------------------------------------------------
(* Snapshot.                                                               *)

SnapshotReadable(c, tenant) == ~unavailable /\ Owned(c, tenant)

Archived(conv, r) == \E i \in 1..Len(conv.turns) : conv.turns[i].response = r

TurnOutcome(c, tenant) ==
    CASE ~Writable -> Refusal
      [] Writable /\ ~Owned(c, tenant) -> "not_found"
      [] OTHER -> "ok"

\* Mutant: the second funnel to arrive appends again.
ArchivedAgain(conv, r, output) == [conv EXCEPT !.turns = Append(@, Turn(r, output))]

\* append_turn is idempotent per response: the first funnel's items stay.
WithTurn(conv, r, output) ==
    IF Archived(conv, r) THEN conv
    ELSE [conv EXCEPT !.turns = Append(@, Turn(r, output))]

AppendTurn(c, tenant, r, output) ==
    /\ TurnOutcome(c, tenant) = "ok"
    /\ convs' = [convs EXCEPT ![c] = WithTurn(@, r, output)]
    /\ UNCHANGED unavailable

\* The last write wins: there is no comparison with the previous tail.
Advance(c, tenant, r) ==
    /\ TurnOutcome(c, tenant) = "ok"
    /\ convs' = [convs EXCEPT ![c].tail = r]
    /\ UNCHANGED unavailable

----------------------------------------------------------------------------
(* The turn marker.                                                        *)

\* Mutant: the marker is handed over without asking who holds it.
AcquireOutcomeUnlocked(c, tenant, r) ==
    CASE ~Writable -> Refusal
      [] Writable /\ ~Owned(c, tenant) -> "not_found"
      [] OTHER -> IF Full(c) THEN "capacity_exceeded" ELSE "acquired"

AcquireOutcome(c, tenant, r) ==
    CASE ~Writable -> Refusal
      [] Writable /\ ~Owned(c, tenant) -> "not_found"
      [] OTHER -> IF convs[c].active = r THEN "reentrant"
                  ELSE IF convs[c].active # None THEN "busy"
                  ELSE IF Full(c) THEN "capacity_exceeded"
                  ELSE "acquired"

\* Mutant: the announcement is left to the caller.
HeldSilently(conv, r) == [conv EXCEPT !.active = r, !.lockSeq = Len(conv.events)]

\* The marker and its announcement are one step (INV-58).
Held(conv, r) ==
    [Announced(conv, "turn_started", r) EXCEPT
        !.active = r, !.lockSeq = Len(conv.events)]

AcquireActive(c, tenant, r) ==
    /\ AcquireOutcome(c, tenant, r) = "acquired"
    /\ convs' = [convs EXCEPT ![c] = Held(@, r)]
    /\ UNCHANGED unavailable

\* Mutant: whoever releases clears the marker.
ReleaseOutcomeUnconditional(c, tenant, r) ==
    CASE ~Writable -> Refusal
      [] Writable /\ (~Owned(c, tenant) \/ convs[c].active = None) -> "not_held"
      [] OTHER -> IF Full(c) THEN "capacity_exceeded" ELSE "released"

ReleaseOutcome(c, tenant, r) ==
    CASE ~Writable -> Refusal
      [] Writable /\ (~Owned(c, tenant) \/ convs[c].active # r) -> "not_held"
      [] OTHER -> IF convs[c].completed = r THEN "already"
                  ELSE IF Full(c) THEN "capacity_exceeded"
                  ELSE "released"

Freed(conv, r) ==
    [Announced(conv, "turn_completed", r) EXCEPT !.active = None, !.completed = r]

ReleaseActive(c, tenant, r) ==
    /\ ReleaseOutcome(c, tenant, r) = "released"
    /\ convs' = [convs EXCEPT ![c] = Freed(@, r)]
    /\ UNCHANGED unavailable

StaleHolder(c, tenant, holder) == Owned(c, tenant) /\ convs[c].active = holder

\* Taking over a residual marker frees it and announces nothing.
ReleaseStale(c, tenant, holder) ==
    /\ Writable /\ StaleHolder(c, tenant, holder)
    /\ convs' = [convs EXCEPT ![c].active = None]
    /\ UNCHANGED unavailable

----------------------------------------------------------------------------
\* The other events of the stream.
AppendEvent(c, tenant, kind, r) ==
    /\ Writable /\ Owned(c, tenant) /\ ~Full(c)
    /\ convs' = [convs EXCEPT ![c] = Announced(@, kind, r)]
    /\ UNCHANGED unavailable
=============================================================================

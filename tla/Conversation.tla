---------------------------- MODULE Conversation ----------------------------
(***************************************************************************)
(* The conversation store under arbitrary callers: gateways, execution     *)
(* processes and sweepers of several peers call its methods in any order,  *)
(* terminal paths of one response race each other and repeat themselves,   *)
(* and markers are taken over at any time.                                 *)
(***************************************************************************)
EXTENDS ConversationStore

VARIABLES
    opened,     \* conversation ids ConversationId::new has produced
    begun,      \* responses that took a marker; create mints a fresh id per call
    takenOver   \* history: responses whose marker release_stale_active cleared

vars == <<convVars, readOnly, opened, begun, takenOver>>
history == <<opened, begun, takenOver>>

Init ==
    /\ ConvInit /\ readOnly = FALSE
    /\ opened = {} /\ begun = {} /\ takenOver = {}

----------------------------------------------------------------------------
Create(c, tenant) ==
    /\ c \notin opened
    /\ ConvCreate(c, tenant)
    /\ opened' = opened \cup {c}
    /\ UNCHANGED <<readOnly, begun, takenOver>>

Delete(c, tenant) == ConvDelete(c, tenant) /\ UNCHANGED <<readOnly, history>>

DeleteByTenant(tenant) == ConvDeleteByTenant(tenant) /\ UNCHANGED <<readOnly, history>>

Acquire(c, tenant, r) ==
    /\ r \notin begun
    /\ AcquireActive(c, tenant, r)
    /\ begun' = begun \cup {r}
    /\ UNCHANGED <<readOnly, opened, takenOver>>

Release(c, tenant, r) == ReleaseActive(c, tenant, r) /\ UNCHANGED <<readOnly, history>>

TakeOver(c, tenant, holder) ==
    /\ ReleaseStale(c, tenant, holder)
    /\ takenOver' = takenOver \cup {convs[c].active}
    /\ UNCHANGED <<readOnly, opened, begun>>

Archive(c, tenant, r, output) ==
    AppendTurn(c, tenant, r, output) /\ UNCHANGED <<readOnly, history>>

AdvanceTail(c, tenant, r) == Advance(c, tenant, r) /\ UNCHANGED <<readOnly, history>>

Announce(c, tenant, kind, r) ==
    AppendEvent(c, tenant, kind, r) /\ UNCHANGED <<readOnly, history>>

Degrade ==
    /\ \/ \E enabled \in BOOLEAN : SetUnavailable(enabled) /\ UNCHANGED readOnly
       \/ readOnly' = ~readOnly /\ UNCHANGED convVars
    /\ UNCHANGED history

Next ==
    \/ \E c \in Conversations, tenant \in Tenants :
          \/ Create(c, tenant) \/ Delete(c, tenant)
          \/ \E r \in Responses :
                \/ Acquire(c, tenant, r) \/ Release(c, tenant, r) \/ TakeOver(c, tenant, r)
                \/ AdvanceTail(c, tenant, r)
                \/ \E output \in Outputs : Archive(c, tenant, r, output)
                \/ Announce(c, tenant, "response_deleted", r)
          \/ Announce(c, tenant, "business", None)
    \/ \E tenant \in Tenants : DeleteByTenant(tenant)
    \/ Degrade

Spec == Init /\ [][Next]_vars

----------------------------------------------------------------------------
(* What the conversation store promises.                                   *)

TypeOK ==
    /\ convs \in [Conversations -> Conv]
    /\ \A c \in Conversations : Len(convs[c].events) <= MaxEvents
    /\ unavailable \in BOOLEAN /\ readOnly \in BOOLEAN
    /\ opened \subseteq Conversations
    /\ begun \subseteq Responses /\ takenOver \subseteq Responses

IsBoundary(e) == e.kind \in {"turn_started", "turn_completed"}

\* INV-58: a held marker and the stream agree.  The turn boundary announced
\* last is the holder's turn_started, at the number re-entrant callers are
\* given, so no client sees an idle conversation that is busy.
MarkerIsAnnounced ==
    \A c \in Conversations :
        LET v == convs[c]
        IN  v.active # None =>
              /\ v.lockSeq \in 0..(Len(v.events) - 1)
              /\ v.events[v.lockSeq + 1] = Event("turn_started", v.active)
              /\ \A i \in (v.lockSeq + 2)..Len(v.events) : ~IsBoundary(v.events[i])

\* The turns a client sees on the stream never overlap: a turn_completed ends
\* the turn of the boundary right before it, of the same response, and ends it
\* once, whichever of several racing terminal paths reported it.
TurnsDoNotOverlap ==
    \A c \in Conversations :
        LET events == convs[c].events
        IN  \A j \in 1..Len(events) :
              events[j].kind = "turn_completed" =>
                \E i \in 1..(j - 1) :
                    /\ events[i] = Event("turn_started", events[j].response)
                    /\ \A k \in (i + 1)..(j - 1) : ~IsBoundary(events[k])

\* A started turn is eventually accounted for on the stream: it is completed,
\* still holds the marker, or is one whose marker was taken over.  In
\* particular a release cannot clear the marker of a turn that followed.
StartedTurnsAreAccountedFor ==
    \A c \in Conversations :
        LET v == convs[c]
        IN  \A i \in 1..Len(v.events) :
              v.events[i].kind = "turn_started" =>
                LET r == v.events[i].response
                IN  \/ v.active = r
                    \/ r \in takenOver
                    \/ \E j \in (i + 1)..Len(v.events) :
                          v.events[j] = Event("turn_completed", r)

\* The two terminal funnels of a turn archive it once (D30).
TurnsArchivedOnce ==
    \A c \in Conversations :
        LET turns == convs[c].turns
        IN  \A i, j \in 1..Len(turns) :
              turns[i].response = turns[j].response => i = j

Extends(new, old) == Len(old) <= Len(new) /\ SubSeq(new, 1, Len(old)) = old

\* INV-59 and D30: neither the stream nor the snapshot of a conversation loses
\* or rewrites anything, even at their bounds, until the conversation goes.
KeepsHistory(c) ==
    convs[c].live =>
        \/ ~convs'[c].live
        \/ /\ Extends(convs'[c].events, convs[c].events)
           /\ Extends(convs'[c].turns, convs[c].turns)

HistoryIsAppendOnly == [][\A c \in Conversations : KeepsHistory(c)]_vars
=============================================================================

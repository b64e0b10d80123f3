---------------------------- MODULE LifecycleInv ----------------------------
(***************************************************************************)
(* The inductive invariants behind the promises of the composition.        *)
(***************************************************************************)
EXTENDS LifecycleProps

----------------------------------------------------------------------------
(* Types.                                                                  *)

\* Where a create is before it reached the ledger, and after.
Asking == {"resolve", "acquire", "reacquire", "busy", "takeover", "admit"}
Answered == {"announce", "giveback", "accepted", "refused", "dead"}

\* A run before the ledger took its end, and after.
Working == {"announce", "announcing", "context", "run", "emitting", "complete", "fail"}
Settling == {"archive", "advance", "release", "terminal", "close"}

CleanerSteps == {"read", "replay", "archive", "release", "terminal", "close"}

Creators == [pc : Asking \cup Answered, holder : Responses \cup {None}]
Engines == [pc : Working \cup Settling \cup {"idle", "done", "dead"},
            emitted : 0..MaxDeltas, status : TerminalBodies, committed : BOOLEAN,
            age : 0..TombstoneAfter]
Cleaners == [pc : CleanerSteps \cup {"idle", "done", "dead"}, kind : {"cancel", "reap"},
             output : Nat, age : 0..TombstoneAfter]
Deleters == {"idle", "remove", "removeagain", "announce", "done", "dead"}

\* A conversation whose turns carry a number of deltas.
CountedConv ==
    [live      : BOOLEAN,
     tenant    : Tenants \cup {None},
     active    : Responses \cup {None},
     tail      : Responses \cup {None},
     events    : Seq([kind : EventKinds, response : Responses \cup {None}]),
     lockSeq   : Nat \cup {-1},
     completed : Responses \cup {None},
     turns     : Seq([response : Responses, output : Nat])]

\* The types of the composed state.
TypeOK ==
    /\ records \in [Responses -> Record]
    /\ queued \in Seq(Responses)
    /\ idem \in [Keys -> Responses \cup {None}]
    /\ readOnly \in BOOLEAN /\ unavailable = FALSE
    /\ logs \in [Responses -> Log]
    /\ convs \in [Conversations -> CountedConv]
    /\ creator \in [Responses -> Creators]
    /\ engine \in [Responses -> Engines]
    /\ cleaner \in [Responses -> Cleaners]
    /\ \A r \in Responses :
          /\ creator[r].pc \in {"acquire", "reacquire", "busy", "takeover"} => HasConv(r)
          /\ cleaner[r].kind = "reap" => cleaner[r].pc # "read"
    /\ deleter \in [Responses -> Deleters]
    /\ crashes \in Nat

----------------------------------------------------------------------------
(* Who acts on a record.                                                   *)

\* The id was admitted, if not still on record.
Minted(r) == idem[KeyOf[r]] = r

\* The ledger knows a response before anybody else does, and a response waits
\* only until its first run.
LedgerLink(r) ==
    /\ Exists(r) => Minted(r)
    /\ Started(r) => Minted(r)
    /\ creator[r].pc \in Asking => ~Minted(r)
    /\ records[r].status = "queued" => ~Started(r) /\ records[r].attempt = 0
    /\ records[r].status = "in_progress" => records[r].attempt = 1

\* A key names the response that was asked for with it.
KeysPair == \A k \in Keys : idem[k] # None => KeyOf[idem[k]] = k

\* The run is over in the ledger, for good.
Ended(r) == Minted(r) /\ records[r].status \notin InFlight

WithReply == {"completed", "incomplete"}

\* The completion, the cancel and the sweeper exclude each other: whoever
\* moved the record is the only one to settle the response.
OneSettles(r) ==
    /\ engine[r].pc \in Settling =>
          /\ Ended(r) /\ cleaner[r].pc = "idle"
          /\ records[r].status \in {engine[r].status, "none"}
    /\ cleaner[r].pc # "idle" =>
          Ended(r) /\ records[r].status \in {"failed", "cancelled", "none"}
    /\ records[r].status \in WithReply => engine[r].pc \in Settling \cup {"done", "dead"}
    /\ engine[r].pc \in {"archive", "advance"} => Archivable(r)
    /\ cleaner[r].pc \in {"replay", "archive"} => Archivable(r)

----------------------------------------------------------------------------
(* What the subscribers were told.                                         *)

Tells(log, body) ==
    /\ body \in TerminalBodies
    /\ \E i \in 1..Len(log.ring) : log.ring[i].body = body

EndsOnce(log) ==
    \A i, j \in 1..Len(log.ring) :
        log.ring[i].body \in TerminalBodies /\ log.ring[j].body \in TerminalBodies => i = j

\* The end is still to be told.
RunWillTell(r) == engine[r].pc \in Settling \ {"close"}
CleanerWillTell(r) ==
    \/ cleaner[r].pc = "terminal"
    \/ cleaner[r].kind = "cancel" /\ cleaner[r].pc \in {"read", "replay", "archive", "release"}

Agrees(r, body) ==
    Exists(r) => IF body = "failed" THEN records[r].status \in {"failed", "cancelled"}
                 ELSE records[r].status = body

\* Once the end was told nobody is left to tell another one.
StreamSound(r) ==
    /\ EndsOnce(logs[r])
    /\ \A body \in TerminalBodies :
          Tells(logs[r], body) =>
              Ended(r) /\ ~RunWillTell(r) /\ ~CleanerWillTell(r) /\ Agrees(r, body)

----------------------------------------------------------------------------
(* What the conversations hold.                                            *)

\* A turn is archived once its response ended, with the output of its own run
\* when that had a reply.
TurnSound(c, turn) ==
    LET r == turn.response
    IN  /\ ConvOf[r] = c /\ Ended(r)
        /\ records[r].status \in WithReply => turn.output = engine[r].emitted

TurnsSound(c) == \A i \in 1..Len(convs[c].turns) : TurnSound(c, convs[c].turns[i])

Stays(r) == HasConv(r) /\ convs[ConvOf[r]].live => Archived(convs[ConvOf[r]], r)

\* The tail moves to a turn that is archived and had a reply.
AdvanceSound(r) ==
    engine[r].pc = "advance" => engine[r].status \in WithReply /\ Stays(r)

TailSound(c) ==
    LET tail == convs[c].tail
    IN  tail # None =>
          /\ Archived(convs[c], tail) /\ Minted(tail)
          /\ records[tail].status \in WithReply \cup {"none"}

ResponseSound(r) ==
    LedgerLink(r) /\ OneSettles(r) /\ StreamSound(r) /\ AdvanceSound(r)

\* The inductive invariant of the composition.
LifecycleInvariant ==
    /\ TypeOK /\ KeysPair
    /\ \A r \in Responses : ResponseSound(r)
    /\ \A c \in Conversations : TurnsSound(c) /\ TailSound(c)

----------------------------------------------------------------------------
(* What the announcements mean, as long as no write is refused.            *)

\* The store is never degraded and has a buffer for every response.
Steady == ~Degradable /\ IsFiniteSet(Responses) /\ Cardinality(Responses) <= MaxLogs

\* Nothing is left to be archived.
Settled(r) ==
    /\ records[r].status \notin InFlight
    /\ Archivable(r) /\ records[r].status \in WithReply => Stays(r)

AnnouncementSound(r) ==
    /\ engine[r].pc \in Settling \ {"archive"} => Settled(r)
    /\ logs[r].closedFor # -1 \/ logs[r].swept => Ended(r) /\ Settled(r)
    /\ creator[r].pc = "giveback" => Settled(r)
    /\ HasConv(r) /\ TurnOver(r) =>
          creator[r].pc \notin Asking /\ Settled(r) /\ convs[ConvOf[r]].live

\* Nobody but the owner has a conversation.
OwnersKept == \A c \in Conversations : convs[c].live => convs[c].tenant = Owner

SteadyInvariant ==
    ~readOnly /\ OwnersKept /\ \A r \in Responses : AnnouncementSound(r)
=============================================================================

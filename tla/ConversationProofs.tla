------------------------- MODULE ConversationProofs -------------------------
(***************************************************************************)
(* Theorems of the conversation store, for every set of conversations,     *)
(* responses, tenants and outputs, and every bound.                        *)
(*                                                                         *)
(* No method of the store reads a second conversation, so the invariant is *)
(* one of a single conversation, and each lemma below is about what one    *)
(* method makes of one conversation.                                       *)
(***************************************************************************)
EXTENDS Conversation, TLAPS

\* The marker agrees with the stream.
MarkerMatches(v) ==
    v.active # None =>
        /\ v.lockSeq \in 0..(Len(v.events) - 1)
        /\ v.events[v.lockSeq + 1] = Event("turn_started", v.active)
        /\ \A i \in (v.lockSeq + 2)..Len(v.events) : ~IsBoundary(v.events[i])

\* A completion closes the boundary before it.
CompletionsClose(v) ==
    \A j \in 1..Len(v.events) :
        v.events[j].kind = "turn_completed" =>
            \E i \in 1..(j - 1) :
                /\ v.events[i] = Event("turn_started", v.events[j].response)
                /\ \A k \in (i + 1)..(j - 1) : ~IsBoundary(v.events[k])

\* A start is held, given up or completed; unlike the store's other events it
\* always names a response, so that an empty marker is nobody's.
StartsAreAccountedFor(v, gone) ==
    \A i \in 1..Len(v.events) :
        v.events[i].kind = "turn_started" =>
            /\ v.events[i].response # None
            /\ \/ v.active = v.events[i].response
               \/ v.events[i].response \in gone
               \/ \E j \in (i + 1)..Len(v.events) :
                     v.events[j] = Event("turn_completed", v.events[i].response)

TurnsAreDistinct(v) ==
    \A i, j \in 1..Len(v.turns) : v.turns[i].response = v.turns[j].response => i = j

Sound(v, gone) ==
    /\ v \in Conv /\ Len(v.events) <= MaxEvents
    /\ MarkerMatches(v) /\ CompletionsClose(v) /\ StartsAreAccountedFor(v, gone)
    /\ TurnsAreDistinct(v)

\* The inductive invariant: every conversation is sound, whoever called.
ConversationInvariant ==
    /\ convs \in [Conversations -> Conv]
    /\ \A c \in Conversations : Sound(convs[c], takenOver)
    /\ unavailable \in BOOLEAN /\ readOnly \in BOOLEAN
    /\ opened \subseteq Conversations
    /\ begun \subseteq Responses /\ takenOver \subseteq Responses

----------------------------------------------------------------------------
(* What a method makes of a conversation.                                  *)

\* A conversation's fields, where a proof needs no more of it.
LEMMA ConvFields ==
    ASSUME NEW v \in Conv
    PROVE  /\ v.events \in Seq([kind : EventKinds, response : Responses \cup {None}])
           /\ v.turns \in Seq([response : Responses, output : Outputs])
           /\ Len(v.events) \in Nat /\ Len(v.turns) \in Nat
           /\ v.lockSeq \in Int /\ v.active \in Responses \cup {None}
BY DEF Conv

\* The stream after one more event.
LEMMA AppendFacts ==
    ASSUME NEW S, NEW s \in Seq(S), NEW e \in S
    PROVE  /\ Append(s, e) \in Seq(S)
           /\ Len(s) \in Nat /\ Len(Append(s, e)) = Len(s) + 1
           /\ Append(s, e)[Len(s) + 1] = e
           /\ \A i \in 1..Len(s) : Append(s, e)[i] = s[i]
           /\ Extends(Append(s, e), s)
<1>1. Len(s) \in Nat /\ Len(Append(s, e)) = Len(s) + 1 OBVIOUS
<1>2. \A i \in 1..Len(s) : Append(s, e)[i] = s[i] OBVIOUS
<1>3. SubSeq(Append(s, e), 1, Len(s)) = s OBVIOUS
<1> QED BY <1>1, <1>2, <1>3 DEF Extends

LEMMA SameExtends ==
    ASSUME NEW S, NEW s \in Seq(S)
    PROVE  Extends(s, s)
<1>1. Len(s) \in Nat OBVIOUS
<1>2. SubSeq(s, 1, Len(s)) = s OBVIOUS
<1> QED BY <1>1, <1>2 DEF Extends

\* A conversation that does not exist, and one just created, are sound.
LEMMA EmptyIsSound ==
    ASSUME NEW gone, NEW v, v.events = <<>>, v.turns = <<>>, v.active = None, v \in Conv
    PROVE  Sound(v, gone)
BY ConversationConstants
   DEF Sound, MarkerMatches, CompletionsClose, StartsAreAccountedFor, TurnsAreDistinct

LEMMA NoConvIsSound == ASSUME NEW gone PROVE Sound(NoConv, gone)
<1>1. NoConv \in Conv BY DEF NoConv, Conv
<1> QED BY <1>1, EmptyIsSound DEF NoConv

LEMMA CreatedIsSound ==
    ASSUME NEW gone, NEW tenant \in Tenants
    PROVE  Sound([NoConv EXCEPT !.live = TRUE, !.tenant = tenant], gone)
<1> DEFINE v == [NoConv EXCEPT !.live = TRUE, !.tenant = tenant]
<1>0. NoConv \in Conv BY DEF NoConv, Conv
<1>1. v \in Conv BY <1>0 DEF Conv
<1>2. v.events = <<>> /\ v.turns = <<>> /\ v.active = None BY DEF NoConv
<1> HIDE DEF v
<1> QED BY <1>1, <1>2, EmptyIsSound DEF v

\* Announcing an event: the fields that change and the ones that do not.
LEMMA AnnouncedFields ==
    ASSUME NEW v \in Conv, NEW kind \in EventKinds, NEW r \in Responses \cup {None}
    PROVE  /\ Announced(v, kind, r) \in Conv
           /\ Announced(v, kind, r).events = Append(v.events, Event(kind, r))
           /\ Event(kind, r) \in [kind : EventKinds, response : Responses \cup {None}]
           /\ Announced(v, kind, r).active = v.active
           /\ Announced(v, kind, r).lockSeq = v.lockSeq
           /\ Announced(v, kind, r).turns = v.turns
           /\ Announced(v, kind, r).live = v.live
<1>1. Event(kind, r) \in [kind : EventKinds, response : Responses \cup {None}]
  BY DEF Event
<1>2. Append(v.events, Event(kind, r)) \in
          Seq([kind : EventKinds, response : Responses \cup {None}])
  BY <1>1, ConvFields, AppendFacts
<1>3. Announced(v, kind, r) \in Conv
  BY <1>2 DEF Announced, Conv
<1> QED BY <1>1, <1>3 DEF Announced, Conv

\* The stream after an announcement, event by event.
LEMMA AnnouncedEvents ==
    ASSUME NEW v \in Conv, NEW kind \in EventKinds, NEW r \in Responses \cup {None},
           NEW w, w.events = Append(v.events, Event(kind, r))
    PROVE  /\ Len(v.events) \in Nat /\ Len(w.events) = Len(v.events) + 1
           /\ w.events[Len(v.events) + 1] = Event(kind, r)
           /\ Event(kind, r).kind = kind /\ Event(kind, r).response = r
           /\ \A i \in 1..Len(v.events) : w.events[i] = v.events[i]
           /\ \A i \in 1..Len(w.events) : i \in 1..Len(v.events) \/ i = Len(v.events) + 1
<1>1. Event(kind, r) \in [kind : EventKinds, response : Responses \cup {None}]
  BY AnnouncedFields
<1>2. v.events \in Seq([kind : EventKinds, response : Responses \cup {None}])
  BY ConvFields
<1> DEFINE S == [kind : EventKinds, response : Responses \cup {None}]
           s == v.events
           e == Event(kind, r)
<1>a. s \in Seq(S) /\ e \in S /\ w.events = Append(s, e) BY <1>1, <1>2
<1> HIDE DEF S, s, e
<1>b. /\ Len(s) \in Nat /\ Len(w.events) = Len(s) + 1
      /\ w.events[Len(s) + 1] = e
      /\ \A i \in 1..Len(s) : w.events[i] = s[i]
  BY <1>a, AppendFacts
<1>3. /\ Len(v.events) \in Nat /\ Len(w.events) = Len(v.events) + 1
      /\ w.events[Len(v.events) + 1] = Event(kind, r)
      /\ \A i \in 1..Len(v.events) : w.events[i] = v.events[i]
  BY <1>b DEF s, e
<1> QED BY <1>3 DEF Event

LEMMA StreamExtends ==
    ASSUME NEW v \in Conv, NEW kind \in EventKinds, NEW r \in Responses \cup {None}
    PROVE  Extends(Append(v.events, Event(kind, r)), v.events)
<1> DEFINE S == [kind : EventKinds, response : Responses \cup {None}]
<1>1. Event(kind, r) \in S /\ v.events \in Seq(S) BY ConvFields DEF Event
<1> HIDE DEF S
<1> QED BY <1>1, AppendFacts

\* An event that is no turn boundary leaves every turn as it was.
LEMMA AnnouncedIsSound ==
    ASSUME NEW gone, NEW v, Sound(v, gone), Len(v.events) < MaxEvents,
           NEW kind \in {"response_deleted", "business"}, NEW r \in Responses \cup {None}
    PROVE  Sound(Announced(v, kind, r), gone)
<1> DEFINE w == Announced(v, kind, r)
           n == Len(v.events)
<1>0. v \in Conv /\ kind \in EventKinds BY DEF Sound, EventKinds
<1>1. /\ w \in Conv /\ w.events = Append(v.events, Event(kind, r))
      /\ w.active = v.active /\ w.lockSeq = v.lockSeq /\ w.turns = v.turns
  BY <1>0, AnnouncedFields
<1>t. v.lockSeq \in Int BY <1>0, ConvFields
<1> HIDE DEF w
<1>2. /\ n \in Nat /\ Len(w.events) = n + 1
      /\ w.events[n + 1].kind = kind
      /\ \A i \in 1..n : w.events[i] = v.events[i]
      /\ \A i \in 1..Len(w.events) : i \in 1..n \/ i = n + 1
  BY <1>0, <1>1, AnnouncedEvents
<1>3. ~IsBoundary(w.events[n + 1]) /\ w.events[n + 1].kind \notin {"turn_started", "turn_completed"}
  BY <1>2 DEF IsBoundary
<1> HIDE DEF n
<1>4. MarkerMatches(w)
  BY <1>1, <1>t, <1>2, <1>3 DEF Sound, MarkerMatches, n
<1>5. CompletionsClose(w)
  <2> SUFFICES ASSUME NEW j \in 1..Len(w.events), w.events[j].kind = "turn_completed"
               PROVE  \E i \in 1..(j - 1) :
                        /\ w.events[i] = Event("turn_started", w.events[j].response)
                        /\ \A k \in (i + 1)..(j - 1) : ~IsBoundary(w.events[k])
    BY DEF CompletionsClose
  <2>1. j \in 1..n /\ w.events[j] = v.events[j] BY <1>2, <1>3
  <2>2. PICK i \in 1..(j - 1) :
             /\ v.events[i] = Event("turn_started", v.events[j].response)
             /\ \A k \in (i + 1)..(j - 1) : ~IsBoundary(v.events[k])
    BY <2>1 DEF Sound, CompletionsClose, n
  <2>3. w.events[i] = v.events[i] /\ \A k \in (i + 1)..(j - 1) : w.events[k] = v.events[k]
    BY <1>2, <2>1
  <2> QED BY <2>1, <2>2, <2>3
<1>6. StartsAreAccountedFor(w, gone)
  <2> SUFFICES ASSUME NEW i \in 1..Len(w.events), w.events[i].kind = "turn_started"
               PROVE  /\ w.events[i].response # None
                      /\ \/ w.active = w.events[i].response
                         \/ w.events[i].response \in gone
                         \/ \E j \in (i + 1)..Len(w.events) :
                               w.events[j] = Event("turn_completed", w.events[i].response)
    BY DEF StartsAreAccountedFor
  <2>1. i \in 1..n /\ w.events[i] = v.events[i] BY <1>2, <1>3
  <2>2. \A j \in (i + 1)..n : j \in (i + 1)..Len(w.events) /\ w.events[j] = v.events[j]
    BY <1>2, <2>1
  <2> QED BY <1>1, <2>1, <2>2 DEF Sound, StartsAreAccountedFor, n
<1>7. TurnsAreDistinct(w) BY <1>1 DEF Sound, TurnsAreDistinct
<1>8. Len(w.events) <= MaxEvents
  BY <1>2, ConversationConstants DEF n
<1> QED BY <1>1, <1>4, <1>5, <1>6, <1>7, <1>8 DEF Sound, w

\* Taking the marker: nobody held it, so every earlier start was accounted for
\* without it, and the new one is announced where the marker says.
LEMMA HeldIsSound ==
    ASSUME NEW gone, NEW v, Sound(v, gone), Len(v.events) < MaxEvents,
           v.active = None, NEW r \in Responses
    PROVE  Sound(Held(v, r), gone)
<1> DEFINE w == Held(v, r)
           n == Len(v.events)
<1>0. v \in Conv /\ "turn_started" \in EventKinds BY DEF Sound, EventKinds
<1>a. n \in Nat BY <1>0, ConvFields
<1>1. /\ w \in Conv /\ w.events = Append(v.events, Event("turn_started", r))
      /\ w.active = r /\ w.lockSeq = n /\ w.turns = v.turns
  <2>1. /\ Announced(v, "turn_started", r) \in Conv
        /\ Announced(v, "turn_started", r).events = Append(v.events, Event("turn_started", r))
        /\ Announced(v, "turn_started", r).turns = v.turns
    BY <1>0, AnnouncedFields
  <2> QED BY <2>1, <1>a DEF Held, Conv
<1> HIDE DEF w
<1>2. /\ Len(w.events) = n + 1
      /\ w.events[n + 1] = Event("turn_started", r)
      /\ Event("turn_started", r).kind = "turn_started"
      /\ Event("turn_started", r).response = r
      /\ \A i \in 1..n : w.events[i] = v.events[i]
      /\ \A i \in 1..Len(w.events) : i \in 1..n \/ i = n + 1
  BY <1>0, <1>1, AnnouncedEvents
<1> HIDE DEF n
<1>4. MarkerMatches(w)
  BY <1>1, <1>2, <1>a DEF MarkerMatches
<1>5. CompletionsClose(w)
  <2> SUFFICES ASSUME NEW j \in 1..Len(w.events), w.events[j].kind = "turn_completed"
               PROVE  \E i \in 1..(j - 1) :
                        /\ w.events[i] = Event("turn_started", w.events[j].response)
                        /\ \A k \in (i + 1)..(j - 1) : ~IsBoundary(w.events[k])
    BY DEF CompletionsClose
  <2>1. j \in 1..n /\ w.events[j] = v.events[j] BY <1>2
  <2>2. PICK i \in 1..(j - 1) :
             /\ v.events[i] = Event("turn_started", v.events[j].response)
             /\ \A k \in (i + 1)..(j - 1) : ~IsBoundary(v.events[k])
    BY <2>1 DEF Sound, CompletionsClose, n
  <2>3. w.events[i] = v.events[i] /\ \A k \in (i + 1)..(j - 1) : w.events[k] = v.events[k]
    BY <1>2, <1>a, <2>1
  <2> QED BY <2>1, <2>2, <2>3
<1>6. StartsAreAccountedFor(w, gone)
  <2> SUFFICES ASSUME NEW i \in 1..Len(w.events), w.events[i].kind = "turn_started"
               PROVE  /\ w.events[i].response # None
                      /\ \/ w.active = w.events[i].response
                         \/ w.events[i].response \in gone
                         \/ \E j \in (i + 1)..Len(w.events) :
                               w.events[j] = Event("turn_completed", w.events[i].response)
    BY DEF StartsAreAccountedFor
  <2>1. CASE i = n + 1 BY <2>1, <1>1, <1>2, SharedConstants
  <2>2. CASE i \in 1..n
    <3>1. w.events[i] = v.events[i] BY <1>2, <2>2
    <3>2. \A j \in (i + 1)..n : j \in (i + 1)..Len(w.events) /\ w.events[j] = v.events[j]
      BY <1>2, <1>a, <2>2
    <3> QED BY <2>2, <3>1, <3>2 DEF Sound, StartsAreAccountedFor, n
  <2> QED BY <1>2, <2>1, <2>2
<1>7. TurnsAreDistinct(w) BY <1>1 DEF Sound, TurnsAreDistinct
<1>8. Len(w.events) <= MaxEvents
  BY <1>2, <1>a, ConversationConstants DEF n
<1> QED BY <1>1, <1>4, <1>5, <1>6, <1>7, <1>8 DEF Sound, w

\* Releasing the marker: the holder's start is the boundary announced last, so
\* its completion closes it, and accounts for every start of the holder.
LEMMA FreedIsSound ==
    ASSUME NEW gone, NEW v, Sound(v, gone), Len(v.events) < MaxEvents,
           NEW r \in Responses, v.active = r
    PROVE  Sound(Freed(v, r), gone)
<1> DEFINE w == Freed(v, r)
           n == Len(v.events)
<1>0. v \in Conv /\ "turn_completed" \in EventKinds BY DEF Sound, EventKinds
<1>a. n \in Nat BY <1>0, ConvFields
<1>1. /\ w \in Conv /\ w.events = Append(v.events, Event("turn_completed", r))
      /\ w.active = None /\ w.turns = v.turns
  <2>1. /\ Announced(v, "turn_completed", r) \in Conv
        /\ Announced(v, "turn_completed", r).events = Append(v.events, Event("turn_completed", r))
        /\ Announced(v, "turn_completed", r).turns = v.turns
    BY <1>0, AnnouncedFields
  <2> QED BY <2>1 DEF Freed, Conv
<1> HIDE DEF w
<1>2. /\ Len(w.events) = n + 1
      /\ w.events[n + 1] = Event("turn_completed", r)
      /\ Event("turn_completed", r).kind = "turn_completed"
      /\ Event("turn_completed", r).response = r
      /\ \A i \in 1..n : w.events[i] = v.events[i]
      /\ \A i \in 1..Len(w.events) : i \in 1..n \/ i = n + 1
  BY <1>0, <1>1, AnnouncedEvents
<1> HIDE DEF n
<1>4. MarkerMatches(w) BY <1>1 DEF MarkerMatches
<1>5. CompletionsClose(w)
  <2> SUFFICES ASSUME NEW j \in 1..Len(w.events), w.events[j].kind = "turn_completed"
               PROVE  \E i \in 1..(j - 1) :
                        /\ w.events[i] = Event("turn_started", w.events[j].response)
                        /\ \A k \in (i + 1)..(j - 1) : ~IsBoundary(w.events[k])
    BY DEF CompletionsClose
  <2>1. CASE j = n + 1
    <3>1. /\ v.lockSeq \in 0..(n - 1)
          /\ v.events[v.lockSeq + 1] = Event("turn_started", r)
          /\ \A i \in (v.lockSeq + 2)..n : ~IsBoundary(v.events[i])
      BY SharedConstants DEF Sound, MarkerMatches, n
    <3>2. \A k \in (v.lockSeq + 2)..n : ~IsBoundary(w.events[k])
      BY <1>2, <1>a, <3>1
    <3>3. v.lockSeq + 1 \in 1..(j - 1) /\ w.events[v.lockSeq + 1] = Event("turn_started", r)
      BY <1>2, <1>a, <2>1, <3>1
    <3>4. w.events[j].response = r BY <1>2, <2>1
    <3>5. (v.lockSeq + 1) + 1 = v.lockSeq + 2 /\ j - 1 = n BY <1>a, <2>1, <3>1
    <3> QED BY <3>2, <3>3, <3>4, <3>5
  <2>2. CASE j \in 1..n
    <3>1. w.events[j] = v.events[j] BY <1>2, <2>2
    <3>2. PICK i \in 1..(j - 1) :
               /\ v.events[i] = Event("turn_started", v.events[j].response)
               /\ \A k \in (i + 1)..(j - 1) : ~IsBoundary(v.events[k])
      BY <2>2, <3>1 DEF Sound, CompletionsClose, n
    <3>3. w.events[i] = v.events[i] /\ \A k \in (i + 1)..(j - 1) : w.events[k] = v.events[k]
      BY <1>2, <1>a, <2>2
    <3> QED BY <3>1, <3>2, <3>3
  <2> QED BY <1>2, <2>1, <2>2
<1>6. StartsAreAccountedFor(w, gone)
  <2> SUFFICES ASSUME NEW i \in 1..Len(w.events), w.events[i].kind = "turn_started"
               PROVE  /\ w.events[i].response # None
                      /\ \/ w.active = w.events[i].response
                         \/ w.events[i].response \in gone
                         \/ \E j \in (i + 1)..Len(w.events) :
                               w.events[j] = Event("turn_completed", w.events[i].response)
    BY DEF StartsAreAccountedFor
  <2>1. i \in 1..n /\ w.events[i] = v.events[i] BY <1>2
  <2>2. n + 1 \in (i + 1)..Len(w.events) BY <1>2, <1>a, <2>1
  <2>3. \A j \in (i + 1)..n : j \in (i + 1)..Len(w.events) /\ w.events[j] = v.events[j]
    BY <1>2, <1>a, <2>1
  <2>4. /\ v.events[i].response # None
        /\ \/ v.active = v.events[i].response
           \/ v.events[i].response \in gone
           \/ \E j \in (i + 1)..n : v.events[j] = Event("turn_completed", v.events[i].response)
    BY <2>1 DEF Sound, StartsAreAccountedFor, n
  <2>5. CASE v.active = v.events[i].response BY <1>2, <2>1, <2>2, <2>4, <2>5
  <2>6. CASE v.active # v.events[i].response BY <2>1, <2>3, <2>4, <2>6
  <2> QED BY <2>5, <2>6
<1>7. TurnsAreDistinct(w) BY <1>1 DEF Sound, TurnsAreDistinct
<1>8. Len(w.events) <= MaxEvents
  BY <1>2, <1>a, ConversationConstants DEF n
<1> QED BY <1>1, <1>4, <1>5, <1>6, <1>7, <1>8 DEF Sound, w

\* Clearing a residual marker: its holder joins the turns given up.
LEMMA ClearedIsSound ==
    ASSUME NEW gone, NEW v, Sound(v, gone)
    PROVE  Sound([v EXCEPT !.active = None], gone \cup {v.active})
<1> DEFINE w == [v EXCEPT !.active = None]
<1>1. /\ w \in Conv /\ w.active = None
      /\ w.events = v.events /\ w.turns = v.turns
  BY DEF Sound, Conv
<1> HIDE DEF w
<1>2. MarkerMatches(w) /\ CompletionsClose(w) /\ TurnsAreDistinct(w)
  BY <1>1 DEF Sound, MarkerMatches, CompletionsClose, TurnsAreDistinct
<1>3. StartsAreAccountedFor(w, gone \cup {v.active})
  BY <1>1 DEF Sound, StartsAreAccountedFor
<1> QED BY <1>1, <1>2, <1>3 DEF Sound, w

\* Archiving a turn: only if the response is not in the snapshot yet.
LEMMA WithTurnIsSound ==
    ASSUME NEW gone, NEW v, Sound(v, gone), NEW r \in Responses, NEW output \in Outputs
    PROVE  /\ Sound(WithTurn(v, r, output), gone)
           /\ WithTurn(v, r, output).events = v.events
           /\ Extends(WithTurn(v, r, output).turns, v.turns)
<1>0. v \in Conv BY DEF Sound
<1>1. CASE Archived(v, r)
  <2>1. WithTurn(v, r, output) = v BY <1>1 DEF WithTurn
  <2>2. Extends(v.turns, v.turns) BY <1>0, ConvFields, SameExtends
  <2> QED BY <2>1, <2>2
<1>2. CASE ~Archived(v, r)
  <2> DEFINE w == WithTurn(v, r, output)
             n == Len(v.turns)
             S == [response : Responses, output : Outputs]
             t == Turn(r, output)
             s == v.turns
  <2>1. t \in S /\ s \in Seq(S) /\ t.response = r BY <1>0, ConvFields DEF Turn
  <2>2. w = [v EXCEPT !.turns = Append(s, t)] BY <1>2 DEF WithTurn
  <2> HIDE DEF t, s, S
  <2>3. /\ Append(s, t) \in Seq(S)
        /\ Len(s) \in Nat /\ Len(Append(s, t)) = Len(s) + 1
        /\ Append(s, t)[Len(s) + 1] = t
        /\ \A i \in 1..Len(s) : Append(s, t)[i] = s[i]
        /\ Extends(Append(s, t), s)
    BY <2>1, AppendFacts
  <2>4. /\ w \in Conv /\ w.active = v.active /\ w.lockSeq = v.lockSeq
        /\ w.events = v.events /\ w.turns = Append(s, t)
    BY <1>0, <2>2, <2>3 DEF Conv, S
  <2> HIDE DEF w
  <2>5. TurnsAreDistinct(w)
    <3>1. \A i \in 1..Len(s) : s[i].response # r
      BY <1>2 DEF Archived, s
    <3>2. \A i, j \in 1..Len(s) : s[i].response = s[j].response => i = j
      BY DEF Sound, TurnsAreDistinct, s
    <3>3. \A i \in 1..Len(w.turns) : i \in 1..Len(s) \/ i = Len(s) + 1
      BY <2>3, <2>4
    <3> QED BY <2>1, <2>3, <2>4, <3>1, <3>2, <3>3 DEF TurnsAreDistinct
  <2>6. MarkerMatches(w) /\ CompletionsClose(w) /\ StartsAreAccountedFor(w, gone)
    BY <2>4 DEF Sound, MarkerMatches, CompletionsClose, StartsAreAccountedFor
  <2>7. Extends(w.turns, v.turns) BY <2>3, <2>4 DEF s
  <2> QED BY <2>4, <2>5, <2>6, <2>7 DEF Sound, w
<1> QED BY <1>1, <1>2

LEMMA AdvancedIsSound ==
    ASSUME NEW gone, NEW v, Sound(v, gone), NEW r \in Responses
    PROVE  Sound([v EXCEPT !.tail = r], gone)
<1> DEFINE w == [v EXCEPT !.tail = r]
<1>1. /\ w \in Conv /\ w.active = v.active /\ w.lockSeq = v.lockSeq
      /\ w.events = v.events /\ w.turns = v.turns
  BY DEF Sound, Conv
<1> HIDE DEF w
<1> QED BY <1>1 DEF Sound, MarkerMatches, CompletionsClose, StartsAreAccountedFor,
                    TurnsAreDistinct, w

\* A turn given up elsewhere changes nothing here.
LEMMA MoreGoneIsSound ==
    ASSUME NEW gone, NEW v, Sound(v, gone), NEW r
    PROVE  Sound(v, gone \cup {r})
BY DEF Sound, StartsAreAccountedFor

----------------------------------------------------------------------------
(* Steps.                                                                  *)

\* A conversation nobody touched, or one that is gone, has lost nothing.
LEMMA UntouchedKeepsHistory ==
    ASSUME ConversationInvariant, NEW c \in Conversations,
           convs'[c] = convs[c] \/ convs'[c] = NoConv
    PROVE  KeepsHistory(c)
<1>1. CASE convs'[c] = NoConv BY <1>1 DEF KeepsHistory, NoConv
<1>2. CASE convs'[c] = convs[c]
  <2>1. convs[c] \in Conv BY DEF ConversationInvariant
  <2>2. Extends(convs[c].events, convs[c].events) /\ Extends(convs[c].turns, convs[c].turns)
    BY <2>1, ConvFields, SameExtends
  <2> QED BY <1>2, <2>2 DEF KeepsHistory
<1> QED BY <1>1, <1>2

\* A call that writes one conversation: it is enough that what it wrote is
\* sound and extends what was there.
LEMMA OneConversationWritten ==
    ASSUME ConversationInvariant,
           NEW c \in Conversations, NEW w,
           convs' = [convs EXCEPT ![c] = w],
           Sound(w, takenOver),
           \/ w = NoConv \/ ~convs[c].live
           \/ Extends(w.events, convs[c].events) /\ Extends(w.turns, convs[c].turns),
           UNCHANGED <<unavailable, readOnly, takenOver>>,
           opened' \subseteq Conversations, begun' \subseteq Responses
    PROVE  ConversationInvariant' /\ \A d \in Conversations : KeepsHistory(d)
<1>1. w \in Conv /\ convs' \in [Conversations -> Conv]
  BY DEF ConversationInvariant, Sound
<1>2. convs'[c] = w /\ \A d \in Conversations : d # c => convs'[d] = convs[d]
  BY DEF ConversationInvariant
<1>3. ConversationInvariant'
  BY <1>1, <1>2 DEF ConversationInvariant
<1>4. \A d \in Conversations : KeepsHistory(d)
  <2>1. KeepsHistory(c) BY <1>2 DEF KeepsHistory, NoConv
  <2> QED BY <1>2, <2>1, UntouchedKeepsHistory
<1> QED BY <1>3, <1>4

\* The answers a method acts on, as facts about the state.
LEMMA AcquiredMeans ==
    ASSUME NEW c, NEW tenant, NEW r, AcquireOutcome(c, tenant, r) = "acquired"
    PROVE  convs[c].active = None /\ ~Full(c)
<1>1. Refusal # "acquired" BY DEF Refusal
<1> QED BY <1>1 DEF AcquireOutcome

LEMMA ReleasedMeans ==
    ASSUME NEW c, NEW tenant, NEW r, ReleaseOutcome(c, tenant, r) = "released"
    PROVE  convs[c].active = r /\ ~Full(c)
<1>1. Refusal # "released" BY DEF Refusal
<1> QED BY <1>1 DEF ReleaseOutcome

LEMMA RoomMeans ==
    ASSUME ConversationInvariant, NEW c \in Conversations, ~Full(c)
    PROVE  Len(convs[c].events) < MaxEvents
<1>1. convs[c] \in Conv BY DEF ConversationInvariant
<1>2. Len(convs[c].events) \in Nat BY <1>1, ConvFields
<1> QED BY <1>2, ConversationConstants DEF Full

LEMMA CreateIsSafe ==
    ASSUME ConversationInvariant, NEW c \in Conversations, NEW tenant \in Tenants,
           Create(c, tenant)
    PROVE  ConversationInvariant' /\ \A d \in Conversations : KeepsHistory(d)
<1>1. Sound([NoConv EXCEPT !.live = TRUE, !.tenant = tenant], takenOver)
  BY CreatedIsSound
<1>2. opened' \subseteq Conversations /\ begun' \subseteq Responses
  BY DEF Create, ConversationInvariant
<1> QED BY <1>1, <1>2, OneConversationWritten DEF Create, ConvCreate

LEMMA DeleteIsSafe ==
    ASSUME ConversationInvariant, NEW c \in Conversations, NEW tenant \in Tenants,
           Delete(c, tenant)
    PROVE  ConversationInvariant' /\ \A d \in Conversations : KeepsHistory(d)
<1>1. opened' \subseteq Conversations /\ begun' \subseteq Responses
  BY DEF Delete, ConversationInvariant, history
<1> QED BY <1>1, NoConvIsSound, OneConversationWritten DEF Delete, ConvDelete, history

LEMMA AcquireIsSafe ==
    ASSUME ConversationInvariant, NEW c \in Conversations, NEW tenant \in Tenants,
           NEW r \in Responses, Acquire(c, tenant, r)
    PROVE  ConversationInvariant' /\ \A d \in Conversations : KeepsHistory(d)
<1> DEFINE v == convs[c]
<1>1. v.active = None /\ Len(v.events) < MaxEvents
  BY AcquiredMeans, RoomMeans DEF Acquire, AcquireActive
<1>2. Sound(v, takenOver) /\ v \in Conv BY DEF ConversationInvariant
<1>3. Sound(Held(v, r), takenOver) BY <1>1, <1>2, HeldIsSound
<1>4. Extends(Held(v, r).events, v.events) /\ Extends(Held(v, r).turns, v.turns)
  <2>1. "turn_started" \in EventKinds BY DEF EventKinds
  <2>2. /\ Announced(v, "turn_started", r) \in Conv
        /\ Announced(v, "turn_started", r).events = Append(v.events, Event("turn_started", r))
        /\ Announced(v, "turn_started", r).turns = v.turns
    BY <1>2, <2>1, AnnouncedFields
  <2>3. /\ Held(v, r).events = Append(v.events, Event("turn_started", r))
        /\ Held(v, r).turns = v.turns
    BY <2>2 DEF Held, Conv
  <2>4. Extends(Held(v, r).events, v.events) BY <1>2, <2>1, <2>3, StreamExtends
  <2>5. Extends(v.turns, v.turns) BY <1>2, ConvFields, SameExtends
  <2> QED BY <2>3, <2>4, <2>5
<1>5. convs' = [convs EXCEPT ![c] = Held(v, r)]
  BY DEF Acquire, AcquireActive
<1>6. opened' \subseteq Conversations /\ begun' \subseteq Responses
  BY DEF Acquire, ConversationInvariant
<1> QED BY <1>3, <1>4, <1>5, <1>6, OneConversationWritten DEF Acquire, AcquireActive

LEMMA ReleaseIsSafe ==
    ASSUME ConversationInvariant, NEW c \in Conversations, NEW tenant \in Tenants,
           NEW r \in Responses, Release(c, tenant, r)
    PROVE  ConversationInvariant' /\ \A d \in Conversations : KeepsHistory(d)
<1> DEFINE v == convs[c]
<1>1. v.active = r /\ Len(v.events) < MaxEvents
  BY ReleasedMeans, RoomMeans DEF Release, ReleaseActive
<1>2. Sound(v, takenOver) /\ v \in Conv BY DEF ConversationInvariant
<1>3. Sound(Freed(v, r), takenOver) BY <1>1, <1>2, FreedIsSound
<1>4. Extends(Freed(v, r).events, v.events) /\ Extends(Freed(v, r).turns, v.turns)
  <2>1. "turn_completed" \in EventKinds BY DEF EventKinds
  <2>2. /\ Announced(v, "turn_completed", r) \in Conv
        /\ Announced(v, "turn_completed", r).events = Append(v.events, Event("turn_completed", r))
        /\ Announced(v, "turn_completed", r).turns = v.turns
    BY <1>2, <2>1, AnnouncedFields
  <2>3. /\ Freed(v, r).events = Append(v.events, Event("turn_completed", r))
        /\ Freed(v, r).turns = v.turns
    BY <2>2 DEF Freed, Conv
  <2>4. Extends(Freed(v, r).events, v.events) BY <1>2, <2>1, <2>3, StreamExtends
  <2>5. Extends(v.turns, v.turns) BY <1>2, ConvFields, SameExtends
  <2> QED BY <2>3, <2>4, <2>5
<1>5. convs' = [convs EXCEPT ![c] = Freed(v, r)]
  BY DEF Release, ReleaseActive
<1>6. opened' \subseteq Conversations /\ begun' \subseteq Responses
  BY DEF Release, ConversationInvariant, history
<1> QED BY <1>3, <1>4, <1>5, <1>6, OneConversationWritten
        DEF Release, ReleaseActive, history

LEMMA TakeOverIsSafe ==
    ASSUME ConversationInvariant, NEW c \in Conversations, NEW tenant \in Tenants,
           NEW holder \in Responses, TakeOver(c, tenant, holder)
    PROVE  ConversationInvariant' /\ \A d \in Conversations : KeepsHistory(d)
<1> DEFINE v == convs[c]
           w == [v EXCEPT !.active = None]
<1>1. /\ v \in Conv /\ Sound(v, takenOver) /\ v.active = holder
      /\ \A d \in Conversations : Sound(convs[d], takenOver)
  BY DEF ConversationInvariant, TakeOver, ReleaseStale, StaleHolder
<1>2. takenOver' = takenOver \cup {v.active} BY DEF TakeOver
<1>3. Sound(w, takenOver') BY <1>1, <1>2, ClearedIsSound
<1>4. /\ convs' = [convs EXCEPT ![c] = w]
      /\ convs'[c] = w /\ \A d \in Conversations : d # c => convs'[d] = convs[d]
  BY DEF TakeOver, ReleaseStale, ConversationInvariant
<1>5. w \in Conv /\ w.events = v.events /\ w.turns = v.turns
  BY <1>1 DEF Conv
<1>6. ConversationInvariant'
  <2>1. convs' \in [Conversations -> Conv] BY <1>4, <1>5 DEF ConversationInvariant
  <2>2. \A d \in Conversations : Sound(convs'[d], takenOver')
    <3>1. \A d \in Conversations : Sound(convs[d], takenOver \cup {v.active})
      BY <1>1, MoreGoneIsSound
    <3> QED BY <1>2, <1>3, <1>4, <3>1
  <2>3. takenOver' \subseteq Responses
    BY <1>1, <1>2 DEF ConversationInvariant
  <2> QED BY <2>1, <2>2, <2>3 DEF ConversationInvariant, TakeOver, ReleaseStale
<1>7. \A d \in Conversations : KeepsHistory(d)
  <2>1. Extends(v.events, v.events) /\ Extends(v.turns, v.turns)
    BY <1>1, ConvFields, SameExtends
  <2>2. KeepsHistory(c) BY <1>4, <1>5, <2>1 DEF KeepsHistory
  <2> QED BY <1>4, <2>2, UntouchedKeepsHistory
<1> QED BY <1>6, <1>7

LEMMA ArchiveIsSafe ==
    ASSUME ConversationInvariant, NEW c \in Conversations, NEW tenant \in Tenants,
           NEW r \in Responses, NEW output \in Outputs, Archive(c, tenant, r, output)
    PROVE  ConversationInvariant' /\ \A d \in Conversations : KeepsHistory(d)
<1> DEFINE v == convs[c]
           w == WithTurn(v, r, output)
<1>1. Sound(v, takenOver) /\ v \in Conv BY DEF ConversationInvariant
<1>2. Sound(w, takenOver) /\ w.events = v.events /\ Extends(w.turns, v.turns)
  BY <1>1, WithTurnIsSound
<1>3. Extends(v.events, v.events) BY <1>1, ConvFields, SameExtends
<1>4. convs' = [convs EXCEPT ![c] = w] BY DEF Archive, AppendTurn
<1>5. opened' \subseteq Conversations /\ begun' \subseteq Responses
  BY DEF Archive, ConversationInvariant, history
<1> HIDE DEF w
<1> QED BY <1>2, <1>3, <1>4, <1>5, OneConversationWritten DEF Archive, AppendTurn, history

LEMMA AdvanceTailIsSafe ==
    ASSUME ConversationInvariant, NEW c \in Conversations, NEW tenant \in Tenants,
           NEW r \in Responses, AdvanceTail(c, tenant, r)
    PROVE  ConversationInvariant' /\ \A d \in Conversations : KeepsHistory(d)
<1> DEFINE v == convs[c]
           w == [v EXCEPT !.tail = r]
<1>1. Sound(v, takenOver) /\ v \in Conv BY DEF ConversationInvariant
<1>2. Sound(w, takenOver) BY <1>1, AdvancedIsSound
<1>3. w.events = v.events /\ w.turns = v.turns BY <1>1 DEF Conv
<1>4. Extends(v.events, v.events) /\ Extends(v.turns, v.turns)
  BY <1>1, ConvFields, SameExtends
<1>5. convs' = [convs EXCEPT ![c] = w] BY DEF AdvanceTail, Advance
<1>6. opened' \subseteq Conversations /\ begun' \subseteq Responses
  BY DEF AdvanceTail, ConversationInvariant, history
<1> HIDE DEF w
<1> QED BY <1>2, <1>3, <1>4, <1>5, <1>6, OneConversationWritten
        DEF AdvanceTail, Advance, history

LEMMA AnnounceIsSafe ==
    ASSUME ConversationInvariant, NEW c \in Conversations, NEW tenant \in Tenants,
           NEW kind \in {"response_deleted", "business"}, NEW r \in Responses \cup {None},
           Announce(c, tenant, kind, r)
    PROVE  ConversationInvariant' /\ \A d \in Conversations : KeepsHistory(d)
<1> DEFINE v == convs[c]
           w == Announced(v, kind, r)
<1>1. Sound(v, takenOver) /\ v \in Conv /\ kind \in EventKinds
  BY DEF ConversationInvariant, EventKinds
<1>2. Len(v.events) < MaxEvents BY RoomMeans DEF Announce, AppendEvent
<1>3. Sound(w, takenOver) BY <1>1, <1>2, AnnouncedIsSound
<1>4. w.events = Append(v.events, Event(kind, r)) /\ w.turns = v.turns
  BY <1>1, AnnouncedFields
<1>5. convs' = [convs EXCEPT ![c] = w] BY DEF Announce, AppendEvent
<1>6. opened' \subseteq Conversations /\ begun' \subseteq Responses
  BY DEF Announce, ConversationInvariant, history
<1>7. Extends(v.turns, v.turns) BY <1>1, ConvFields, SameExtends
<1>8. Extends(w.events, v.events) BY <1>1, <1>4, StreamExtends
<1> HIDE DEF w
<1> QED BY <1>3, <1>4, <1>5, <1>6, <1>7, <1>8, OneConversationWritten
        DEF Announce, AppendEvent, history

\* The methods that write every conversation of a tenant, or none.
LEMMA DeleteByTenantIsSafe ==
    ASSUME ConversationInvariant, NEW tenant \in Tenants, DeleteByTenant(tenant)
    PROVE  ConversationInvariant' /\ \A d \in Conversations : KeepsHistory(d)
<1>1. \A d \in Conversations : convs'[d] = convs[d] \/ convs'[d] = NoConv
  BY DEF DeleteByTenant, ConvDeleteByTenant
<1>2. \A d \in Conversations : Sound(convs'[d], takenOver) /\ convs'[d] \in Conv
  BY <1>1, NoConvIsSound DEF ConversationInvariant, Sound
<1>3. convs' \in [Conversations -> Conv]
  BY <1>2 DEF DeleteByTenant, ConvDeleteByTenant
<1>4. ConversationInvariant'
  BY <1>2, <1>3 DEF ConversationInvariant, DeleteByTenant, ConvDeleteByTenant, history
<1> QED BY <1>1, <1>4, UntouchedKeepsHistory

LEMMA UnwrittenIsSafe ==
    ASSUME ConversationInvariant, Degrade \/ UNCHANGED vars
    PROVE  ConversationInvariant' /\ \A d \in Conversations : KeepsHistory(d)
<1>1. UNCHANGED <<convs, opened, begun, takenOver>>
  BY DEF Degrade, SetUnavailable, vars, convVars, history
<1>2. unavailable' \in BOOLEAN /\ readOnly' \in BOOLEAN
  <2>1. CASE UNCHANGED vars BY <2>1 DEF vars, convVars, ConversationInvariant
  <2>2. CASE \E enabled \in BOOLEAN : SetUnavailable(enabled) /\ UNCHANGED readOnly
    BY <2>2 DEF SetUnavailable, ConversationInvariant
  <2>3. CASE readOnly' = ~readOnly /\ UNCHANGED convVars
    BY <2>3 DEF convVars, ConversationInvariant
  <2> QED BY <2>1, <2>2, <2>3 DEF Degrade
<1>3. ConversationInvariant' BY <1>1, <1>2 DEF ConversationInvariant
<1> QED BY <1>1, <1>3, UntouchedKeepsHistory

\* No step of any caller disturbs a conversation.
LEMMA StepIsSafe ==
    ASSUME ConversationInvariant, [Next]_vars
    PROVE  ConversationInvariant' /\ \A d \in Conversations : KeepsHistory(d)
<1>1. CASE \E c \in Conversations, tenant \in Tenants :
              Create(c, tenant) \/ Delete(c, tenant)
  BY <1>1, CreateIsSafe, DeleteIsSafe
<1>2. CASE \E c \in Conversations, tenant \in Tenants, r \in Responses :
              Acquire(c, tenant, r) \/ Release(c, tenant, r) \/ TakeOver(c, tenant, r)
  BY <1>2, AcquireIsSafe, ReleaseIsSafe, TakeOverIsSafe
<1>3. CASE \E c \in Conversations, tenant \in Tenants, r \in Responses :
              \/ AdvanceTail(c, tenant, r)
              \/ \E output \in Outputs : Archive(c, tenant, r, output)
  BY <1>3, AdvanceTailIsSafe, ArchiveIsSafe
<1>4. CASE \E c \in Conversations, tenant \in Tenants, r \in Responses :
              Announce(c, tenant, "response_deleted", r)
  BY <1>4, AnnounceIsSafe
<1>5. CASE \E c \in Conversations, tenant \in Tenants : Announce(c, tenant, "business", None)
  BY <1>5, AnnounceIsSafe
<1>6. CASE \E tenant \in Tenants : DeleteByTenant(tenant)
  BY <1>6, DeleteByTenantIsSafe
<1>7. CASE Degrade \/ UNCHANGED vars
  BY <1>7, UnwrittenIsSafe
<1> QED BY <1>1, <1>2, <1>3, <1>4, <1>5, <1>6, <1>7 DEF Next

LEMMA InitIsSound == Init => ConversationInvariant
<1> SUFFICES ASSUME Init PROVE ConversationInvariant OBVIOUS
<1>1. NoConv \in Conv /\ Sound(NoConv, takenOver)
  BY NoConvIsSound DEF Sound
<1> QED BY <1>1 DEF Init, ConvInit, ConversationInvariant

----------------------------------------------------------------------------
(* Theorems.                                                               *)

\* The invariant holds in every reachable state.
THEOREM ConversationsStaySound == Spec => []ConversationInvariant
<1>1. ConversationInvariant /\ [Next]_vars => ConversationInvariant' BY StepIsSafe
<1> QED BY <1>1, InitIsSound, PTL DEF Spec

\* The store's state always has the declared types, and no stream ever passes
\* max_events_per_conversation (append_locked).
THEOREM ConversationTypeCorrect == Spec => []TypeOK
<1>1. ConversationInvariant => TypeOK
  BY DEF ConversationInvariant, Sound, TypeOK
<1> QED BY <1>1, ConversationsStaySound, PTL

\* INV-58: a held marker is the turn the stream announced last, however
\* acquire, release and take-over interleave (acquire_active).
THEOREM MarkersAreAnnounced == Spec => []MarkerIsAnnounced
<1>1. ConversationInvariant => MarkerIsAnnounced
  BY DEF ConversationInvariant, Sound, MarkerMatches, MarkerIsAnnounced
<1> QED BY <1>1, ConversationsStaySound, PTL

\* The turns of a stream do not overlap, and each is completed once
\* (release_active, whichever of several terminal paths calls it).
THEOREM StreamsAreTurnByTurn == Spec => []TurnsDoNotOverlap
<1>1. ConversationInvariant => TurnsDoNotOverlap
  BY DEF ConversationInvariant, Sound, CompletionsClose, TurnsDoNotOverlap
<1> QED BY <1>1, ConversationsStaySound, PTL

\* No release clears the marker of a turn that followed: a started turn is
\* held, completed, or was taken over (release_active, release_stale_active).
THEOREM NoTurnIsForgotten == Spec => []StartedTurnsAreAccountedFor
<1>1. ConversationInvariant => StartedTurnsAreAccountedFor
  BY DEF ConversationInvariant, Sound, StartsAreAccountedFor, StartedTurnsAreAccountedFor
<1> QED BY <1>1, ConversationsStaySound, PTL

\* D30: however often its terminal paths call append_turn, a turn is in the
\* snapshot once.
THEOREM SnapshotIsIdempotent == Spec => []TurnsArchivedOnce
<1>1. ConversationInvariant => TurnsArchivedOnce
  BY DEF ConversationInvariant, Sound, TurnsAreDistinct, TurnsArchivedOnce
<1> QED BY <1>1, ConversationsStaySound, PTL

\* INV-59: no call of any caller takes an event or a turn back while the
\* conversation exists.
THEOREM ConversationsOnlyGrow == Spec => HistoryIsAppendOnly
<1>1. ConversationInvariant /\ [Next]_vars => [\A c \in Conversations : KeepsHistory(c)]_vars
  BY StepIsSafe
<1> QED BY <1>1, ConversationsStaySound, PTL DEF Spec, HistoryIsAppendOnly
=============================================================================

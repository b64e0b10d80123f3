--------------------------- MODULE SessionProofs ---------------------------
(***************************************************************************)
(* What holds of every session, however many clients, conversations and    *)
(* responses there are and whatever the clients write.                     *)
(***************************************************************************)
EXTENDS Session, FiniteSetTheorems, SequenceTheorems, WellFoundedInduction, TLAPS

InConversationOf(v) == [kind |-> "conversation", id |-> v]

----------------------------------------------------------------------------
(* The inductive invariant.                                                *)

ClientFields == {"pc", "script", "sent", "id", "holder", "object"}
RecordFields == {"spec", "key", "status", "step", "output", "reasoning", "turns"}
ConvFields == {"marker", "context", "overlapped"}

\* Every part of the state has the fields the service gives it.
ClientsShaped == DOMAIN clients = Clients /\ \A c \in Clients : DOMAIN clients[c] = ClientFields
RecordsShaped ==
    /\ DOMAIN records = ResponseIds
    /\ \A r \in ResponseIds : Known(r) => DOMAIN records[r] = RecordFields
ConvsShaped ==
    /\ DOMAIN convs = ConversationIds
    /\ \A v \in ConversationIds : DOMAIN convs[v] = ConvFields
Shaped == ClientsShaped /\ RecordsShaped /\ ConvsShaped

\* Between the resolution of its anchor and its answer a create has an id, and
\* only then; it is of no response yet, and of no other create.
HasId(c) == clients[c].pc \notin {"idle", "resolve"}
ForTurn == {"acquire", "holder", "takeover", "reacquire", "release"}
CreateIsSound(c) ==
    /\ clients[c].pc \in {"idle", "resolve", "admit"} \cup ForTurn
    /\ ~HasId(c) => clients[c].id = None
    /\ HasId(c) => clients[c].id \in ResponseIds /\ ~Known(clients[c].id)
    /\ clients[c].pc # "idle" => Refusal(clients[c].sent) = None
    /\ clients[c].pc \in ForTurn => Spec_(c).anchor.kind = "conversation"
CreatesAreSound ==
    /\ \A c \in Clients : CreateIsSound(c)
    /\ \A c, d \in Clients : clients[c].id = clients[d].id => c = d \/ clients[c].id = None

\* A run is in its first step while the ledger has it in flight, and goes
\* through the archive and the release of a conversation only if it has one.
RunIsSound(r) ==
    /\ InFlight(r) => records[r].step = "run"
    /\ records[r].step \in {"archive", "release"} => InConversation(r)
    /\ InConversation(r) =>
          /\ records[r].spec.anchor.id \in ConversationIds
          /\ records[r].spec.anchor = InConversationOf(records[r].spec.anchor.id)
RunsAreSound == \A r \in ResponseIds : Known(r) => RunIsSound(r)

\* The marker of a conversation is held by a create that has yet to be admitted
\* or to give it back, or by a run that has yet to settle.
HeldByCreate(v, h) ==
    \E c \in Clients :
        /\ clients[c].id = h /\ clients[c].pc \in {"admit", "release"}
        /\ Spec_(c).anchor = InConversationOf(v)
HeldByRun(v, h) ==
    /\ h \in ResponseIds /\ Known(h) /\ records[h].spec.anchor = InConversationOf(v)
    /\ records[h].step \in {"run", "archive", "release"}
MarkersAreHeld ==
    \A v \in ConversationIds :
        convs[v].marker # None =>
            HeldByCreate(v, convs[v].marker) \/ HeldByRun(v, convs[v].marker)

\* A create that talks in conversation v, and a run that has yet to archive.
Talks(c, v) == clients[c].id # None /\ Spec_(c).anchor = InConversationOf(v)
Runs(r, v) ==
    /\ Known(r) /\ records[r].spec.anchor = InConversationOf(v)
    /\ records[r].step \in {"run", "archive"}

\* While the turns of a conversation follow one another one at most is under
\* way, and it found room for itself.
InTurn(v) ==
    /\ \A c, d \in Clients : Talks(c, v) /\ Talks(d, v) => c = d
    /\ \A r, s \in ResponseIds : Runs(r, v) /\ Runs(s, v) => r = s
    /\ \A c \in Clients, r \in ResponseIds : ~(Talks(c, v) /\ Runs(r, v))
    /\ (\E c \in Clients : Talks(c, v)) \/ (\E r \in ResponseIds : Runs(r, v)) =>
          convs[v].context.turns < Chain.depth
    /\ convs[v].context.turns <= Chain.depth
    /\ \A r \in ResponseIds :
          Known(r) /\ records[r].spec.anchor = InConversationOf(v) =>
              records[r].turns < Chain.depth

TurnsAreCounted ==
    \A v \in ConversationIds :
        /\ convs[v].overlapped \in BOOLEAN
        /\ convs[v].context.turns \in Nat
        /\ ~convs[v].overlapped => InTurn(v)

\* What a client was given, and what it would be given, can be sent again.
ObjectsAreSound ==
    /\ EchoIsAccepted
    /\ \A r \in ResponseIds :
          Known(r) => Refusal(Echo(ResponseObject(records[r].spec))) = None

SessionInvariant ==
    /\ Shaped
    /\ CreatesAreSound
    /\ RunsAreSound
    /\ MarkersAreHeld
    /\ TurnsAreCounted
    /\ ObjectsAreSound

----------------------------------------------------------------------------
(* The ingress: what is accepted, said without the order of the rules.     *)

FieldsUnbroken(wire) ==
    /\ wire.model # Blank
    /\ ~(wire.stream /\ wire.background)
    /\ ~Present(wire.instructions, LAMBDA n : n > Limits.instructions)
    /\ wire.previous # Blank
    /\ ~Present(wire.conversation, LAMBDA c : c.id = Blank)
    /\ ~(wire.conversation # None /\ wire.previous # None)
    /\ wire.maxOutput # 0
    /\ ~Present(wire.temperature, LAMBDA t : t \notin 0..2)
    /\ ~Present(wire.topP, LAMBDA p : p \notin 0..1)
    /\ ~Present(wire.metadata, LAMBDA m : MetadataViolation(m) # None)
    /\ ~(\E i \in DOMAIN wire.tools : json_depth(wire.tools[i]) > Limits.depth)
Unbroken(wire) ==
    /\ FieldsUnbroken(wire)
    /\ ~(ItemsViolation(ToItems(wire)) # None)
    /\ ~(\E i \in DOMAIN ToItems(wire) : ~ItemValid(ToItems(wire)[i]))

Broken(wire) == {i \in 1..Len(Rules(wire)) : Rules(wire)[i].broken}

\* The rules are thirteen, and each has a name to be refused with.
LEMMA RulesHaveNames ==
    ASSUME NEW wire
    PROVE  /\ Len(Rules(wire)) = 13
           /\ \A i \in 1..13 : Rules(wire)[i].name \in RuleNames
<1>1. Len(Rules(wire)) = 13
  BY DEF Rules
<1> DEFINE Name(i) == Rules(wire)[i].name
<1>2. /\ Name(1) = "EmptyModel"
      /\ Name(2) = "StreamAndBackground"
      /\ Name(3) = "InstructionsTooLong"
      /\ Name(4) = "EmptyPreviousId"
      /\ Name(5) = "EmptyConversationId"
      /\ Name(6) = "PreviousIdAndConversation"
      /\ Name(7) = "ZeroMaxOutputTokens"
      /\ Name(8) = "TemperatureOutOfRange"
      /\ Name(9) = "TopPOutOfRange"
      /\ Name(10) = "Metadata"
      /\ Name(11) = "ToolParameters"
      /\ Name(12) = "Limits"
      /\ Name(13) = "Item"
  BY DEF Rules, Rule
<1>3. \A i \in 1..13 : Name(i) \in RuleNames
  <2> HIDE DEF Name
  <2> QED BY <1>2 DEF RuleNames
<1> QED BY <1>1, <1>3

\* The first broken rule is a broken rule.
LEMMA LeastIsMember ==
    ASSUME NEW I \in SUBSET Nat, I # {}
    PROVE  /\ Min(I) \in I
           /\ \A i \in I : Min(I) <= i
<1> DEFINE below == OpToRel(<, Nat)
<1>1. \A i, j \in Nat : <<i, j>> \in below <=> i < j
  BY DEF OpToRel
<1>2. IsWellFoundedOn(below, Nat)
  BY NatLessThanWellFounded
<1>3. PICK m \in I : \A k \in I : ~(<<k, m>> \in below)
  <2> HIDE DEF below
  <2> QED BY <1>2, WFMin
<1>4. \A k \in I : m <= k
  <2>1. \A k \in I : k \in Nat /\ m \in Nat
    OBVIOUS
  <2>2. \A k \in I : ~(k < m)
    <3> HIDE DEF below
    <3> QED BY <1>1, <1>3, <2>1, Zenon
  <2> QED BY <2>1, <2>2
<1> QED BY <1>4 DEF Min

\* A request breaks no rule exactly when its violation is None.
LEMMA NoViolation ==
    ASSUME NEW wire
    PROVE  Violation(wire) = None <=> Broken(wire) = {}
<1>1. \A i \in Broken(wire) : i \in 1..13
  BY RulesHaveNames DEF Broken
<1>4. \A i \in 1..13 : Rules(wire)[i].name # None
  <2>1. None \notin RuleNames
    BY ProtocolConstants
  <2> QED BY <2>1, RulesHaveNames
<1>2. CASE Broken(wire) = {}
  BY <1>2 DEF Violation, SelectInSeq, Broken
<1>3. CASE Broken(wire) # {}
  <2>1. Min(Broken(wire)) \in Broken(wire)
    BY <1>1, <1>3, LeastIsMember
  <2>2. Violation(wire) = Rules(wire)[Min(Broken(wire))].name
    BY <1>1, <1>3, <2>1 DEF Violation, SelectInSeq, Broken
  <2> QED BY <1>1, <1>3, <1>4, <2>1, <2>2
<1> QED BY <1>2, <1>3

LEMMA RulesOneByOne ==
    ASSUME NEW wire
    PROVE  LET rules == Rules(wire)
           IN  /\ (/\ ~rules[1].broken /\ ~rules[2].broken /\ ~rules[3].broken
                   /\ ~rules[4].broken /\ ~rules[5].broken /\ ~rules[6].broken
                   /\ ~rules[7].broken /\ ~rules[8].broken /\ ~rules[9].broken
                   /\ ~rules[10].broken /\ ~rules[11].broken) <=> FieldsUnbroken(wire)
               /\ rules[12].broken <=> ItemsViolation(ToItems(wire)) # None
               /\ rules[13].broken <=> \E i \in DOMAIN ToItems(wire) :
                                          ~ItemValid(ToItems(wire)[i])
BY DEF Rules, Rule, FieldsUnbroken

LEMMA BrokenRules ==
    ASSUME NEW wire
    PROVE  /\ (\A i \in 1..11 : i \notin Broken(wire)) <=> FieldsUnbroken(wire)
           /\ 12 \in Broken(wire) <=> ItemsViolation(ToItems(wire)) # None
           /\ Broken(wire) = {} <=> Unbroken(wire)
<1> DEFINE rules == Rules(wire)
<1>1. \A i \in 1..13 : i \in Broken(wire) <=> rules[i].broken
  BY RulesHaveNames DEF Broken
<1>2. \A i \in Broken(wire) : i \in 1..13
  BY RulesHaveNames DEF Broken
<1>3. /\ (/\ ~rules[1].broken /\ ~rules[2].broken /\ ~rules[3].broken
          /\ ~rules[4].broken /\ ~rules[5].broken /\ ~rules[6].broken
          /\ ~rules[7].broken /\ ~rules[8].broken /\ ~rules[9].broken
          /\ ~rules[10].broken /\ ~rules[11].broken) <=> FieldsUnbroken(wire)
      /\ rules[12].broken <=> ItemsViolation(ToItems(wire)) # None
      /\ rules[13].broken <=> \E i \in DOMAIN ToItems(wire) : ~ItemValid(ToItems(wire)[i])
  BY RulesOneByOne
<1> HIDE DEF rules
<1>4. (\A i \in 1..11 : i \notin Broken(wire)) <=> FieldsUnbroken(wire)
  BY <1>1, <1>3
<1>5. 12 \in Broken(wire) <=> ItemsViolation(ToItems(wire)) # None
  BY <1>1, <1>3
<1>6. 13 \in Broken(wire) <=> \E i \in DOMAIN ToItems(wire) : ~ItemValid(ToItems(wire)[i])
  BY <1>1, <1>3
<1>7. Broken(wire) = {} <=> /\ \A i \in 1..11 : i \notin Broken(wire)
                            /\ 12 \notin Broken(wire) /\ 13 \notin Broken(wire)
  BY <1>2
<1> QED BY <1>4, <1>5, <1>6, <1>7 DEF Unbroken

\* A request goes on to the service exactly when it is none of the cases the
\* ingress refuses.
LEMMA NotRefused ==
    ASSUME NEW wire
    PROVE  Refusal(wire) = None <=>
              /\ ~preflight_unsupported(wire) /\ Parses(wire)
              /\ Unbroken(wire) /\ AnchorParses(Anchor(wire))
<1>1. None # "unsupported_parameter" /\ None # "invalid_request" /\ None # "chain_broken"
  BY ProtocolConstants DEF ErrorCodes
<1>2. Violation(wire) = None <=> Unbroken(wire)
  BY NoViolation, BrokenRules
<1> QED BY <1>1, <1>2 DEF Refusal

\* The tool choice of an object reads as the one that was sent.
LEMMA ToolChoiceReadBack ==
    ASSUME NEW choice, ToolChoiceParses(choice)
    PROVE  ToolChoiceParses(WriteToolChoice(ReadToolChoice(choice)))
<1>1. None \notin Modes
  BY ProtocolConstants
<1>2. CASE choice.form = "string" /\ choice.type \in Modes
  BY <1>1, <1>2 DEF ToolChoiceParses, WriteToolChoice, ReadToolChoice, Mode, Named
<1>3. CASE choice.form = "object" /\ choice.name # None
  BY <1>3 DEF ToolChoiceParses, WriteToolChoice, ReadToolChoice, Mode, Named
<1> QED BY <1>2, <1>3 DEF ToolChoiceParses

\* What the object of a turn is made of, field by field.
LEMMA EchoFields ==
    ASSUME NEW wire
    PROVE  LET echo == Echo(ResponseObject(TurnSpec(wire)))
               anchor == Anchor(wire)
           IN  /\ echo.field = None /\ echo.model = wire.model
               /\ echo.instructions = wire.instructions
               /\ echo.stream = FALSE /\ echo.background = FALSE
               /\ echo.text = None /\ echo.items = ToItems(wire)
               /\ echo.maxOutput = None /\ echo.temperature = None /\ echo.topP = None
               /\ echo.tools = wire.tools
               /\ echo.metadata \in {None, wire.metadata}
               /\ echo.previous = IF anchor.kind = "previous" THEN anchor.id ELSE None
               /\ echo.conversation = IF anchor.kind = "conversation"
                                      THEN ConversationRef("object", anchor.id) ELSE None
               /\ echo.toolChoice =
                     IF wire.toolChoice = None \/ ReadToolChoice(wire.toolChoice) = None
                     THEN None ELSE WriteToolChoice(ReadToolChoice(wire.toolChoice))
<1> DEFINE spec == TurnSpec(wire)
<1> DEFINE object == ResponseObject(spec)
<1>1. /\ spec.model = wire.model /\ spec.instructions = wire.instructions
      /\ spec.tools = wire.tools /\ spec.items = ToItems(wire) /\ spec.anchor = Anchor(wire)
      /\ spec.toolChoice = IF wire.toolChoice = None THEN None
                           ELSE ReadToolChoice(wire.toolChoice)
      /\ spec.metadata = IF wire.metadata = None THEN <<>> ELSE wire.metadata
  BY DEF TurnSpec
<1> HIDE DEF spec
<1>2. /\ object.model = spec.model /\ object.instructions = spec.instructions
      /\ object.tools = spec.tools /\ object.input = spec.items
      /\ object.metadata = spec.metadata
      /\ object.previous = IF spec.anchor.kind = "previous" THEN spec.anchor.id ELSE None
      /\ object.conversation = IF spec.anchor.kind = "conversation"
                               THEN ConversationRef("object", spec.anchor.id) ELSE None
      /\ object.toolChoice = IF spec.toolChoice = None THEN None
                             ELSE WriteToolChoice(spec.toolChoice)
  BY DEF ResponseObject
<1> HIDE DEF object
<1> DEFINE echo == Echo(object)
<1>3. /\ echo.field = None /\ echo.model = object.model
      /\ echo.instructions = object.instructions
      /\ echo.stream = FALSE /\ echo.background = FALSE
      /\ echo.text = None /\ echo.items = object.input
      /\ echo.maxOutput = None /\ echo.temperature = None /\ echo.topP = None
      /\ echo.tools = object.tools
      /\ echo.metadata = IF object.metadata = <<>> THEN None ELSE object.metadata
      /\ echo.previous = object.previous /\ echo.conversation = object.conversation
      /\ echo.toolChoice = object.toolChoice
  BY DEF Echo, PlainRequest
<1> HIDE DEF echo
<1>4. echo.metadata \in {None, wire.metadata}
  BY <1>1, <1>2, <1>3
<1>5. echo.toolChoice = IF wire.toolChoice = None \/ ReadToolChoice(wire.toolChoice) = None
                        THEN None ELSE WriteToolChoice(ReadToolChoice(wire.toolChoice))
  BY <1>1, <1>2, <1>3
<1>6. /\ echo.previous = IF Anchor(wire).kind = "previous" THEN Anchor(wire).id ELSE None
      /\ echo.conversation = IF Anchor(wire).kind = "conversation"
                             THEN ConversationRef("object", Anchor(wire).id) ELSE None
  BY <1>1, <1>2, <1>3
<1>7. /\ echo.field = None /\ echo.model = wire.model
      /\ echo.instructions = wire.instructions
      /\ echo.stream = FALSE /\ echo.background = FALSE
      /\ echo.text = None /\ echo.items = ToItems(wire)
      /\ echo.maxOutput = None /\ echo.temperature = None /\ echo.topP = None
      /\ echo.tools = wire.tools
  BY <1>1, <1>2, <1>3
<1> QED BY <1>4, <1>5, <1>6, <1>7 DEF echo, object, spec

\* Whatever the service accepts, it accepts the echo of.
LEMMA AcceptedTwice ==
    ASSUME NEW wire, Refusal(wire) = None
    PROVE  Refusal(Echo(ResponseObject(TurnSpec(wire)))) = None
<1> DEFINE echo == Echo(ResponseObject(TurnSpec(wire)))
<1>1. /\ Parses(wire) /\ Unbroken(wire) /\ AnchorParses(Anchor(wire))
  BY NotRefused
<1>2. /\ echo.field = None /\ echo.model = wire.model
      /\ echo.instructions = wire.instructions
      /\ echo.stream = FALSE /\ echo.background = FALSE
      /\ echo.text = None /\ echo.items = ToItems(wire)
      /\ echo.maxOutput = None /\ echo.temperature = None /\ echo.topP = None
      /\ echo.tools = wire.tools
      /\ echo.metadata \in {None, wire.metadata}
  BY EchoFields
<1>3. echo.previous = IF Anchor(wire).kind = "previous" THEN Anchor(wire).id ELSE None
  BY EchoFields
<1>4. echo.conversation = IF Anchor(wire).kind = "conversation"
                          THEN ConversationRef("object", Anchor(wire).id) ELSE None
  BY EchoFields
<1>5. echo.toolChoice = IF wire.toolChoice = None \/ ReadToolChoice(wire.toolChoice) = None
                        THEN None ELSE WriteToolChoice(ReadToolChoice(wire.toolChoice))
  BY EchoFields
<1> HIDE DEF echo
<1>6. None \notin ErrorCodes /\ None # Blank /\ None \notin Nat /\ None \notin ConversationIds
  BY ProtocolConstants
<1>7. ~preflight_unsupported(echo)
  <2>1. ~preflight_unsupported(wire) /\ wire.field = None
    BY <1>1, NotRefused DEF Parses
  <2> QED BY <1>2, <2>1 DEF preflight_unsupported
<1>8. ToItems(echo) = ToItems(wire)
  BY <1>2 DEF ToItems
<1>9. \A i \in DOMAIN ToItems(wire) : ItemParses(ToItems(wire)[i])
  <2>1. ASSUME NEW bytes PROVE ItemParses(user_text(bytes))
    BY DEF ItemParses, user_text, Message, Text, ItemTypes, TextParts, ReferenceParts
  <2>2. CASE wire.text # None
    BY <2>1, <2>2 DEF ToItems
  <2>3. CASE wire.text = None
    BY <1>1, <2>3 DEF ToItems, Parses
  <2> QED BY <2>2, <2>3
<1>10. echo.toolChoice # None => ToolChoiceParses(echo.toolChoice)
  <2>1. wire.toolChoice # None => ToolChoiceParses(wire.toolChoice)
    BY <1>1 DEF Parses
  <2> QED BY <1>5, <2>1, ToolChoiceReadBack
<1>11. echo.conversation # None =>
          /\ Anchor(wire).kind = "conversation" /\ Anchor(wire).id \in ConversationIds
          /\ echo.conversation = ConversationRef("object", Anchor(wire).id)
          /\ echo.previous = None
  BY <1>1, <1>3, <1>4 DEF AnchorParses
<1>12. Parses(echo)
  <2>1. echo.conversation # None => RefParses(echo.conversation)
    BY <1>6, <1>11 DEF RefParses, ConversationRef
  <2>2. echo.metadata # None =>
          \A i \in DOMAIN echo.metadata : echo.metadata[i].value.type \in MetadataTypes
    BY <1>1, <1>2 DEF Parses
  <2> QED BY <1>2, <1>9, <1>10, <2>1, <2>2 DEF Parses
<1>13. Unbroken(echo)
  <2>1. echo.previous # Blank
    BY <1>1, <1>3, <1>6 DEF Unbroken, FieldsUnbroken, Anchor, Root
  <2>2. ~Present(echo.conversation, LAMBDA c : c.id = Blank)
    <3>1. Anchor(wire).kind = "conversation" =>
             wire.conversation # None /\ Anchor(wire).id = wire.conversation.id
      BY DEF Anchor, Root
    <3>2. wire.conversation # None => wire.conversation.id # Blank
      BY <1>1 DEF Unbroken, FieldsUnbroken, Present
    <3> QED BY <1>11, <3>1, <3>2 DEF Present, ConversationRef
  <2>3. ~(echo.conversation # None /\ echo.previous # None)
    BY <1>11
  <2>4. echo.maxOutput # 0
    BY <1>2, <1>6
  <2>5. ~Present(echo.metadata, LAMBDA m : MetadataViolation(m) # None)
    BY <1>1, <1>2 DEF Unbroken, FieldsUnbroken, Present
  <2>6. ~Present(echo.instructions, LAMBDA n : n > Limits.instructions)
    BY <1>1, <1>2 DEF Unbroken, FieldsUnbroken
  <2>7. /\ ~Present(echo.temperature, LAMBDA t : t \notin 0..2)
        /\ ~Present(echo.topP, LAMBDA p : p \notin 0..1)
    BY <1>2 DEF Present
  <2>8. /\ echo.model # Blank /\ ~(echo.stream /\ echo.background)
        /\ ~(\E i \in DOMAIN echo.tools : json_depth(echo.tools[i]) > Limits.depth)
    BY <1>1, <1>2 DEF Unbroken, FieldsUnbroken
  <2>9. /\ ~(ItemsViolation(ToItems(echo)) # None)
        /\ ~(\E i \in DOMAIN ToItems(echo) : ~ItemValid(ToItems(echo)[i]))
    BY <1>1, <1>8 DEF Unbroken, FieldsUnbroken
  <2> QED BY <2>1, <2>2, <2>3, <2>4, <2>5, <2>6, <2>7, <2>8, <2>9 DEF Unbroken, FieldsUnbroken
<1>14. AnchorParses(Anchor(echo))
  <2>1. CASE echo.conversation # None
    BY <1>11, <2>1 DEF AnchorParses, Anchor, ConversationRef
  <2>2. CASE echo.conversation = None /\ echo.previous # None
    <3>1. Anchor(wire).kind = "previous" /\ Anchor(wire).id \in ResponseIds
      BY <1>1, <1>3, <2>2 DEF AnchorParses
    <3> QED BY <1>3, <2>2, <3>1 DEF AnchorParses, Anchor
  <2>3. CASE echo.conversation = None /\ echo.previous = None
    BY <2>3 DEF AnchorParses, Anchor, Root
  <2> QED BY <2>1, <2>2, <2>3
<1> QED BY <1>7, <1>12, <1>13, <1>14, NotRefused DEF echo

----------------------------------------------------------------------------
(* What a step leaves alone.                                               *)

\* An accepted request is anchored in a conversation there is.
LEMMA AnchorOfAccepted ==
    ASSUME NEW wire, Refusal(wire) = None, Anchor(wire).kind = "conversation"
    PROVE  /\ Anchor(wire).id \in ConversationIds
           /\ Anchor(wire) = InConversationOf(Anchor(wire).id)
<1>1. AnchorParses(Anchor(wire))
  BY NotRefused
<1>2. Anchor(wire).id \in ConversationIds
  BY <1>1 DEF AnchorParses
<1>3. Anchor(wire) = InConversationOf(Anchor(wire).id)
  BY DEF Anchor, Root, InConversationOf
<1> QED BY <1>2, <1>3

LEMMA AnchorOfCreate ==
    ASSUME NEW c
    PROVE  Spec_(c).anchor = Anchor(clients[c].sent)
BY DEF Spec_, TurnSpec

\* The other clients are where they were.
OthersWait(c) == \A d \in Clients \ {c} : clients'[d] = clients[d]

LEMMA AnsweredFacts ==
    ASSUME ClientsShaped, NEW c \in Clients, NEW object, Answered(c, object)
    PROVE  /\ ClientsShaped' /\ OthersWait(c)
           /\ clients'[c].pc = "idle" /\ clients'[c].id = None
           /\ clients'[c].object = object
BY DEF ClientsShaped, ClientFields, OthersWait, Answered

LEMMA GoesFacts ==
    ASSUME ClientsShaped, NEW c \in Clients, NEW pc, Goes(c, pc)
    PROVE  /\ ClientsShaped' /\ OthersWait(c)
           /\ clients'[c].pc = pc /\ clients'[c].id = clients[c].id
           /\ clients'[c].sent = clients[c].sent
           /\ clients'[c].object = clients[c].object
BY DEF ClientsShaped, ClientFields, OthersWait, Goes

\* A step of one create that takes no new id leaves every create sound.
LEMMA CreatesKept ==
    ASSUME CreatesAreSound, NEW c \in Clients, OthersWait(c),
           \A r \in ResponseIds : Known(r)' => Known(r),
           clients'[c].id \in {None, clients[c].id}, CreateIsSound(c)'
    PROVE  CreatesAreSound'
<1>1. ASSUME NEW d \in Clients \ {c} PROVE CreateIsSound(d)'
  BY <1>1 DEF CreatesAreSound, CreateIsSound, HasId, OthersWait, Spec_
<1>2. ASSUME NEW d \in Clients, NEW e \in Clients, clients'[d].id = clients'[e].id
      PROVE  d = e \/ clients'[d].id = None
  BY <1>2 DEF CreatesAreSound, OthersWait
<1> QED BY <1>1, <1>2 DEF CreatesAreSound

\* An answered client is idle, and sound.
LEMMA IdleIsSound ==
    ASSUME NEW c, clients'[c].pc = "idle", clients'[c].id = None
    PROVE  CreateIsSound(c)'
BY DEF CreateIsSound, HasId, ForTurn

\* The turns of a conversation stay counted when none begins and none is
\* archived.
LEMMA TurnsKept ==
    ASSUME TurnsAreCounted,
           \A v \in ConversationIds :
              /\ convs'[v].overlapped = convs[v].overlapped
              /\ convs'[v].context = convs[v].context
              /\ \A d \in Clients : Talks(d, v)' => Talks(d, v)
              /\ \A r \in ResponseIds : Runs(r, v)' => Runs(r, v),
           \A r \in ResponseIds : Known(r)' =>
              /\ Known(r)
              /\ records'[r].spec = records[r].spec
              /\ \/ records'[r].turns = records[r].turns
                 \/ \A v \in ConversationIds :
                       ~convs[v].overlapped /\ records[r].spec.anchor = InConversationOf(v) =>
                           records'[r].turns < Chain.depth
    PROVE  TurnsAreCounted'
<1> SUFFICES ASSUME NEW v \in ConversationIds
             PROVE  /\ convs'[v].overlapped \in BOOLEAN
                    /\ convs'[v].context.turns \in Nat
                    /\ ~convs'[v].overlapped => InTurn(v)'
  BY DEF TurnsAreCounted
<1>1. /\ convs'[v].overlapped \in BOOLEAN
      /\ convs'[v].context.turns \in Nat
  BY DEF TurnsAreCounted
<1>2. ASSUME ~convs'[v].overlapped PROVE InTurn(v)'
  <2>1. InTurn(v) /\ ~convs[v].overlapped
    BY <1>2 DEF TurnsAreCounted
  <2>2. \A r \in ResponseIds :
          Known(r)' /\ records'[r].spec.anchor = InConversationOf(v) =>
              records'[r].turns < Chain.depth
    BY <2>1 DEF InTurn
  <2> QED BY <2>1, <2>2 DEF InTurn
<1> QED BY <1>1, <1>2

\* The markers stay held when none is taken, no create that holds one ends and
\* no run that holds one settles.
LEMMA MarkersKept ==
    ASSUME MarkersAreHeld,
           \A v \in ConversationIds : convs'[v].marker \in {None, convs[v].marker},
           \A v \in ConversationIds : \A h :
              convs'[v].marker = h /\ h # None =>
                 /\ HeldByCreate(v, h) => HeldByCreate(v, h)' \/ HeldByRun(v, h)'
                 /\ HeldByRun(v, h) => HeldByRun(v, h)'
    PROVE  MarkersAreHeld'
<1> SUFFICES ASSUME NEW v \in ConversationIds, NEW h, h = convs'[v].marker, h # None
             PROVE  HeldByCreate(v, h)' \/ HeldByRun(v, h)'
  BY DEF MarkersAreHeld, HeldByCreate, HeldByRun
<1>1. h = convs[v].marker
  OBVIOUS
<1>2. HeldByCreate(v, h) \/ HeldByRun(v, h)
  BY <1>1 DEF MarkersAreHeld
<1> QED BY <1>1, <1>2

\* The turns and the bounds of every conversation are the ones there were.
SameTurns ==
    \A v \in ConversationIds :
        /\ convs'[v].overlapped = convs[v].overlapped
        /\ convs'[v].context = convs[v].context

----------------------------------------------------------------------------
(* The steps of a create.                                                  *)

\* A step of a create that neither takes an id nor writes a record.
LEMMA CreateStep ==
    ASSUME SessionInvariant, NEW c \in Clients, OthersWait(c), ClientsShaped',
           CreateIsSound(c)', clients'[c].id \in {None, clients[c].id},
           clients'[c].id # None => clients'[c].sent = clients[c].sent,
           clients'[c].object # None => Refusal(Echo(clients'[c].object)) = None,
           records' = records, ConvsShaped', SameTurns, MarkersAreHeld'
    PROVE  SessionInvariant'
<1>1. Shaped'
  BY DEF SessionInvariant, Shaped, RecordsShaped, Known
<1>2. CreatesAreSound'
  BY CreatesKept DEF SessionInvariant, Known
<1>3. RunsAreSound'
  BY DEF SessionInvariant, RunsAreSound, RunIsSound, InFlight, Known, InConversation
<1>4. TurnsAreCounted'
  <2>1. ASSUME NEW d \in Clients, NEW v, Talks(d, v)' PROVE Talks(d, v)
    BY <2>1 DEF Talks, Spec_, OthersWait
  <2>2. ASSUME NEW r \in ResponseIds, NEW v, Runs(r, v)' PROVE Runs(r, v)
    BY <2>2 DEF Runs, Known
  <2> QED BY <2>1, <2>2, TurnsKept DEF SessionInvariant, SameTurns, Known
<1>5. ObjectsAreSound'
  BY DEF SessionInvariant, ObjectsAreSound, EchoIsAccepted, Known, OthersWait
<1> QED BY <1>1, <1>2, <1>3, <1>4, <1>5 DEF SessionInvariant

\* A create that holds no marker can go where it likes and leave them held.
LEMMA MarkersOfOthers ==
    ASSUME MarkersAreHeld, NEW c \in Clients, OthersWait(c),
           clients[c].pc \notin {"admit", "release"}, records' = records, 
           \A v \in ConversationIds : convs'[v].marker \in {None, convs[v].marker}
    PROVE  MarkersAreHeld'
<1>1. ASSUME NEW v \in ConversationIds, NEW h, HeldByCreate(v, h)
      PROVE  HeldByCreate(v, h)'
  BY <1>1 DEF HeldByCreate, OthersWait, Spec_
<1>2. ASSUME NEW v \in ConversationIds, NEW h, HeldByRun(v, h)
      PROVE  HeldByRun(v, h)'
  BY <1>2 DEF HeldByRun, Known
<1> QED BY <1>1, <1>2, MarkersKept

\* The same when the conversations are left alone.
LEMMA QuietStep ==
    ASSUME SessionInvariant, NEW c \in Clients, OthersWait(c), ClientsShaped',
           CreateIsSound(c)', clients'[c].id \in {None, clients[c].id},
           clients'[c].id # None => clients'[c].sent = clients[c].sent,
           clients'[c].object # None => Refusal(Echo(clients'[c].object)) = None,
           clients[c].pc \notin {"admit", "release"}, UNCHANGED <<records, convs>>
    PROVE  SessionInvariant'
<1>1. MarkersAreHeld'
  BY MarkersOfOthers DEF SessionInvariant
<1>2. ConvsShaped' /\ SameTurns
  BY DEF SessionInvariant, Shaped, ConvsShaped, SameTurns
<1> QED BY <1>1, <1>2, CreateStep

LEMMA RefusedStep ==
    ASSUME SessionInvariant, NEW c \in Clients, NEW error, Refused(c, error),
           clients[c].pc \notin {"admit", "release"}, UNCHANGED <<records, convs>>
    PROVE  SessionInvariant'
<1>1. Answered(c, clients[c].object) /\ ClientsShaped
  BY DEF Refused, SessionInvariant, Shaped
<1>2. /\ ClientsShaped' /\ OthersWait(c)
      /\ clients'[c].pc = "idle" /\ clients'[c].id = None
      /\ clients'[c].object = clients[c].object
  BY <1>1, AnsweredFacts
<1>3. CreateIsSound(c)'
  BY <1>2, IdleIsSound
<1>4. clients[c].object # None => Refusal(Echo(clients[c].object)) = None
  BY DEF SessionInvariant, ObjectsAreSound, EchoIsAccepted
<1> QED BY <1>2, <1>3, <1>4, QuietStep

LEMMA SubmitStep ==
    ASSUME SessionInvariant, NEW c \in Clients, Submit(c)
    PROVE  SessionInvariant'
<1>1. clients[c].pc = "idle" /\ UNCHANGED <<records, convs>>
  BY DEF Submit
<1>2. PICK wire : \/ Refused(c, Refusal(wire))
                  \/ /\ Refusal(wire) = None
                     /\ clients' = [clients EXCEPT ![c].pc = "resolve", ![c].sent = wire]
  BY DEF Submit
<1>3. CASE Refused(c, Refusal(wire))
  BY <1>1, <1>3, RefusedStep
<1>4. CASE /\ Refusal(wire) = None
           /\ clients' = [clients EXCEPT ![c].pc = "resolve", ![c].sent = wire]
  <2>1. ClientsShaped /\ clients[c].id = None
    BY <1>1 DEF SessionInvariant, Shaped, CreatesAreSound, CreateIsSound, HasId
  <2>2. /\ ClientsShaped' /\ OthersWait(c)
        /\ clients'[c].pc = "resolve" /\ clients'[c].sent = wire
        /\ clients'[c].id = None /\ clients'[c].object = clients[c].object
    BY <1>4, <2>1 DEF ClientsShaped, ClientFields, OthersWait
  <2>3. CreateIsSound(c)'
    BY <1>4, <2>2 DEF CreateIsSound, HasId, ForTurn
  <2>4. clients[c].object # None => Refusal(Echo(clients[c].object)) = None
    BY DEF SessionInvariant, ObjectsAreSound, EchoIsAccepted
  <2> QED BY <1>1, <2>2, <2>3, <2>4, QuietStep
<1> QED BY <1>2, <1>3, <1>4

LEMMA RetrieveStep ==
    ASSUME SessionInvariant, NEW c \in Clients, Retrieve(c)
    PROVE  SessionInvariant'
<1>1. clients[c].pc = "idle" /\ UNCHANGED <<records, convs>>
  BY DEF Retrieve
<1>2. PICK r \in ResponseIds :
          /\ Known(r)
          /\ clients' = [clients EXCEPT ![c].object = ResponseObject(records[r].spec)]
  BY DEF Retrieve
<1> DEFINE object == ResponseObject(records[r].spec)
<1>3. Refusal(Echo(object)) = None
  BY <1>2 DEF SessionInvariant, ObjectsAreSound
<1> HIDE DEF object
<1>4. ClientsShaped /\ clients[c].id = None
  BY <1>1 DEF SessionInvariant, Shaped, CreatesAreSound, CreateIsSound, HasId
<1>5. /\ ClientsShaped' /\ OthersWait(c)
      /\ clients'[c].pc = "idle" /\ clients'[c].id = None /\ clients'[c].object = object
  BY <1>1, <1>2, <1>4 DEF ClientsShaped, ClientFields, OthersWait, object
<1> QED BY <1>1, <1>3, <1>5, IdleIsSound, QuietStep

LEMMA JudgeHolderStep ==
    ASSUME SessionInvariant, NEW c \in Clients, JudgeHolder(c)
    PROVE  SessionInvariant'
<1>1. /\ clients[c].pc = "holder" /\ UNCHANGED <<records, convs>>
      /\ Goes(c, "takeover") \/ Refused(c, "conversation_busy")
  BY DEF JudgeHolder
<1>2. CASE Refused(c, "conversation_busy")
  BY <1>1, <1>2, RefusedStep
<1>3. CASE Goes(c, "takeover")
  <2>1. /\ ClientsShaped /\ CreateIsSound(c)
        /\ clients[c].object # None => Refusal(Echo(clients[c].object)) = None
    BY DEF SessionInvariant, Shaped, CreatesAreSound, ObjectsAreSound, EchoIsAccepted
  <2>2. /\ ClientsShaped' /\ OthersWait(c)
        /\ clients'[c].pc = "takeover" /\ clients'[c].id = clients[c].id
        /\ clients'[c].sent = clients[c].sent /\ clients'[c].object = clients[c].object
    BY <1>3, <2>1, GoesFacts
  <2>3. CreateIsSound(c)'
    BY <1>1, <2>1, <2>2 DEF CreateIsSound, HasId, ForTurn, Spec_, Known
  <2> QED BY <1>1, <2>1, <2>2, <2>3, QuietStep
<1> QED BY <1>1, <1>2, <1>3

\* The conversation a create talks in, once it is known to.
LEMMA TurnOfCreate ==
    ASSUME SessionInvariant, NEW c \in Clients, clients[c].pc # "idle",
           Spec_(c).anchor.kind = "conversation"
    PROVE  /\ Conversation(c) \in ConversationIds
           /\ Spec_(c).anchor = InConversationOf(Conversation(c))
<1>1. Refusal(clients[c].sent) = None
  BY DEF SessionInvariant, CreatesAreSound, CreateIsSound
<1> QED BY <1>1, AnchorOfAccepted, AnchorOfCreate DEF Conversation

\* Giving a marker a value changes nothing else of the conversations.
LEMMA MarkerFacts ==
    ASSUME ConvsShaped, NEW v \in ConversationIds, NEW m,
           convs' = [convs EXCEPT ![v].marker = m]
    PROVE  /\ ConvsShaped' /\ SameTurns
           /\ convs'[v].marker = m
           /\ \A w \in ConversationIds \ {v} : convs'[w].marker = convs[w].marker
BY DEF ConvsShaped, ConvFields, SameTurns

LEMMA AcquireTurnStep ==
    ASSUME SessionInvariant, NEW c \in Clients, AcquireTurn(c)
    PROVE  SessionInvariant'
<1> DEFINE v == Conversation(c)
<1>1. /\ clients[c].pc \in {"acquire", "reacquire"} /\ records' = records
      /\ \/ /\ convs' = [convs EXCEPT ![v].marker = clients[c].id]
            /\ Goes(c, "admit")
         \/ /\ clients' = [clients EXCEPT ![c].pc = "holder", ![c].holder = convs[v].marker]
            /\ UNCHANGED convs
         \/ Refused(c, "conversation_busy") /\ UNCHANGED convs
  BY DEF AcquireTurn
<1>2. /\ ClientsShaped /\ CreateIsSound(c) /\ ConvsShaped /\ MarkersAreHeld
      /\ clients[c].object # None => Refusal(Echo(clients[c].object)) = None
  BY DEF SessionInvariant, Shaped, CreatesAreSound, ObjectsAreSound, EchoIsAccepted
<1>3. v \in ConversationIds /\ Spec_(c).anchor = InConversationOf(v)
  BY <1>1, <1>2, TurnOfCreate DEF CreateIsSound, ForTurn
<1> HIDE DEF v
<1>4. CASE /\ convs' = [convs EXCEPT ![v].marker = clients[c].id]
           /\ Goes(c, "admit")
  <2>1. /\ ClientsShaped' /\ OthersWait(c)
        /\ clients'[c].pc = "admit" /\ clients'[c].id = clients[c].id
        /\ clients'[c].sent = clients[c].sent /\ clients'[c].object = clients[c].object
    BY <1>2, <1>4, GoesFacts
  <2>2. CreateIsSound(c)'
    BY <1>1, <1>2, <2>1 DEF CreateIsSound, HasId, ForTurn, Spec_, Known
  <2>3. /\ ConvsShaped' /\ SameTurns
        /\ convs'[v].marker = clients[c].id
        /\ \A w \in ConversationIds \ {v} : convs'[w].marker = convs[w].marker
    BY <1>2, <1>3, <1>4, MarkerFacts
  <2>4. MarkersAreHeld'
    <3> SUFFICES ASSUME NEW w \in ConversationIds, NEW h, h = convs'[w].marker, h # None
                 PROVE  HeldByCreate(w, h)' \/ HeldByRun(w, h)'
      BY DEF MarkersAreHeld, HeldByCreate, HeldByRun
    <3>1. CASE w = v
      BY <1>3, <2>1, <2>3, <3>1 DEF HeldByCreate, Spec_
    <3>2. CASE w # v
      <4>1. HeldByCreate(w, h) \/ HeldByRun(w, h)
        BY <1>2, <2>3, <3>2 DEF MarkersAreHeld
      <4>2. HeldByCreate(w, h) => HeldByCreate(w, h)'
        BY <1>1, <2>1 DEF HeldByCreate, OthersWait, Spec_
      <4>3. HeldByRun(w, h) => HeldByRun(w, h)'
        BY <1>1 DEF HeldByRun, Known
      <4> QED BY <4>1, <4>2, <4>3
    <3> QED BY <3>1, <3>2
  <2> QED BY <1>1, <1>2, <2>1, <2>2, <2>3, <2>4, CreateStep
<1>5. CASE /\ clients' = [clients EXCEPT ![c].pc = "holder", ![c].holder = convs[v].marker]
           /\ UNCHANGED convs
  <2>1. /\ ClientsShaped' /\ OthersWait(c)
        /\ clients'[c].pc = "holder" /\ clients'[c].id = clients[c].id
        /\ clients'[c].sent = clients[c].sent /\ clients'[c].object = clients[c].object
    BY <1>2, <1>5 DEF ClientsShaped, ClientFields, OthersWait
  <2>2. CreateIsSound(c)'
    BY <1>1, <1>2, <2>1 DEF CreateIsSound, HasId, ForTurn, Spec_, Known
  <2> QED BY <1>1, <1>2, <1>5, <2>1, <2>2, QuietStep
<1>6. CASE Refused(c, "conversation_busy") /\ UNCHANGED convs
  BY <1>1, <1>6, RefusedStep
<1> QED BY <1>1, <1>4, <1>5, <1>6 DEF v

LEMMA TakeOverStep ==
    ASSUME SessionInvariant, NEW c \in Clients, TakeOver(c)
    PROVE  SessionInvariant'
<1> DEFINE v == Conversation(c)
           m == IF convs[v].marker = clients[c].holder THEN None ELSE convs[v].marker
<1>1. clients[c].pc = "takeover" /\ records' = records /\ Goes(c, "reacquire")
  BY DEF TakeOver
<1>2. /\ ClientsShaped /\ CreateIsSound(c) /\ ConvsShaped /\ MarkersAreHeld
      /\ clients[c].object # None => Refusal(Echo(clients[c].object)) = None
  BY DEF SessionInvariant, Shaped, CreatesAreSound, ObjectsAreSound, EchoIsAccepted
<1>3. v \in ConversationIds
  BY <1>1, <1>2, TurnOfCreate DEF CreateIsSound, ForTurn
<1>4. convs' = [convs EXCEPT ![v].marker = m]
  BY DEF TakeOver
<1>5. m \in {None, convs[v].marker}
  OBVIOUS
<1> HIDE DEF v, m
<1>6. /\ ClientsShaped' /\ OthersWait(c)
      /\ clients'[c].pc = "reacquire" /\ clients'[c].id = clients[c].id
      /\ clients'[c].sent = clients[c].sent /\ clients'[c].object = clients[c].object
  BY <1>1, <1>2, GoesFacts
<1>7. CreateIsSound(c)'
  BY <1>1, <1>2, <1>6 DEF CreateIsSound, HasId, ForTurn, Spec_, Known
<1>8. /\ ConvsShaped' /\ SameTurns
      /\ convs'[v].marker = m
      /\ \A w \in ConversationIds \ {v} : convs'[w].marker = convs[w].marker
  BY <1>2, <1>3, <1>4, MarkerFacts
<1>9. MarkersAreHeld'
  <2>1. \A w \in ConversationIds : convs'[w].marker \in {None, convs[w].marker}
    BY <1>5, <1>8
  <2> QED BY <1>1, <1>2, <1>6, <2>1, MarkersOfOthers
<1> QED BY <1>1, <1>2, <1>6, <1>7, <1>8, <1>9, CreateStep

LEMMA ReleaseTurnStep ==
    ASSUME SessionInvariant, NEW c \in Clients, ReleaseTurn(c)
    PROVE  SessionInvariant'
<1> DEFINE v == Conversation(c)
           m == IF convs[v].marker = clients[c].id THEN None ELSE convs[v].marker
<1>1. /\ clients[c].pc = "release" /\ records' = records
      /\ Answered(c, clients[c].object)
  BY DEF ReleaseTurn
<1>2. /\ ClientsShaped /\ CreateIsSound(c) /\ ConvsShaped /\ MarkersAreHeld
      /\ clients[c].object # None => Refusal(Echo(clients[c].object)) = None
  BY DEF SessionInvariant, Shaped, CreatesAreSound, ObjectsAreSound, EchoIsAccepted
<1>3. v \in ConversationIds /\ Spec_(c).anchor = InConversationOf(v)
  BY <1>1, <1>2, TurnOfCreate DEF CreateIsSound, ForTurn
<1>4. convs' = [convs EXCEPT ![v].marker = m]
  BY DEF ReleaseTurn
<1>5. m \in {None, convs[v].marker} /\ (m # None => m # clients[c].id)
  OBVIOUS
<1> HIDE DEF v, m
<1>6. /\ ClientsShaped' /\ OthersWait(c)
      /\ clients'[c].pc = "idle" /\ clients'[c].id = None
      /\ clients'[c].object = clients[c].object
  BY <1>1, <1>2, AnsweredFacts
<1>7. CreateIsSound(c)'
  BY <1>6, IdleIsSound
<1>8. /\ ConvsShaped' /\ SameTurns
      /\ convs'[v].marker = m
      /\ \A w \in ConversationIds \ {v} : convs'[w].marker = convs[w].marker
  BY <1>2, <1>3, <1>4, MarkerFacts
<1>9. MarkersAreHeld'
  <2>1. \A w \in ConversationIds : convs'[w].marker \in {None, convs[w].marker}
    BY <1>5, <1>8
  <2>2. ASSUME NEW w \in ConversationIds, NEW h, convs'[w].marker = h, h # None,
               HeldByCreate(w, h)
        PROVE  HeldByCreate(w, h)'
    <3>1. PICK d \in Clients : /\ clients[d].id = h /\ clients[d].pc \in {"admit", "release"}
                               /\ Spec_(d).anchor = InConversationOf(w)
      BY <2>2 DEF HeldByCreate
    <3>2. d # c
      <4>1. InConversationOf(w) = InConversationOf(v) => w = v
        BY DEF InConversationOf
      <4> QED BY <1>3, <1>5, <1>8, <2>2, <3>1, <4>1
    <3> QED BY <1>6, <3>1, <3>2 DEF HeldByCreate, OthersWait, Spec_
  <2>3. ASSUME NEW w \in ConversationIds, NEW h, HeldByRun(w, h)
        PROVE  HeldByRun(w, h)'
    BY <1>1, <2>3 DEF HeldByRun, Known
  <2> QED BY <1>2, <2>1, <2>2, <2>3, MarkersKept
<1> QED BY <1>1, <1>2, <1>6, <1>7, <1>8, <1>9, CreateStep

LEMMA ResolveStep ==
    ASSUME SessionInvariant, NEW c \in Clients, Resolve(c)
    PROVE  SessionInvariant'
<1> DEFINE anchor == Spec_(c).anchor
           id == CHOOSE r \in Unused : TRUE
<1>1. clients[c].pc = "resolve" /\ records' = records
  BY DEF Resolve
<1>2. /\ ClientsShaped /\ CreatesAreSound /\ ConvsShaped /\ MarkersAreHeld /\ TurnsAreCounted
      /\ CreateIsSound(c)
      /\ clients[c].object # None => Refusal(Echo(clients[c].object)) = None
  BY DEF SessionInvariant, Shaped, CreatesAreSound, ObjectsAreSound, EchoIsAccepted
<1>3. CASE Refused(c, ResolveError(anchor)) /\ UNCHANGED convs
  BY <1>1, <1>3, RefusedStep
<1>4. CASE /\ ResolveError(anchor) = None /\ Unused # {}
           /\ clients' = [clients EXCEPT
                 ![c].id = id,
                 ![c].pc = IF anchor.kind = "conversation" THEN "acquire" ELSE "admit"]
           /\ convs' = [v \in ConversationIds |->
                           IF anchor = InConversationOf(v)
                           THEN [convs[v] EXCEPT !.overlapped = @ \/ Overlaps(v, c)]
                           ELSE convs[v]]
  <2>1. id \in ResponseIds /\ ~Known(id) /\ \A d \in Clients : clients[d].id # id
    <3>1. id \in Unused
      BY <1>4
    <3> HIDE DEF id
    <3> QED BY <3>1 DEF Unused
  <2>2. clients[c].id = None /\ id # None
    BY <1>1, <1>2, <2>1, ProtocolConstants DEF CreateIsSound, HasId
  <2>3. anchor = Anchor(clients[c].sent)
    BY AnchorOfCreate
  <2> HIDE DEF anchor, id
  <2>4. /\ ClientsShaped' /\ OthersWait(c) /\ clients'[c].id = id
        /\ clients'[c].pc = IF anchor.kind = "conversation" THEN "acquire" ELSE "admit"
        /\ clients'[c].sent = clients[c].sent /\ clients'[c].object = clients[c].object
    BY <1>2, <1>4 DEF ClientsShaped, ClientFields, OthersWait
  <2>5. Spec_(c)' = Spec_(c)
    BY <2>4 DEF Spec_
  <2>6. CreatesAreSound'
    <3>1. CreateIsSound(c)'
      BY <1>1, <1>2, <2>1, <2>4, <2>5 DEF CreateIsSound, HasId, ForTurn, Known, anchor
    <3>2. ASSUME NEW d \in Clients \ {c} PROVE CreateIsSound(d)'
      BY <1>1, <1>2, <2>4, <3>2 DEF CreatesAreSound, CreateIsSound, HasId, OthersWait, Spec_, Known
    <3>3. ASSUME NEW d \in Clients, NEW e \in Clients, clients'[d].id = clients'[e].id
          PROVE  d = e \/ clients'[d].id = None
      BY <1>2, <2>1, <2>4, <3>3 DEF CreatesAreSound, OthersWait
    <3> QED BY <3>1, <3>2, <3>3 DEF CreatesAreSound
  <2>7. /\ DOMAIN convs' = ConversationIds
        /\ \A v \in ConversationIds :
              /\ DOMAIN convs'[v] = ConvFields
              /\ convs'[v].marker = convs[v].marker /\ convs'[v].context = convs[v].context
              /\ anchor # InConversationOf(v) => convs'[v].overlapped = convs[v].overlapped
              /\ anchor = InConversationOf(v) =>
                    convs'[v].overlapped = (convs[v].overlapped \/ Overlaps(v, c))
    BY <1>2, <1>4 DEF ConvsShaped, ConvFields
  <2>8. Shaped'
    BY <1>1, <2>4, <2>7 DEF SessionInvariant, Shaped, RecordsShaped, ConvsShaped, Known
  <2>9. RunsAreSound'
    BY <1>1 DEF SessionInvariant, RunsAreSound, RunIsSound, InFlight, Known, InConversation
  <2>10. MarkersAreHeld'
    BY <1>1, <1>2, <2>4, <2>7, MarkersOfOthers
  <2>11. ObjectsAreSound'
    BY <1>1, <2>4 DEF SessionInvariant, ObjectsAreSound, EchoIsAccepted, Known, OthersWait
  <2>12. TurnsAreCounted'
    <3> SUFFICES ASSUME NEW v \in ConversationIds
                 PROVE  /\ convs'[v].overlapped \in BOOLEAN
                        /\ convs'[v].context.turns \in Nat
                        /\ ~convs'[v].overlapped => InTurn(v)'
      BY DEF TurnsAreCounted
    <3>1. /\ convs[v].overlapped \in BOOLEAN /\ convs[v].context.turns \in Nat
          /\ ~convs[v].overlapped => InTurn(v)
      BY <1>2 DEF TurnsAreCounted
    <3>2. \A d \in Clients \ {c} : Talks(d, v)' <=> Talks(d, v)
      BY <2>4 DEF Talks, OthersWait, Spec_
    <3>3. \A r \in ResponseIds : Runs(r, v)' <=> Runs(r, v)
      BY <1>1 DEF Runs, Known
    <3>4. \A r \in ResponseIds : Known(r)' <=> Known(r)
      BY <1>1 DEF Known
    <3>5. CASE anchor # InConversationOf(v)
      <4>1. ~Talks(c, v)'
        BY <2>5, <3>5 DEF Talks, anchor
      <4>2. ~convs[v].overlapped => InTurn(v)'
        BY <1>1, <2>7, <3>1, <3>2, <3>3, <3>4, <4>1 DEF InTurn
      <4> QED BY <2>7, <3>1, <3>5, <4>2
    <3>6. CASE anchor = InConversationOf(v)
      <4>1. convs'[v].overlapped \in BOOLEAN
        <5>1. (convs[v].overlapped \/ Overlaps(v, c)) \in BOOLEAN
          BY Zenon
        <5> QED BY <2>7, <3>6, <5>1, Zenon
      <4>2. ASSUME ~convs'[v].overlapped PROVE ~convs[v].overlapped /\ ~Overlaps(v, c)
        BY <2>7, <3>6, <4>2, Zenon
      <4>3. ~Overlaps(v, c) => /\ \A d \in Clients \ {c} : ~Talks(d, v)
                               /\ \A r \in ResponseIds : ~Runs(r, v)
        BY DEF Overlaps, Talks, Runs, InConversationOf
      <4>4. convs[v].context.turns < Chain.depth
        <5>1. /\ None # "previous_not_stored" /\ None # "chain_too_long"
              /\ None # "chain_too_large" /\ Chain.depth \in Nat
          BY ProtocolConstants DEF ErrorCodes
        <5>2. anchor.kind = "conversation" /\ anchor.id = v
          BY <3>6 DEF InConversationOf
        <5>3. Snapshot(anchor) = Found(convs[v].context)
          BY <5>2 DEF Snapshot
        <5>4. ContextViolation(convs[v].context) = None
          BY <1>4, <5>1, <5>2, <5>3 DEF ResolveError, NotStored, Found
        <5> QED BY <3>1, <5>1, <5>4 DEF ContextViolation
      <4>5. ~convs'[v].overlapped => InTurn(v)'
        BY <1>1, <2>7, <3>1, <3>2, <3>3, <3>4, <4>2, <4>3, <4>4 DEF InTurn
      <4> QED BY <2>7, <3>1, <4>1, <4>5
    <3> QED BY <3>5, <3>6
  <2> QED BY <2>6, <2>8, <2>9, <2>10, <2>11, <2>12 DEF SessionInvariant
<1> QED BY <1>3, <1>4 DEF Resolve, InConversationOf

\* A client that is not admitted, and gives its marker back if it took one.
LEMMA NotAdmittedStep ==
    ASSUME SessionInvariant, NEW c \in Clients, clients[c].pc = "admit",
           NEW object, object # None => Refusal(Echo(object)) = None,
           UNCHANGED <<records, convs>>,
           IF Spec_(c).anchor.kind = "conversation"
           THEN clients' = [clients EXCEPT ![c].pc = "release", ![c].object = object]
           ELSE Answered(c, object)
    PROVE  SessionInvariant'
<1>1. ClientsShaped /\ CreateIsSound(c) /\ ConvsShaped /\ MarkersAreHeld
  BY DEF SessionInvariant, Shaped, CreatesAreSound
<1>2. ConvsShaped' /\ SameTurns
  BY <1>1 DEF ConvsShaped, SameTurns
<1>3. ASSUME NEW v \in ConversationIds, NEW h, HeldByRun(v, h)
      PROVE  HeldByRun(v, h)'
  BY <1>3 DEF HeldByRun, Known
<1>4. CASE Spec_(c).anchor.kind = "conversation"
  <2>1. /\ ClientsShaped' /\ OthersWait(c)
        /\ clients'[c].pc = "release" /\ clients'[c].id = clients[c].id
        /\ clients'[c].sent = clients[c].sent /\ clients'[c].object = object
    BY <1>1, <1>4 DEF ClientsShaped, ClientFields, OthersWait
  <2>2. CreateIsSound(c)'
    BY <1>1, <1>4, <2>1 DEF CreateIsSound, HasId, ForTurn, Spec_, Known
  <2>3. ASSUME NEW v \in ConversationIds, NEW h, HeldByCreate(v, h)
        PROVE  HeldByCreate(v, h)'
    BY <2>1, <2>3 DEF HeldByCreate, OthersWait, Spec_
  <2>4. MarkersAreHeld'
    BY <1>1, <1>3, <2>3, MarkersKept
  <2> QED BY <1>2, <2>1, <2>2, <2>4, CreateStep
<1>5. CASE Spec_(c).anchor.kind # "conversation"
  <2>1. /\ ClientsShaped' /\ OthersWait(c)
        /\ clients'[c].pc = "idle" /\ clients'[c].id = None /\ clients'[c].object = object
    BY <1>1, <1>5, AnsweredFacts
  <2>2. CreateIsSound(c)'
    BY <2>1, IdleIsSound
  <2>3. ASSUME NEW v \in ConversationIds, NEW h, HeldByCreate(v, h)
        PROVE  HeldByCreate(v, h)'
    <3>1. PICK d \in Clients : /\ clients[d].id = h /\ clients[d].pc \in {"admit", "release"}
                               /\ Spec_(d).anchor = InConversationOf(v)
      BY <2>3 DEF HeldByCreate
    <3>2. d # c
      BY <1>5, <3>1 DEF InConversationOf
    <3> QED BY <2>1, <3>1, <3>2 DEF HeldByCreate, OthersWait, Spec_
  <2>4. MarkersAreHeld'
    BY <1>1, <1>3, <2>3, MarkersKept
  <2> QED BY <1>2, <2>1, <2>2, <2>4, CreateStep
<1> QED BY <1>4, <1>5

\* A record with all its fields is not the absence of one.
LEMMA WholeRecord ==
    ASSUME NEW record, DOMAIN record = RecordFields
    PROVE  record # NoRecord
<1>1. "spec" \in DOMAIN record
  BY DEF RecordFields
<1>2. "spec" \notin DOMAIN NoRecord
  BY DEF NoRecord
<1> QED BY <1>1, <1>2

LEMMA AdmittedStep ==
    ASSUME SessionInvariant, NEW c \in Clients, clients[c].pc = "admit",
           records' = [records EXCEPT ![clients[c].id] = Queued(c)],
           Answered(c, ResponseObject(Spec_(c))), UNCHANGED convs
    PROVE  SessionInvariant'
<1> DEFINE object == ResponseObject(Spec_(c))
<1>0. PICK r : r = clients[c].id
  OBVIOUS
<1>1. /\ ClientsShaped /\ RecordsShaped /\ ConvsShaped
      /\ CreatesAreSound /\ RunsAreSound /\ MarkersAreHeld /\ TurnsAreCounted /\ ObjectsAreSound
      /\ CreateIsSound(c)
  BY DEF SessionInvariant, Shaped, CreatesAreSound
<1>2. r \in ResponseIds /\ r # None /\ ~Known(r) /\ Refusal(clients[c].sent) = None
  BY <1>0, <1>1, ProtocolConstants DEF CreateIsSound, HasId
<1>3. Refusal(Echo(object)) = None
  BY <1>2, AcceptedTwice DEF Spec_
<1>4. /\ Queued(c).spec = Spec_(c) /\ Queued(c).step = "run" /\ Queued(c).turns = 0
      /\ DOMAIN Queued(c) = RecordFields
  BY DEF Queued, RecordFields
<1>5. /\ ClientsShaped' /\ OthersWait(c)
      /\ clients'[c].pc = "idle" /\ clients'[c].id = None /\ clients'[c].object = object
  BY <1>1, AnsweredFacts
<1> HIDE DEF object
<1>6. /\ DOMAIN records' = ResponseIds
      /\ records'[r] = Queued(c) /\ \A s \in ResponseIds \ {r} : records'[s] = records[s]
  BY <1>0, <1>1, <1>2 DEF RecordsShaped
<1>7. Known(r)' /\ \A s \in ResponseIds \ {r} : Known(s)' <=> Known(s)
  BY <1>4, <1>6, WholeRecord DEF Known
<1>8. Shaped'
  BY <1>1, <1>4, <1>5, <1>6, <1>7 DEF Shaped, RecordsShaped, ConvsShaped
<1>9. CreatesAreSound'
  <2>1. CreateIsSound(c)'
    BY <1>5, IdleIsSound
  <2>2. ASSUME NEW d \in Clients \ {c} PROVE CreateIsSound(d)'
    <3>1. CreateIsSound(d) /\ clients'[d] = clients[d] /\ clients[d].id # r
      BY <1>0, <1>1, <1>2, <1>5, <2>2 DEF CreatesAreSound, OthersWait
    <3> QED BY <1>7, <3>1 DEF CreateIsSound, HasId, Spec_
  <2>3. ASSUME NEW d \in Clients, NEW e \in Clients, clients'[d].id = clients'[e].id
        PROVE  d = e \/ clients'[d].id = None
    BY <1>1, <1>5, <2>3 DEF CreatesAreSound, OthersWait
  <2> QED BY <2>1, <2>2, <2>3 DEF CreatesAreSound
<1>10. RunsAreSound'
  <2>1. RunIsSound(r)'
    <3>1. Spec_(c).anchor.kind = "conversation" =>
             /\ Spec_(c).anchor.id \in ConversationIds
             /\ Spec_(c).anchor = InConversationOf(Spec_(c).anchor.id)
      BY <1>2, AnchorOfAccepted, AnchorOfCreate
    <3> QED BY <1>4, <1>6, <3>1 DEF RunIsSound, InConversation
  <2>2. ASSUME NEW s \in ResponseIds \ {r}, Known(s)' PROVE RunIsSound(s)'
    BY <1>1, <1>6, <1>7, <2>2 DEF RunsAreSound, RunIsSound, InConversation, InFlight
  <2> QED BY <2>1, <2>2 DEF RunsAreSound
<1>11. MarkersAreHeld'
  <2>1. ASSUME NEW v \in ConversationIds, NEW h, HeldByCreate(v, h)
        PROVE  HeldByCreate(v, h)' \/ HeldByRun(v, h)'
    <3>1. PICK d \in Clients : /\ clients[d].id = h /\ clients[d].pc \in {"admit", "release"}
                               /\ Spec_(d).anchor = InConversationOf(v)
      BY <2>1 DEF HeldByCreate
    <3>2. CASE d = c
      BY <1>0, <1>2, <1>4, <1>6, <1>7, <3>1, <3>2 DEF HeldByRun
    <3>3. CASE d # c
      BY <1>5, <3>1, <3>3 DEF HeldByCreate, OthersWait, Spec_
    <3> QED BY <3>2, <3>3
  <2>2. ASSUME NEW v \in ConversationIds, NEW h, HeldByRun(v, h)
        PROVE  HeldByRun(v, h)'
    BY <1>2, <1>6, <1>7, <2>2 DEF HeldByRun
  <2> QED BY <1>1, <2>1, <2>2, MarkersKept
<1>12. TurnsAreCounted'
  <2> SUFFICES ASSUME NEW v \in ConversationIds, ~convs[v].overlapped PROVE InTurn(v)'
    BY <1>1 DEF TurnsAreCounted
  <2>1. InTurn(v) /\ convs[v].context.turns \in Nat
    BY <1>1 DEF TurnsAreCounted
  <2>2. ~Talks(c, v)'
    BY <1>5 DEF Talks
  <2>3. \A d \in Clients \ {c} : Talks(d, v)' <=> Talks(d, v)
    BY <1>5 DEF Talks, OthersWait, Spec_
  <2>4. \A s \in ResponseIds \ {r} : Runs(s, v)' <=> Runs(s, v)
    BY <1>6, <1>7 DEF Runs
  <2>5. Runs(r, v)' <=> Talks(c, v)
    BY <1>0, <1>2, <1>4, <1>6, <1>7 DEF Runs, Talks
  <2>6. 0 < Chain.depth
    BY ProtocolConstants
  <2> QED BY <1>2, <1>4, <1>6, <1>7, <2>1, <2>2, <2>3, <2>4, <2>5, <2>6 DEF InTurn
<1>13. ObjectsAreSound'
  <2>1. EchoIsAccepted'
    BY <1>1, <1>3, <1>5 DEF ObjectsAreSound, EchoIsAccepted, OthersWait
  <2>2. ASSUME NEW s \in ResponseIds, Known(s)'
        PROVE  Refusal(Echo(ResponseObject(records'[s].spec))) = None
    BY <1>1, <1>3, <1>4, <1>6, <1>7, <2>2 DEF ObjectsAreSound, object
  <2> QED BY <2>1, <2>2 DEF ObjectsAreSound
<1> QED BY <1>8, <1>9, <1>10, <1>11, <1>12, <1>13 DEF SessionInvariant

LEMMA AdmitStep ==
    ASSUME SessionInvariant, NEW c \in Clients, Admit(c)
    PROVE  SessionInvariant'
<1> DEFINE twin == CHOOSE r \in WithKey(KeyOf(c)) : TRUE
<1>1. clients[c].pc = "admit" /\ UNCHANGED convs
  BY DEF Admit
<1>2. AdmitOutcome(c) \in {"accepted", "duplicate", "overloaded"}
  BY DEF AdmitOutcome
<1>3. CASE AdmitOutcome(c) = "accepted"
  BY <1>1, <1>3, AdmittedStep DEF Admit, MustRelease
<1>4. CASE AdmitOutcome(c) = "duplicate"
  <2>1. twin \in ResponseIds /\ Known(twin)
    <3>1. WithKey(KeyOf(c)) # {}
      BY <1>4 DEF AdmitOutcome
    <3>2. twin \in WithKey(KeyOf(c))
      BY <3>1
    <3> QED BY <3>2 DEF WithKey
  <2>2. Refusal(Echo(ResponseObject(records[twin].spec))) = None
    BY <2>1 DEF SessionInvariant, ObjectsAreSound
  <2> QED BY <1>1, <1>4, <2>2, NotAdmittedStep DEF Admit, MustRelease
<1>5. CASE AdmitOutcome(c) = "overloaded"
  <2>1. clients[c].object # None => Refusal(Echo(clients[c].object)) = None
    BY DEF SessionInvariant, ObjectsAreSound, EchoIsAccepted
  <2> QED BY <1>1, <1>5, <2>1, NotAdmittedStep DEF Admit, MustRelease
<1> QED BY <1>2, <1>3, <1>4, <1>5

----------------------------------------------------------------------------
(* The steps of a run.                                                     *)

\* A record is changed, and stays the record of the same request.
Rewrites(r) ==
    /\ RecordsShaped' /\ Known(r)' /\ records'[r].spec = records[r].spec
    /\ \A s \in ResponseIds \ {r} : records'[s] = records[s]

LEMMA RunStep ==
    ASSUME SessionInvariant, NEW r \in ResponseIds, Known(r), clients' = clients,
           Rewrites(r), RunIsSound(r)', ConvsShaped', MarkersAreHeld', TurnsAreCounted'
    PROVE  SessionInvariant'
<1>1. \A s \in ResponseIds : Known(s)' <=> Known(s)
  BY DEF Rewrites, Known
<1>2. Shaped'
  BY DEF SessionInvariant, Shaped, ClientsShaped, Rewrites
<1>3. CreatesAreSound'
  BY <1>1 DEF SessionInvariant, CreatesAreSound, CreateIsSound, HasId, Spec_
<1>4. RunsAreSound'
  <2>1. ASSUME NEW s \in ResponseIds \ {r}, Known(s)' PROVE RunIsSound(s)'
    BY <1>1, <2>1 DEF SessionInvariant, RunsAreSound, RunIsSound, InConversation, InFlight,
                      Rewrites
  <2> QED BY <2>1 DEF RunsAreSound
<1>5. ObjectsAreSound'
  BY <1>1 DEF SessionInvariant, ObjectsAreSound, EchoIsAccepted, Rewrites
<1> QED BY <1>2, <1>3, <1>4, <1>5 DEF SessionInvariant

\* A run that keeps to its first three steps goes on holding its marker.
LEMMA MarkersOfRun ==
    ASSUME MarkersAreHeld, NEW r \in ResponseIds, Known(r), clients' = clients, Rewrites(r),
           \A v \in ConversationIds :
              /\ convs'[v].marker \in {None, convs[v].marker}
              /\ convs'[v].marker = r /\ HeldByRun(v, r) =>
                    records'[r].step \in {"run", "archive", "release"}
    PROVE  MarkersAreHeld'
<1>1. ASSUME NEW v \in ConversationIds, NEW h, HeldByCreate(v, h)
      PROVE  HeldByCreate(v, h)'
  BY <1>1 DEF HeldByCreate, Spec_
<1>2. ASSUME NEW v \in ConversationIds, NEW h, convs'[v].marker = h, HeldByRun(v, h)
      PROVE  HeldByRun(v, h)'
  <2>1. CASE h = r
    BY <1>2, <2>1 DEF HeldByRun, Rewrites
  <2>2. CASE h # r
    BY <1>2, <2>2 DEF HeldByRun, Rewrites, Known
  <2> QED BY <2>1, <2>2
<1> QED BY <1>1, <1>2, MarkersKept

LEMMA TurnsOfRun ==
    ASSUME TurnsAreCounted, NEW r \in ResponseIds, Known(r), clients' = clients, Rewrites(r),
           SameTurns,
           records'[r].step \in {"run", "archive"} => records[r].step \in {"run", "archive"},
           \/ records'[r].turns = records[r].turns
           \/ \A v \in ConversationIds :
                 ~convs[v].overlapped /\ records[r].spec.anchor = InConversationOf(v) =>
                     records'[r].turns < Chain.depth
    PROVE  TurnsAreCounted'
<1>1. \A s \in ResponseIds : Known(s)' <=> Known(s)
  BY DEF Rewrites, Known
<1>2. ASSUME NEW d \in Clients, NEW v, Talks(d, v)' PROVE Talks(d, v)
  BY <1>2 DEF Talks, Spec_
<1>3. ASSUME NEW s \in ResponseIds, NEW v, Runs(s, v)' PROVE Runs(s, v)
  BY <1>1, <1>3 DEF Runs, Rewrites
<1> QED BY <1>1, <1>2, <1>3, TurnsKept DEF SameTurns, Rewrites

\* Where the run of a response goes when it is over.
LEMMA AfterRunFacts ==
    ASSUME NEW r
    PROVE  /\ InConversation(r) => AfterRun(r) \in {"archive", "release"}
           /\ ~InConversation(r) => AfterRun(r) = "close"
BY DEF AfterRun

LEMMA StartStep ==
    ASSUME SessionInvariant, NEW r \in ResponseIds, Start(r)
    PROVE  SessionInvariant'
<1> DEFINE snapshot == Snapshot(records[r].spec.anchor)
           status == IF snapshot.error = None THEN "in_progress" ELSE "failed"
           step == IF snapshot.error = None THEN records[r].step ELSE AfterRun(r)
<1>1. Known(r) /\ records[r].status = "queued" /\ clients' = clients /\ convs' = convs
  BY DEF Start
<1>2. records' = [records EXCEPT ![r].status = status, ![r].step = step,
                                 ![r].turns = snapshot.context.turns]
  BY DEF Start
<1>3. /\ RecordsShaped /\ ConvsShaped /\ RunIsSound(r) /\ MarkersAreHeld /\ TurnsAreCounted
  BY <1>1 DEF SessionInvariant, Shaped, RunsAreSound
<1>4. records[r].step = "run"
  BY <1>1, <1>3 DEF RunIsSound, InFlight
<1>5. /\ step \in {"run", "archive", "release", "close"}
      /\ step \in {"archive", "release"} => InConversation(r)
      /\ InConversation(r) => step # "close"
      /\ status \in {"queued", "in_progress"} => step = "run"
  BY <1>4, AfterRunFacts
<1>6. ASSUME NEW v \in ConversationIds, ~convs[v].overlapped,
             records[r].spec.anchor = InConversationOf(v)
      PROVE  snapshot.context.turns < Chain.depth
  <2>1. snapshot = Found(convs[v].context)
    BY <1>6 DEF Snapshot, InConversationOf
  <2>2. Runs(r, v)
    BY <1>1, <1>4, <1>6 DEF Runs
  <2>3. InTurn(v)
    BY <1>3, <1>6 DEF TurnsAreCounted
  <2> QED BY <2>1, <2>2, <2>3 DEF InTurn, Found
<1> HIDE DEF snapshot, status, step
<1>7. /\ DOMAIN records' = ResponseIds /\ DOMAIN records'[r] = RecordFields
      /\ records'[r].spec = records[r].spec /\ records'[r].status = status
      /\ records'[r].step = step /\ records'[r].turns = snapshot.context.turns
      /\ \A s \in ResponseIds \ {r} : records'[s] = records[s]
  BY <1>1, <1>2, <1>3 DEF RecordsShaped, RecordFields
<1>8. Rewrites(r)
  BY <1>3, <1>7, WholeRecord DEF Rewrites, RecordsShaped, Known
<1>9. RunIsSound(r)'
  BY <1>3, <1>5, <1>7 DEF RunIsSound, InFlight, InConversation
<1>10. MarkersAreHeld'
  <2>1. ASSUME NEW v \in ConversationIds, HeldByRun(v, r)
        PROVE  records'[r].step \in {"run", "archive", "release"}
    BY <1>5, <1>7, <2>1 DEF HeldByRun, InConversation, InConversationOf
  <2> QED BY <1>1, <1>3, <1>8, <2>1, MarkersOfRun
<1>11. TurnsAreCounted'
  BY <1>1, <1>3, <1>4, <1>6, <1>7, <1>8, TurnsOfRun DEF SameTurns
<1>12. ConvsShaped'
  BY <1>1, <1>3 DEF ConvsShaped
<1> QED BY <1>1, <1>8, <1>9, <1>10, <1>11, <1>12, RunStep

LEMMA FinishStep ==
    ASSUME SessionInvariant, NEW r \in ResponseIds, Finish(r)
    PROVE  SessionInvariant'
<1>1. Known(r) /\ records[r].status = "in_progress" /\ clients' = clients /\ convs' = convs
  BY DEF Finish
<1>2. PICK reply \in Replies :
          records' = [records EXCEPT ![r].status = reply.status, ![r].output = reply.output,
                                     ![r].reasoning = ReasoningOf(reply),
                                     ![r].step = AfterRun(r)]
  BY DEF Finish
<1>3. /\ RecordsShaped /\ ConvsShaped /\ RunIsSound(r) /\ MarkersAreHeld /\ TurnsAreCounted
  BY <1>1 DEF SessionInvariant, Shaped, RunsAreSound
<1>4. records[r].step = "run" /\ reply.status \notin {"queued", "in_progress"}
  BY <1>1, <1>3, SessionConstants DEF RunIsSound, InFlight
<1>5. /\ DOMAIN records' = ResponseIds /\ DOMAIN records'[r] = RecordFields
      /\ records'[r].spec = records[r].spec /\ records'[r].status = reply.status
      /\ records'[r].step = AfterRun(r) /\ records'[r].turns = records[r].turns
      /\ \A s \in ResponseIds \ {r} : records'[s] = records[s]
  BY <1>1, <1>2, <1>3 DEF RecordsShaped, RecordFields
<1>6. Rewrites(r)
  BY <1>3, <1>5, WholeRecord DEF Rewrites, RecordsShaped, Known
<1>7. RunIsSound(r)'
  BY <1>3, <1>4, <1>5, AfterRunFacts DEF RunIsSound, InFlight, InConversation
<1>8. MarkersAreHeld'
  <2>1. ASSUME NEW v \in ConversationIds, HeldByRun(v, r)
        PROVE  records'[r].step \in {"run", "archive", "release"}
    BY <1>5, <2>1, AfterRunFacts DEF HeldByRun, InConversation, InConversationOf
  <2> QED BY <1>1, <1>3, <1>6, <2>1, MarkersOfRun
<1>9. TurnsAreCounted'
  BY <1>1, <1>3, <1>4, <1>5, <1>6, TurnsOfRun DEF SameTurns
<1>10. ConvsShaped'
  BY <1>1, <1>3 DEF ConvsShaped
<1> QED BY <1>1, <1>6, <1>7, <1>8, <1>9, <1>10, RunStep

LEMMA StepToFacts ==
    ASSUME RecordsShaped, NEW r \in ResponseIds, Known(r), NEW step, StepTo(r, step)
    PROVE  /\ Rewrites(r) /\ records'[r].step = step
           /\ records'[r].status = records[r].status /\ records'[r].turns = records[r].turns
<1>1. /\ DOMAIN records' = ResponseIds /\ DOMAIN records'[r] = RecordFields
      /\ records'[r].spec = records[r].spec /\ records'[r].status = records[r].status
      /\ records'[r].step = step /\ records'[r].turns = records[r].turns
      /\ \A s \in ResponseIds \ {r} : records'[s] = records[s]
  BY DEF RecordsShaped, RecordFields, StepTo
<1> QED BY <1>1, WholeRecord DEF Rewrites, RecordsShaped, Known

LEMMA ArchiveTurnStep ==
    ASSUME SessionInvariant, NEW r \in ResponseIds, ArchiveTurn(r)
    PROVE  SessionInvariant'
<1>1. Known(r) /\ records[r].step = "archive" /\ clients' = clients /\ StepTo(r, "release")
  BY DEF ArchiveTurn
<1>2. /\ RecordsShaped /\ ConvsShaped /\ RunIsSound(r) /\ MarkersAreHeld /\ TurnsAreCounted
  BY <1>1 DEF SessionInvariant, Shaped, RunsAreSound
<1>3. PICK v \in ConversationIds : records[r].spec.anchor = InConversationOf(v)
  BY <1>1, <1>2 DEF RunIsSound
<1>4. records[r].spec.anchor.id = v
  BY <1>3 DEF InConversationOf
<1> DEFINE turn == WithTurn(convs[v].context, records[r].spec.items, records[r].output,
                            records[r].reasoning)
<1>5. convs' = [convs EXCEPT ![v].context = turn]
  BY <1>4 DEF ArchiveTurn
<1>6. turn.turns = convs[v].context.turns + 1
  BY DEF WithTurn
<1> HIDE DEF turn
<1>7. /\ ConvsShaped' /\ convs'[v].context = turn
      /\ \A w \in ConversationIds : /\ convs'[w].marker = convs[w].marker
                                    /\ convs'[w].overlapped = convs[w].overlapped
                                    /\ w # v => convs'[w].context = convs[w].context
  BY <1>2, <1>5 DEF ConvsShaped, ConvFields
<1>8. /\ Rewrites(r) /\ records'[r].step = "release"
      /\ records'[r].status = records[r].status /\ records'[r].turns = records[r].turns
  BY <1>1, <1>2, StepToFacts
<1>9. RunIsSound(r)'
  BY <1>1, <1>2, <1>8 DEF RunIsSound, InFlight, InConversation, Rewrites
<1>10. MarkersAreHeld'
  BY <1>1, <1>2, <1>7, <1>8, MarkersOfRun
<1>11. TurnsAreCounted'
  <2> SUFFICES ASSUME NEW w \in ConversationIds
               PROVE  /\ convs'[w].overlapped \in BOOLEAN
                      /\ convs'[w].context.turns \in Nat
                      /\ ~convs'[w].overlapped => InTurn(w)'
    BY DEF TurnsAreCounted
  <2>1. /\ convs[w].overlapped \in BOOLEAN /\ convs[w].context.turns \in Nat
        /\ ~convs[w].overlapped => InTurn(w)
    BY <1>2 DEF TurnsAreCounted
  <2>2. \A d \in Clients : Talks(d, w)' <=> Talks(d, w)
    BY <1>1 DEF Talks, Spec_
  <2>3. \A s \in ResponseIds : Known(s)' <=> Known(s)
    BY <1>1, <1>8 DEF Rewrites, Known
  <2>4. \A s \in ResponseIds \ {r} : Runs(s, w)' <=> Runs(s, w)
    BY <1>8, <2>3 DEF Runs, Rewrites
  <2>5. ~Runs(r, w)'
    BY <1>8 DEF Runs
  <2>6. \A s \in ResponseIds : records'[s].turns = records[s].turns
                               /\ records'[s].spec = records[s].spec
    BY <1>8 DEF Rewrites
  <2>7. CASE w # v
    BY <1>7, <2>1, <2>2, <2>3, <2>4, <2>5, <2>6, <2>7 DEF InTurn
  <2>8. CASE w = v
    <3>1. Runs(r, v)
      BY <1>1, <1>3 DEF Runs
    <3>2. convs'[v].context.turns = convs[v].context.turns + 1
      BY <1>6, <1>7
    <3>3. Chain.depth \in Nat
      BY ProtocolConstants
    <3>4. ~convs[v].overlapped => InTurn(v)'
      BY <2>1, <2>2, <2>3, <2>4, <2>5, <2>6, <2>8, <3>1, <3>2, <3>3 DEF InTurn
    <3> QED BY <1>7, <2>1, <2>8, <3>2, <3>4
  <2> QED BY <2>7, <2>8
<1> QED BY <1>1, <1>7, <1>8, <1>9, <1>10, <1>11, RunStep

LEMMA SettleStep ==
    ASSUME SessionInvariant, NEW r \in ResponseIds, Settle(r)
    PROVE  SessionInvariant'
<1>1. Known(r) /\ records[r].step = "release" /\ clients' = clients /\ StepTo(r, "done")
  BY DEF Settle
<1>2. /\ RecordsShaped /\ ConvsShaped /\ RunIsSound(r) /\ MarkersAreHeld /\ TurnsAreCounted
  BY <1>1 DEF SessionInvariant, Shaped, RunsAreSound
<1>3. PICK v \in ConversationIds : records[r].spec.anchor = InConversationOf(v)
  BY <1>1, <1>2 DEF RunIsSound
<1>4. records[r].spec.anchor.id = v
  BY <1>3 DEF InConversationOf
<1> DEFINE m == IF convs[v].marker = r THEN None ELSE convs[v].marker
<1>5. convs' = [convs EXCEPT ![v].marker = m]
  BY <1>4 DEF Settle
<1>6. m \in {None, convs[v].marker} /\ m # r
  BY ProtocolConstants
<1> HIDE DEF m
<1>7. /\ ConvsShaped' /\ SameTurns
      /\ convs'[v].marker = m
      /\ \A w \in ConversationIds \ {v} : convs'[w].marker = convs[w].marker
  BY <1>2, <1>5, MarkerFacts
<1>8. /\ Rewrites(r) /\ records'[r].step = "done"
      /\ records'[r].status = records[r].status /\ records'[r].turns = records[r].turns
  BY <1>1, <1>2, StepToFacts
<1>9. RunIsSound(r)'
  BY <1>1, <1>2, <1>8 DEF RunIsSound, InFlight, InConversation, Rewrites
<1>10. MarkersAreHeld'
  <2>1. ASSUME NEW w \in ConversationIds
        PROVE  /\ convs'[w].marker \in {None, convs[w].marker}
               /\ ~(convs'[w].marker = r /\ HeldByRun(w, r))
    <3>1. HeldByRun(w, r) => w = v
      BY <1>3 DEF HeldByRun, InConversationOf
    <3> QED BY <1>6, <1>7, <3>1
  <2> QED BY <1>1, <1>2, <1>8, <2>1, MarkersOfRun
<1>11. TurnsAreCounted'
  BY <1>1, <1>2, <1>7, <1>8, TurnsOfRun
<1> QED BY <1>1, <1>7, <1>8, <1>9, <1>10, <1>11, RunStep

LEMMA CloseStreamStep ==
    ASSUME SessionInvariant, NEW r \in ResponseIds, CloseStream(r)
    PROVE  SessionInvariant'
<1>1. /\ Known(r) /\ records[r].step = "close" /\ StepTo(r, "done")
      /\ clients' = clients /\ convs' = convs
  BY DEF CloseStream
<1>2. /\ RecordsShaped /\ ConvsShaped /\ RunIsSound(r) /\ MarkersAreHeld /\ TurnsAreCounted
  BY <1>1 DEF SessionInvariant, Shaped, RunsAreSound
<1>3. /\ Rewrites(r) /\ records'[r].step = "done"
      /\ records'[r].status = records[r].status /\ records'[r].turns = records[r].turns
  BY <1>1, <1>2, StepToFacts
<1>4. RunIsSound(r)'
  BY <1>1, <1>2, <1>3 DEF RunIsSound, InFlight, InConversation, Rewrites
<1>5. MarkersAreHeld'
  <2>1. \A v \in ConversationIds : ~HeldByRun(v, r)
    BY <1>1 DEF HeldByRun
  <2> QED BY <1>1, <1>2, <1>3, <2>1, MarkersOfRun
<1>6. TurnsAreCounted'
  BY <1>1, <1>2, <1>3, TurnsOfRun DEF SameTurns
<1>7. ConvsShaped'
  BY <1>1, <1>2 DEF ConvsShaped
<1> QED BY <1>1, <1>3, <1>4, <1>5, <1>6, <1>7, RunStep

----------------------------------------------------------------------------
(* The theorems.                                                           *)

LEMMA SessionStarts ==
    ASSUME Init
    PROVE  SessionInvariant
<1>1. PICK script \in Scripts :
          clients = [c \in Clients |->
                        [pc |-> "idle", script |-> script[c], sent |-> None, id |-> None,
                         holder |-> None, object |-> None]]
  BY DEF Init
<1>2. \A c \in Clients : clients[c].pc = "idle" /\ clients[c].id = None
                         /\ clients[c].object = None
  BY <1>1
<1>3. \A r \in ResponseIds : ~Known(r)
  BY DEF Init, Known
<1>4. \A v \in ConversationIds : /\ convs[v].marker = None /\ convs[v].overlapped = FALSE
                                 /\ convs[v].context.turns = 0
  BY DEF Init, EmptyContext
<1>5. Shaped
  <2>1. ClientsShaped
    BY <1>1 DEF ClientsShaped, ClientFields
  <2>2. RecordsShaped
    BY <1>3 DEF Init, RecordsShaped
  <2>3. ConvsShaped
    BY DEF Init, ConvsShaped, ConvFields
  <2> QED BY <2>1, <2>2, <2>3 DEF Shaped
<1>6. CreatesAreSound
  BY <1>2 DEF CreatesAreSound, CreateIsSound, HasId, ForTurn
<1>7. RunsAreSound
  BY <1>3 DEF RunsAreSound
<1>8. MarkersAreHeld
  BY <1>4 DEF MarkersAreHeld
<1>9. TurnsAreCounted
  <2>1. Chain.depth \in Nat
    BY ProtocolConstants
  <2>2. ASSUME NEW v \in ConversationIds PROVE InTurn(v)
    <3>1. \A c \in Clients : ~Talks(c, v)
      BY <1>2 DEF Talks
    <3>2. \A r \in ResponseIds : ~Runs(r, v)
      BY <1>3 DEF Runs
    <3> QED BY <1>3, <1>4, <2>1, <3>1, <3>2 DEF InTurn
  <2>3. \A v \in ConversationIds : convs[v].overlapped \in BOOLEAN
    BY <1>4, Zenon
  <2>4. \A v \in ConversationIds : convs[v].context.turns \in Nat
    BY <1>4
  <2> QED BY <2>2, <2>3, <2>4, Zenon DEF TurnsAreCounted
<1>10. ObjectsAreSound
  BY <1>2, <1>3 DEF ObjectsAreSound, EchoIsAccepted
<1> QED BY <1>5, <1>6, <1>7, <1>8, <1>9, <1>10 DEF SessionInvariant

LEMMA SessionWaits ==
    ASSUME SessionInvariant, UNCHANGED vars
    PROVE  SessionInvariant'
<1>1. clients' = clients /\ records' = records /\ convs' = convs
  BY DEF vars
<1>2. Shaped'
  BY <1>1 DEF SessionInvariant, Shaped, ClientsShaped, RecordsShaped, ConvsShaped, Known
<1>3. CreatesAreSound'
  BY <1>1 DEF SessionInvariant, CreatesAreSound, CreateIsSound, HasId, Known, Spec_
<1>4. RunsAreSound'
  BY <1>1 DEF SessionInvariant, RunsAreSound, RunIsSound, InFlight, InConversation, Known
<1>5. MarkersAreHeld'
  BY <1>1 DEF SessionInvariant, MarkersAreHeld, HeldByCreate, HeldByRun, Known, Spec_
<1>6. TurnsAreCounted'
  BY <1>1 DEF SessionInvariant, TurnsAreCounted, InTurn, Talks, Runs, Known, Spec_
<1>7. ObjectsAreSound'
  BY <1>1 DEF SessionInvariant, ObjectsAreSound, EchoIsAccepted, Known
<1> QED BY <1>2, <1>3, <1>4, <1>5, <1>6, <1>7 DEF SessionInvariant

\* The calls of creates and of runs, in whatever order they come, keep the
\* session sound: create.rs and the runtime's drive of a response.
THEOREM SessionStaysSound == Spec => []SessionInvariant
<1>1. Init => SessionInvariant
  BY SessionStarts
<1>2. SessionInvariant /\ [Next]_vars => SessionInvariant'
  <2> SUFFICES ASSUME SessionInvariant, [Next]_vars PROVE SessionInvariant'
    OBVIOUS
  <2> DEFINE Goal == SessionInvariant'
  <2>1. ASSUME NEW c \in Clients,
               \/ Submit(c) \/ Resolve(c) \/ AcquireTurn(c) \/ JudgeHolder(c)
               \/ TakeOver(c) \/ Admit(c) \/ ReleaseTurn(c) \/ Retrieve(c)
        PROVE  Goal
    BY <2>1, SubmitStep, ResolveStep, AcquireTurnStep, JudgeHolderStep, TakeOverStep,
       AdmitStep, ReleaseTurnStep, RetrieveStep
  <2>2. ASSUME NEW r \in ResponseIds,
               Start(r) \/ Finish(r) \/ ArchiveTurn(r) \/ Settle(r) \/ CloseStream(r)
        PROVE  Goal
    BY <2>2, StartStep, FinishStep, ArchiveTurnStep, SettleStep, CloseStreamStep
  <2>3. CASE UNCHANGED vars
    BY <2>3, SessionWaits
  <2>4. CASE Next
    <3> HIDE DEF Goal
    <3>1. Goal
      BY <2>1, <2>2, <2>4 DEF Next
    <3> QED BY <3>1 DEF Goal
  <2> QED BY <2>3, <2>4
<1> QED BY <1>1, <1>2, PTL DEF Spec

\* tool.rs, response_object.rs: whatever a client wrote to get it, an object the
\* service rendered is accepted when its fields are sent again.
THEOREM EchoesAreAccepted == Spec => []EchoIsAccepted
<1>1. SessionInvariant => EchoIsAccepted
  BY DEF SessionInvariant, ObjectsAreSound
<1> QED BY <1>1, SessionStaysSound, PTL

\* release_after_failed_admission and the release at the end of a run: once no
\* create and no run is going on, no conversation is locked by any of them.
THEOREM NoConversationStaysLocked == Spec => []ConversationsAreFreed
<1>1. SessionInvariant => ConversationsAreFreed
  <2> SUFFICES ASSUME SessionInvariant, Quiet, NEW v \in ConversationIds,
                      convs[v].marker # None
               PROVE  FALSE
    BY DEF ConversationsAreFreed
  <2>1. ~HeldByCreate(v, convs[v].marker)
    BY DEF Quiet, HeldByCreate
  <2>2. ~HeldByRun(v, convs[v].marker)
    BY DEF Quiet, HeldByRun
  <2> QED BY <2>1, <2>2 DEF SessionInvariant, MarkersAreHeld
<1> QED BY <1>1, SessionStaysSound, PTL

\* ensure_context_bounds, read before the marker is taken: as long as the turns
\* of a conversation do not overlap, neither it nor the context any of its runs
\* was given goes past the depth.
THEOREM TurnsInSequenceStayInBounds == Spec => []SequentialTurnsStayInBounds
<1>1. SessionInvariant => SequentialTurnsStayInBounds
  BY DEF SessionInvariant, TurnsAreCounted, InTurn, SequentialTurnsStayInBounds,
         InConversationOf
<1> QED BY <1>1, SessionStaysSound, PTL

----------------------------------------------------------------------------
(* What a conversation keeps can be sent.                                  *)

\* The runner's contract: every item it answers with is an item of a request.
\* (outcome.rs of the daemon checks it on the runner's side.)
RepliesAreItems ==
    \A reply \in Replies : \A i \in DOMAIN reply.output :
        ItemParses(reply.output[i]) /\ ItemValid(reply.output[i])

\* If it is kept: what is a list is one whatever the runner does.
FitToSend(item) == RepliesAreItems => ItemParses(item) /\ ItemValid(item)

Sendable(items) ==
    /\ IsList(items)
    /\ \A i \in DOMAIN items : FitToSend(items[i])

Keepable(entries) ==
    /\ entries \in Seq(Range(entries))
    /\ \A i \in 1..Len(entries) : FitToSend(entries[i].item)

\* What a request, an object and a turn hold of what the client wrote.
WireWritten(wire) == Written(wire.tools, ToItems(wire))
ObjectWritten(object) == Written(object.tools, object.input)
SpecWritten(spec) == Written(spec.tools, spec.items)

ClientLists(c) ==
    /\ clients[c].script # None => WireWritten(clients[c].script.wire)
    /\ clients[c].pc # "idle" => WireWritten(clients[c].sent)
    /\ clients[c].object # None => ObjectWritten(clients[c].object)
RecordLists(r) == Known(r) => SpecWritten(records[r].spec) /\ Sendable(records[r].output)

ListsAreSound ==
    /\ \A c \in Clients : ClientLists(c)
    /\ \A r \in ResponseIds : RecordLists(r)
    /\ \A v \in ConversationIds : Keepable(convs[v].context.entries)

\* A list is a list of its elements.
LEMMA ListOfItself ==
    ASSUME NEW S, NEW s \in Seq(S)
    PROVE  s \in Seq(Range(s))
<1>1. /\ Len(s) \in Nat /\ DOMAIN s = 1..Len(s) /\ s = [i \in 1..Len(s) |-> s[i]]
      /\ \A i \in 1..Len(s) : s[i] \in Range(s)
  BY DEF Range
<1> QED BY <1>1

\* A list of entries followed by another.
LEMMA Appended ==
    ASSUME NEW s, NEW t, Keepable(s), Keepable(t)
    PROVE  Keepable(s \o t)
<1> DEFINE S == Range(s) \cup Range(t)
<1>1. s \in Seq(S) /\ t \in Seq(S)
  BY DEF Keepable
<1> HIDE DEF S
<1>2. /\ s \o t \in Seq(S) /\ Len(s \o t) = Len(s) + Len(t)
      /\ Len(s) \in Nat /\ Len(t) \in Nat
      /\ \A i \in 1..Len(s \o t) :
            (s \o t)[i] = IF i <= Len(s) THEN s[i] ELSE t[i - Len(s)]
  BY <1>1
<1>3. s \o t \in Seq(Range(s \o t))
  BY <1>2, ListOfItself
<1>4. ASSUME NEW i \in 1..Len(s \o t)
      PROVE  FitToSend((s \o t)[i].item)
  <2>1. CASE i <= Len(s)
    BY <1>2, <1>4, <2>1 DEF Keepable
  <2>2. CASE i > Len(s)
    <3>1. i - Len(s) \in 1..Len(t) /\ (s \o t)[i] = t[i - Len(s)]
      BY <1>2, <1>4, <2>2
    <3> QED BY <3>1 DEF Keepable
  <2> QED BY <1>2, <2>1, <2>2
<1> QED BY <1>3, <1>4 DEF Keepable

\* Items made into entries, with or without reasoning.
LEMMA MadeEntries ==
    ASSUME NEW items, Sendable(items), NEW entries,
           entries = [i \in 1..Len(items) |-> entries[i]],
           \A i \in 1..Len(items) : entries[i].item = items[i]
    PROVE  Keepable(entries)
<1>1. Len(items) \in Nat /\ DOMAIN items = 1..Len(items)
  BY DEF Sendable, IsList
<1>2. DOMAIN entries = 1..Len(items)
  OBVIOUS
<1>3. entries \in Seq(Range(entries)) /\ Len(entries) = Len(items)
  BY <1>1, <1>2 DEF Range
<1> QED BY <1>1, <1>3 DEF Keepable, Sendable

LEMMA TurnIsKept ==
    ASSUME NEW context, Keepable(context.entries), NEW input, Sendable(input),
           NEW output, Sendable(output), NEW reasoning
    PROVE  Keepable(WithTurn(context, input, output, reasoning).entries)
<1> DEFINE said == [i \in 1..Len(input) |-> Entry(input[i], None)]
           answered == [i \in 1..Len(output) |->
                           Entry(output[i], IF i = 1 THEN reasoning ELSE None)]
<1>1. Keepable(said)
  <2>1. \A i \in 1..Len(input) : said[i].item = input[i]
    BY DEF Entry
  <2>2. said = [i \in 1..Len(input) |-> said[i]]
    OBVIOUS
  <2> HIDE DEF said
  <2> QED BY <2>1, <2>2, MadeEntries
<1>2. Keepable(answered)
  <2>1. \A i \in 1..Len(output) : answered[i].item = output[i]
    BY DEF Entry
  <2>2. answered = [i \in 1..Len(output) |-> answered[i]]
    OBVIOUS
  <2> HIDE DEF answered
  <2> QED BY <2>1, <2>2, MadeEntries
<1>3. WithTurn(context, input, output, reasoning).entries =
         (context.entries \o said) \o answered
  BY DEF WithTurn
<1> HIDE DEF said, answered
<1> QED BY <1>1, <1>2, <1>3, Appended

\* A kept list that is sent out in full is refused for its size at most.
LEMMA KeptCanBeSent ==
    ASSUME RepliesAreItems, NEW context, Keepable(context.entries)
    PROVE  LET wire == Resent(ItemsOf(context))
           IN  Refusal(wire) = None \/ (Parses(wire) /\ Violation(wire) = "Limits")
<1> DEFINE items == ItemsOf(context)
           wire == Resent(items)
<1>1. \A i \in DOMAIN items : ItemParses(items[i]) /\ ItemValid(items[i])
  BY DEF ItemsOf, Keepable, FitToSend
<1> HIDE DEF items
<1>2. /\ wire.field = None /\ wire.model = "m" /\ wire.text = None /\ wire.items = items
      /\ wire.instructions = None /\ wire.stream = FALSE /\ wire.background = FALSE
      /\ wire.previous = None /\ wire.conversation = None /\ wire.maxOutput = None
      /\ wire.metadata = None /\ wire.tools = <<>> /\ wire.toolChoice = None
      /\ wire.temperature = None /\ wire.topP = None
  BY DEF Resent, PlainRequest
<1> HIDE DEF wire
<1>3. None # Blank /\ None \notin Nat /\ "m" # Blank
  BY ProtocolConstants DEF Blank
<1>4. ToItems(wire) = items
  BY <1>2 DEF ToItems
<1>5. Parses(wire)
  BY <1>1, <1>2 DEF Parses
<1>6. AnchorParses(Anchor(wire))
  BY <1>2 DEF AnchorParses, Anchor, Root
<1>7. CASE ItemsViolation(items) = None
  <2>1. Unbroken(wire)
    BY <1>1, <1>2, <1>3, <1>4, <1>7 DEF Unbroken, FieldsUnbroken, Present
  <2>2. ~preflight_unsupported(wire)
    BY <1>2, ProtocolConstants DEF preflight_unsupported, Unsupported, ErrorCodes
  <2> QED BY <1>5, <1>6, <2>1, <2>2, NotRefused DEF wire, items
<1>8. CASE ItemsViolation(items) # None
  <2>1. 12 \in Broken(wire)
    BY <1>4, <1>8, BrokenRules
  <2>2. \A i \in 1..11 : i \notin Broken(wire)
    <3>1. FieldsUnbroken(wire)
      BY <1>2, <1>3 DEF FieldsUnbroken, Present
    <3> QED BY <3>1, BrokenRules
  <2>3. \A i \in Broken(wire) : i \in 1..13
    BY RulesHaveNames DEF Broken
  <2>4. /\ Min(Broken(wire)) \in Broken(wire)
        /\ \A i \in Broken(wire) : Min(Broken(wire)) <= i
    BY <2>1, <2>3, LeastIsMember
  <2>5. Min(Broken(wire)) = 12
    <3> DEFINE m == Min(Broken(wire))
    <3>1. m \in 1..13 /\ m \in Broken(wire) /\ m <= 12
      BY <2>1, <2>3, <2>4
    <3> HIDE DEF m
    <3>2. m = 12
      BY <2>2, <3>1
    <3> QED BY <3>2 DEF m
  <2>6. Violation(wire) = Rules(wire)[12].name
    BY <2>1, <2>5 DEF Violation, SelectInSeq, Broken
  <2>7. Violation(wire) = "Limits"
    BY <2>6 DEF Rules, Rule
  <2> QED BY <1>5, <2>7 DEF wire, items
<1> QED BY <1>7, <1>8

\* The items of a record are the ones its echo is accepted with.
LEMMA RecordedItems ==
    ASSUME NEW spec, Refusal(Echo(ResponseObject(spec))) = None, SpecWritten(spec)
    PROVE  Sendable(spec.items)
<1> DEFINE echo == Echo(ResponseObject(spec))
<1>1. echo.items = spec.items /\ echo.text = None
  BY DEF Echo, ResponseObject, PlainRequest
<1>2. Parses(echo) /\ Unbroken(echo)
  BY NotRefused
<1> HIDE DEF echo
<1>3. ToItems(echo) = spec.items
  BY <1>1 DEF ToItems
<1> QED BY <1>1, <1>2, <1>3 DEF Sendable, FitToSend, Parses, Unbroken, SpecWritten, Written

\* A turn holds what its request did, and its object what the turn does, and
\* so does the object sent again.
LEMMA WrittenSpec ==
    ASSUME NEW wire, WireWritten(wire)
    PROVE  SpecWritten(TurnSpec(wire))
<1>1. TurnSpec(wire).items = ToItems(wire) /\ TurnSpec(wire).tools = wire.tools
  BY DEF TurnSpec
<1> QED BY <1>1 DEF SpecWritten, WireWritten

LEMMA WrittenObject ==
    ASSUME NEW spec, SpecWritten(spec)
    PROVE  ObjectWritten(ResponseObject(spec))
<1>1. ResponseObject(spec).input = spec.items /\ ResponseObject(spec).tools = spec.tools
  BY DEF ResponseObject
<1> QED BY <1>1 DEF SpecWritten, ObjectWritten

LEMMA WrittenEcho ==
    ASSUME NEW object, ObjectWritten(object)
    PROVE  WireWritten(Echo(object))
<1> DEFINE echo == Echo(object)
<1>1. echo.text = None /\ echo.items = object.input /\ echo.tools = object.tools
  BY DEF Echo, PlainRequest
<1> HIDE DEF echo
<1>2. ToItems(echo) = object.input
  BY <1>1 DEF ToItems
<1>3. WireWritten(echo)
  BY <1>1, <1>2 DEF WireWritten, ObjectWritten
<1> QED BY <1>3 DEF echo

LEMMA ListsKept ==
    ASSUME ListsAreSound, NEW c \in Clients, OthersWait(c), ClientLists(c)',
           \A r \in ResponseIds : RecordLists(r)',
           \A v \in ConversationIds : convs'[v].context = convs[v].context
    PROVE  ListsAreSound'
<1>1. \A d \in Clients : ClientLists(d)'
  BY DEF ListsAreSound, ClientLists, OthersWait
<1>2. \A v \in ConversationIds : Keepable(convs'[v].context.entries)
  BY DEF ListsAreSound
<1> QED BY <1>1, <1>2 DEF ListsAreSound

LEMMA AnsweredLists ==
    ASSUME ClientsShaped, NEW c \in Clients, ClientLists(c), NEW object, Answered(c, object),
           object # None => ObjectWritten(object)
    PROVE  OthersWait(c) /\ ClientLists(c)'
<1>1. /\ OthersWait(c) /\ clients'[c].pc = "idle" /\ clients'[c].object = object
  BY AnsweredFacts
<1>2. clients'[c].script = clients[c].script
  BY DEF ClientsShaped, ClientFields, Answered
<1> QED BY <1>1, <1>2 DEF ClientLists

LEMMA RefusedLists ==
    ASSUME ClientsShaped, NEW c \in Clients, ClientLists(c), NEW error, Refused(c, error)
    PROVE  OthersWait(c) /\ ClientLists(c)'
BY AnsweredLists DEF Refused, ClientLists

LEMMA GoesLists ==
    ASSUME ClientsShaped, NEW c \in Clients, ClientLists(c), NEW pc, Goes(c, pc),
           clients[c].pc # "idle"
    PROVE  OthersWait(c) /\ ClientLists(c)'
<1>1. /\ OthersWait(c) /\ clients'[c].sent = clients[c].sent
      /\ clients'[c].object = clients[c].object
  BY GoesFacts
<1>2. clients'[c].script = clients[c].script
  BY DEF ClientsShaped, ClientFields, Goes
<1> QED BY <1>1, <1>2 DEF ClientLists

\* The steps of a create leave lists where there were lists.
LEMMA ListsOfCreates ==
    ASSUME SessionInvariant, ListsAreSound, NEW c \in Clients,
           \/ Submit(c) \/ Resolve(c) \/ AcquireTurn(c) \/ JudgeHolder(c)
           \/ TakeOver(c) \/ Admit(c) \/ ReleaseTurn(c) \/ Retrieve(c)
    PROVE  ListsAreSound'
<1>1. ClientsShaped /\ RecordsShaped /\ ConvsShaped /\ CreateIsSound(c) /\ ClientLists(c)
  BY DEF SessionInvariant, Shaped, CreatesAreSound, ListsAreSound
<1> DEFINE Lists == OthersWait(c) /\ ClientLists(c)'
           Records == \A r \in ResponseIds : RecordLists(r)'
           Contexts == \A v \in ConversationIds : convs'[v].context = convs[v].context
<1>2. records' = records => Records
  BY DEF ListsAreSound, RecordLists, Known
<1>3. UNCHANGED convs => Contexts
  OBVIOUS
<1>4. ASSUME Submit(c) PROVE Lists /\ Records /\ Contexts
  <2>1. UNCHANGED <<records, convs>>
    BY <1>4 DEF Submit
  <2>2. PICK wire \in {clients[c].script.wire} \cup
                      (IF clients[c].object = None THEN {} ELSE {Echo(clients[c].object)}) :
           \/ Refused(c, Refusal(wire))
           \/ clients' = [clients EXCEPT ![c].pc = "resolve", ![c].sent = wire]
    BY <1>4 DEF Submit
  <2>3. WireWritten(wire)
    <3>1. CASE wire = clients[c].script.wire
      BY <1>1, <1>4, <3>1 DEF Submit, ClientLists
    <3>2. CASE clients[c].object # None /\ wire = Echo(clients[c].object)
      BY <1>1, <3>2, WrittenEcho DEF ClientLists
    <3> QED BY <3>1, <3>2
  <2>4. CASE Refused(c, Refusal(wire))
    BY <1>1, <1>2, <1>3, <2>1, <2>4, RefusedLists
  <2>5. CASE clients' = [clients EXCEPT ![c].pc = "resolve", ![c].sent = wire]
    <3>1. /\ OthersWait(c) /\ clients'[c].sent = wire
          /\ clients'[c].script = clients[c].script /\ clients'[c].object = clients[c].object
      BY <1>1, <2>5 DEF ClientsShaped, ClientFields, OthersWait
    <3> QED BY <1>1, <1>2, <1>3, <2>1, <2>3, <3>1 DEF ClientLists
  <2> QED BY <2>2, <2>4, <2>5
<1>5. ASSUME Resolve(c) PROVE Lists /\ Records /\ Contexts
  <2>1. records' = records /\ clients[c].pc = "resolve"
    BY <1>5 DEF Resolve
  <2>2. CASE Refused(c, ResolveError(Spec_(c).anchor)) /\ UNCHANGED convs
    BY <1>1, <1>2, <1>3, <2>1, <2>2, RefusedLists
  <2>3. ASSUME NEW id, NEW pc, clients' = [clients EXCEPT ![c].id = id, ![c].pc = pc]
        PROVE  Lists
    <3>1. /\ OthersWait(c) /\ clients'[c].sent = clients[c].sent
          /\ clients'[c].script = clients[c].script /\ clients'[c].object = clients[c].object
      BY <1>1, <2>3 DEF ClientsShaped, ClientFields, OthersWait
    <3> QED BY <1>1, <2>1, <3>1 DEF ClientLists
  <2>4. ASSUME convs' = [v \in ConversationIds |->
                            IF Spec_(c).anchor = [kind |-> "conversation", id |-> v]
                            THEN [convs[v] EXCEPT !.overlapped = @ \/ Overlaps(v, c)]
                            ELSE convs[v]]
        PROVE  Contexts
    BY <1>1, <2>4 DEF ConvsShaped, ConvFields
  <2> HIDE DEF Lists, Contexts, Records
  <2> QED BY <1>2, <1>5, <2>1, <2>2, <2>3, <2>4 DEF Resolve
<1>6. ASSUME NEW v, NEW m, convs' = [convs EXCEPT ![v].marker = m]
      PROVE  Contexts
  BY <1>1, <1>6 DEF ConvsShaped, ConvFields
<1>7. ASSUME AcquireTurn(c) PROVE Lists /\ Records /\ Contexts
  <2>1. records' = records /\ clients[c].pc \in {"acquire", "reacquire"}
    BY <1>7 DEF AcquireTurn
  <2>2. ASSUME NEW h, clients' = [clients EXCEPT ![c].pc = "holder", ![c].holder = h]
        PROVE  Lists
    <3>1. /\ OthersWait(c) /\ clients'[c].sent = clients[c].sent
          /\ clients'[c].script = clients[c].script /\ clients'[c].object = clients[c].object
      BY <1>1, <2>2 DEF ClientsShaped, ClientFields, OthersWait
    <3> QED BY <1>1, <2>1, <3>1 DEF ClientLists
  <2>3. Goes(c, "admit") \/ Refused(c, "conversation_busy") => Lists
    BY <1>1, <2>1, GoesLists, RefusedLists
  <2> HIDE DEF Lists, Contexts, Records
  <2> QED BY <1>2, <1>3, <1>6, <1>7, <2>1, <2>2, <2>3 DEF AcquireTurn
<1>8. ASSUME JudgeHolder(c) PROVE Lists /\ Records /\ Contexts
  BY <1>1, <1>2, <1>3, <1>8, GoesLists, RefusedLists DEF JudgeHolder
<1>9. ASSUME TakeOver(c) PROVE Lists /\ Records /\ Contexts
  <2>1. Lists /\ Records
    BY <1>1, <1>2, <1>9, GoesLists DEF TakeOver
  <2> HIDE DEF Lists, Contexts, Records
  <2> QED BY <1>6, <1>9, <2>1 DEF TakeOver
<1>10. ASSUME ReleaseTurn(c) PROVE Lists /\ Records /\ Contexts
  <2>1. Lists /\ Records
    BY <1>1, <1>2, <1>10, AnsweredLists DEF ReleaseTurn, ClientLists
  <2> HIDE DEF Lists, Contexts, Records
  <2> QED BY <1>6, <1>10, <2>1 DEF ReleaseTurn
<1>11. ASSUME Retrieve(c) PROVE Lists /\ Records /\ Contexts
  <2>1. UNCHANGED <<records, convs>>
    BY <1>11 DEF Retrieve
  <2>2. PICK r \in ResponseIds :
          /\ Known(r)
          /\ clients' = [clients EXCEPT ![c].object = ResponseObject(records[r].spec)]
    BY <1>11 DEF Retrieve
  <2> DEFINE object == ResponseObject(records[r].spec)
  <2>3. ObjectWritten(object)
    BY <2>2, WrittenObject DEF ListsAreSound, RecordLists
  <2>4. clients' = [clients EXCEPT ![c].object = object]
    BY <2>2
  <2> HIDE DEF object
  <2>5. /\ OthersWait(c) /\ clients'[c].sent = clients[c].sent
        /\ clients'[c].pc = clients[c].pc
        /\ clients'[c].script = clients[c].script /\ clients'[c].object = object
    BY <1>1, <2>4 DEF ClientsShaped, ClientFields, OthersWait
  <2> QED BY <1>1, <1>2, <1>3, <2>1, <2>3, <2>5 DEF ClientLists
<1>12. ASSUME Admit(c) PROVE Lists /\ Records /\ Contexts
  <2> DEFINE twin == CHOOSE r \in WithKey(KeyOf(c)) : TRUE
  <2>1. clients[c].pc = "admit" /\ UNCHANGED convs
    BY <1>12 DEF Admit
  <2>2. AdmitOutcome(c) \in {"accepted", "duplicate", "overloaded"}
    BY DEF AdmitOutcome
  <2>3. SpecWritten(Spec_(c))
    BY <1>1, <2>1, WrittenSpec DEF ClientLists, Spec_
  <2>4. ASSUME NEW object, object # None => ObjectWritten(object),
               \/ clients' = [clients EXCEPT ![c].pc = "release", ![c].object = object]
               \/ Answered(c, object)
        PROVE  Lists
    <3>1. CASE Answered(c, object)
      BY <1>1, <2>4, <3>1, AnsweredLists
    <3>2. CASE clients' = [clients EXCEPT ![c].pc = "release", ![c].object = object]
      <4>1. /\ OthersWait(c) /\ clients'[c].sent = clients[c].sent
            /\ clients'[c].script = clients[c].script /\ clients'[c].object = object
        BY <1>1, <3>2 DEF ClientsShaped, ClientFields, OthersWait
      <4> QED BY <1>1, <2>1, <2>4, <4>1 DEF ClientLists
    <3> QED BY <2>4, <3>1, <3>2
  <2>5. CASE AdmitOutcome(c) = "accepted"
    <3>1. /\ records' = [records EXCEPT ![clients[c].id] = Queued(c)]
          /\ Answered(c, ResponseObject(Spec_(c)))
      BY <1>12, <2>5 DEF Admit, MustRelease
    <3>2. Lists
      <4> HIDE DEF Lists
      <4> QED BY <2>3, <2>4, <3>1, WrittenObject
    <3>3. clients[c].id \in ResponseIds
      BY <1>1, <2>1 DEF CreateIsSound, HasId
    <3>4. Queued(c).spec = Spec_(c) /\ Queued(c).output = <<>>
      BY DEF Queued
    <3>5. Sendable(<<>>)
      BY DEF Sendable, IsList
    <3>6. ASSUME NEW r \in ResponseIds PROVE RecordLists(r)'
      <4>1. records'[r] = Queued(c) \/ records'[r] = records[r]
        BY <1>1, <3>1, <3>3 DEF RecordsShaped
      <4> QED BY <2>3, <3>4, <3>5, <4>1 DEF ListsAreSound, RecordLists, Known
    <3> QED BY <1>3, <2>1, <3>2, <3>6
  <2>6. CASE AdmitOutcome(c) # "accepted"
    <3>1. records' = records
      BY <1>12, <2>6 DEF Admit
    <3>2. CASE AdmitOutcome(c) = "duplicate"
      <4>1. WithKey(KeyOf(c)) # {}
        BY <3>2 DEF AdmitOutcome
      <4>2. twin \in WithKey(KeyOf(c))
        BY <4>1
      <4>3. ObjectWritten(ResponseObject(records[twin].spec))
        BY <4>2, WrittenObject DEF WithKey, ListsAreSound, RecordLists
      <4> HIDE DEF Lists
      <4>4. Lists
        BY <1>12, <2>4, <3>2, <4>3 DEF Admit, MustRelease
      <4> QED BY <1>2, <1>3, <2>1, <3>1, <4>4
    <3>3. CASE AdmitOutcome(c) = "overloaded"
      <4>1. clients[c].object # None => ObjectWritten(clients[c].object)
        BY <1>1 DEF ClientLists
      <4> HIDE DEF Lists
      <4>2. Lists
        BY <1>12, <2>4, <3>3, <4>1 DEF Admit, MustRelease
      <4> QED BY <1>2, <1>3, <2>1, <3>1, <4>2
    <3> QED BY <2>2, <2>6, <3>2, <3>3
  <2> QED BY <2>5, <2>6
<1>13. Lists /\ Records /\ Contexts
  <2> HIDE DEF Lists, Records, Contexts
  <2> QED BY <1>4, <1>5, <1>7, <1>8, <1>9, <1>10, <1>11, <1>12
<1> QED BY <1>13, ListsKept

\* A run leaves its request alone, and what it answers with can be sent.
LEMMA ListsOfRuns ==
    ASSUME SessionInvariant, ListsAreSound, NEW r \in ResponseIds,
           Start(r) \/ Finish(r) \/ ArchiveTurn(r) \/ Settle(r) \/ CloseStream(r)
    PROVE  ListsAreSound'
<1>1. /\ RecordsShaped /\ ConvsShaped /\ Known(r) /\ clients' = clients /\ RunIsSound(r)
  BY DEF SessionInvariant, Shaped, RunsAreSound, Start, Finish, ArchiveTurn, Settle, CloseStream
<1>2. \A c \in Clients : ClientLists(c)'
  BY <1>1 DEF ListsAreSound, ClientLists
<1>3. SpecWritten(records[r].spec) /\ Sendable(records[r].output)
  BY <1>1 DEF ListsAreSound, RecordLists
<1> DEFINE Records == \A s \in ResponseIds : RecordLists(s)'
           Contexts == \A v \in ConversationIds : Keepable(convs'[v].context.entries)
<1>4. ASSUME records'[r].spec = records[r].spec, Sendable(records'[r].output),
             \A s \in ResponseIds \ {r} : records'[s] = records[s]
      PROVE  Records
  BY <1>3, <1>4 DEF ListsAreSound, RecordLists, Known
<1>5. convs' = convs => Contexts
  BY DEF ListsAreSound
<1>6. ASSUME NEW step, StepTo(r, step) PROVE Records
  <2>1. /\ records'[r].spec = records[r].spec /\ records'[r].output = records[r].output
        /\ \A s \in ResponseIds \ {r} : records'[s] = records[s]
    BY <1>1, <1>6 DEF RecordsShaped, RecordFields, StepTo
  <2> HIDE DEF Records
  <2> QED BY <1>3, <1>4, <2>1
<1>7. ASSUME Start(r) PROVE Records /\ Contexts
  <2>1. PICK status, step, turns :
          records' = [records EXCEPT ![r].status = status, ![r].step = step, ![r].turns = turns]
    BY <1>7 DEF Start
  <2>2. /\ records'[r].spec = records[r].spec /\ records'[r].output = records[r].output
        /\ \A s \in ResponseIds \ {r} : records'[s] = records[s]
    BY <1>1, <2>1 DEF RecordsShaped, RecordFields
  <2> HIDE DEF Records, Contexts
  <2> QED BY <1>3, <1>4, <1>5, <1>7, <2>2 DEF Start
<1>8. ASSUME Finish(r) PROVE Records /\ Contexts
  <2>1. PICK reply \in Replies :
          records' = [records EXCEPT ![r].status = reply.status, ![r].output = reply.output,
                                     ![r].reasoning = ReasoningOf(reply),
                                     ![r].step = AfterRun(r)]
    BY <1>8 DEF Finish
  <2>2. /\ records'[r].spec = records[r].spec /\ records'[r].output = reply.output
        /\ \A s \in ResponseIds \ {r} : records'[s] = records[s]
    BY <1>1, <2>1 DEF RecordsShaped, RecordFields
  <2>3. Sendable(reply.output)
    BY SessionConstants DEF Sendable, FitToSend, RepliesAreItems
  <2> HIDE DEF Records, Contexts
  <2> QED BY <1>4, <1>5, <1>8, <2>2, <2>3 DEF Finish
<1>9. ASSUME ArchiveTurn(r) PROVE Records /\ Contexts
  <2>1. PICK v \in ConversationIds : records[r].spec.anchor = InConversationOf(v)
    BY <1>1, <1>9 DEF RunIsSound, ArchiveTurn
  <2>2. records[r].spec.anchor.id = v
    BY <2>1 DEF InConversationOf
  <2> DEFINE turn == WithTurn(convs[v].context, records[r].spec.items, records[r].output,
                              records[r].reasoning)
  <2>3. convs' = [convs EXCEPT ![v].context = turn]
    BY <1>9, <2>2 DEF ArchiveTurn
  <2>4. Sendable(records[r].spec.items)
    BY <1>1, <1>3, RecordedItems DEF SessionInvariant, ObjectsAreSound
  <2>5. Keepable(turn.entries)
    BY <1>3, <2>4, TurnIsKept DEF ListsAreSound
  <2> HIDE DEF turn
  <2>6. Contexts
    BY <1>1, <2>3, <2>5 DEF ListsAreSound, ConvsShaped, ConvFields
  <2> HIDE DEF Records, Contexts
  <2> QED BY <1>6, <1>9, <2>6 DEF ArchiveTurn
<1>10. ASSUME Settle(r) PROVE Records /\ Contexts
  <2>1. ASSUME NEW v, NEW m, convs' = [convs EXCEPT ![v].marker = m] PROVE Contexts
    BY <1>1, <2>1 DEF ListsAreSound, ConvsShaped, ConvFields
  <2> HIDE DEF Records, Contexts
  <2> QED BY <1>6, <1>10, <2>1 DEF Settle
<1>11. ASSUME CloseStream(r) PROVE Records /\ Contexts
  <2> HIDE DEF Records, Contexts
  <2> QED BY <1>5, <1>6, <1>11 DEF CloseStream
<1>12. Records /\ Contexts
  <2> HIDE DEF Records, Contexts
  <2> QED BY <1>7, <1>8, <1>9, <1>10, <1>11
<1> QED BY <1>2, <1>12 DEF ListsAreSound

LEMMA ListsStart ==
    ASSUME Init
    PROVE  ListsAreSound
<1>1. PICK script \in Scripts :
          clients = [c \in Clients |->
                        [pc |-> "idle", script |-> script[c], sent |-> None, id |-> None,
                         holder |-> None, object |-> None]]
  BY DEF Init
<1>2. \A c \in Clients : /\ clients[c].pc = "idle" /\ clients[c].script = script[c]
                         /\ clients[c].object = None
  BY <1>1
<1>3. \A c \in Clients : ClientLists(c)
  BY <1>2, SessionConstants DEF ClientLists, WireWritten
<1>4. \A r \in ResponseIds : RecordLists(r)
  BY DEF Init, RecordLists, Known
<1>5. \A v \in ConversationIds : convs[v].context.entries = <<>>
  BY DEF Init, EmptyContext
<1>6. Keepable(<<>>)
  BY DEF Keepable, Range
<1> QED BY <1>3, <1>4, <1>5, <1>6 DEF ListsAreSound

\* Lists stay lists, and what the runner answers with stays fit to be sent.
LEMMA ListsStaySound == Spec => []ListsAreSound
<1>1. Init => ListsAreSound
  BY ListsStart
<1>2. SessionInvariant /\ ListsAreSound /\ [Next]_vars => ListsAreSound'
  <2> SUFFICES ASSUME SessionInvariant, ListsAreSound, [Next]_vars PROVE ListsAreSound'
    OBVIOUS
  <2>1. CASE UNCHANGED vars
    BY <2>1 DEF vars, ListsAreSound, ClientLists, RecordLists, Known
  <2>2. CASE Next
    <3> DEFINE Goal == ListsAreSound'
    <3>1. ASSUME NEW c \in Clients,
                 \/ Submit(c) \/ Resolve(c) \/ AcquireTurn(c) \/ JudgeHolder(c)
                 \/ TakeOver(c) \/ Admit(c) \/ ReleaseTurn(c) \/ Retrieve(c)
          PROVE  Goal
      BY <3>1, ListsOfCreates
    <3>2. ASSUME NEW r \in ResponseIds,
                 Start(r) \/ Finish(r) \/ ArchiveTurn(r) \/ Settle(r) \/ CloseStream(r)
          PROVE  Goal
      BY <3>2, ListsOfRuns
    <3> HIDE DEF Goal
    <3>3. Goal
      BY <2>2, <3>1, <3>2 DEF Next
    <3> QED BY <3>3 DEF Goal
  <2> QED BY <2>1, <2>2
<1> QED BY <1>1, <1>2, SessionStaysSound, PTL DEF Spec

\* INV-47 of item.rs: if the runner answers with items of the closed set, the
\* history the service keeps of any conversation can be sent again in full, and
\* is refused for its size at most.
THEOREM HistoriesCanBeResent ==
    ASSUME RepliesAreItems
    PROVE  Spec => []HistoryCanBeResent
<1>1. ListsAreSound => HistoryCanBeResent
  BY KeptCanBeSent DEF ListsAreSound, HistoryCanBeResent
<1> QED BY <1>1, ListsStaySound, PTL

----------------------------------------------------------------------------
(* Sums over a set.  The sum the properties are written with takes the     *)
(* elements in an order nobody knows; whatever that order is, it comes to  *)
(* what a function of the subsets says that can take them in any.          *)

Counts(total, m, S) ==
    /\ \A x \in S : m[x] \in Nat
    /\ total \in [SUBSET S -> Nat]
    /\ total[{}] = 0
    /\ \A s \in SUBSET S : \A x \in s : total[s] = m[x] + total[s \ {x}]

SumsTo(m, S, n) == \E total : Counts(total, m, S) /\ total[S] = n

LEMMA SumOfNothing ==
    ASSUME NEW m
    PROVE  SumsTo(m, {}, 0)
<1> DEFINE total == [s \in SUBSET {} |-> 0]
<1>1. Counts(total, m, {}) /\ total[{}] = 0
  BY DEF Counts
<1> QED BY <1>1 DEF SumsTo

LEMMA SumGrows ==
    ASSUME NEW m, NEW mm, NEW S, NEW n \in Nat, SumsTo(m, S, n), NEW r, r \notin S,
           \A x \in S : mm[x] = m[x], mm[r] \in Nat
    PROVE  SumsTo(mm, S \cup {r}, mm[r] + n)
<1>1. PICK total : Counts(total, m, S) /\ total[S] = n
  BY DEF SumsTo
<1> DEFINE T == S \cup {r}
           more == [s \in SUBSET T |-> IF r \in s THEN mm[r] + total[s \ {r}] ELSE total[s]]
<1>2. \A s \in SUBSET T : s \ {r} \in SUBSET S /\ (r \notin s => s \in SUBSET S)
  OBVIOUS
<1>3. \A s \in SUBSET S : total[s] \in Nat /\ \A x \in s : total[s] = mm[x] + total[s \ {x}]
  BY <1>1 DEF Counts
<1>4. more \in [SUBSET T -> Nat]
  BY <1>2, <1>3
<1>5. more[{}] = 0
  BY <1>1 DEF Counts
<1>6. ASSUME NEW s \in SUBSET T, NEW x \in s PROVE more[s] = mm[x] + more[s \ {x}]
  <2>1. s \ {x} \in SUBSET T
    OBVIOUS
  <2>2. CASE r \notin s
    <3>1. more[s] = total[s] /\ more[s \ {x}] = total[s \ {x}]
      BY <2>1, <2>2
    <3> QED BY <1>2, <1>3, <2>2, <3>1
  <2>3. CASE x = r
    <3>1. more[s] = mm[r] + total[s \ {r}] /\ more[s \ {x}] = total[s \ {r}]
      BY <2>1, <2>3
    <3> QED BY <2>3, <3>1
  <2>4. CASE r \in s /\ x # r
    <3>1. /\ more[s] = mm[r] + total[s \ {r}]
          /\ more[s \ {x}] = mm[r] + total[(s \ {x}) \ {r}]
      BY <2>1, <2>4
    <3>2. (s \ {x}) \ {r} = (s \ {r}) \ {x} /\ x \in s \ {r} /\ x \in S
      BY <2>4
    <3>3. total[s \ {r}] = mm[x] + total[(s \ {r}) \ {x}]
      BY <1>2, <1>3, <3>2
    <3>4. total[(s \ {r}) \ {x}] \in Nat /\ total[s \ {r}] \in Nat
      BY <1>2, <1>3
    <3>5. mm[x] \in Nat
      BY <1>1, <3>2 DEF Counts
    <3>6. mm[r] \in Nat
      OBVIOUS
    <3>7. more[s \ {x}] = mm[r] + total[(s \ {r}) \ {x}]
      BY <3>1, <3>2
    <3> HIDE DEF more
    <3> QED BY <3>1, <3>3, <3>4, <3>5, <3>6, <3>7
  <2> QED BY <2>2, <2>3, <2>4
<1>7. Counts(more, mm, T)
  <2>1. \A x \in T : mm[x] \in Nat
    BY <1>1 DEF Counts
  <2> HIDE DEF more, T
  <2> QED BY <1>4, <1>5, <1>6, <2>1 DEF Counts
<1>8. more[T] = mm[r] + n
  <2>1. T \ {r} = S
    OBVIOUS
  <2> QED BY <1>1, <2>1
<1> QED BY <1>7, <1>8 DEF SumsTo

\* Takes the elements of every subset one by one, in an order of its own.
AddsUp(f, m, S) ==
    /\ f[{}] = 0
    /\ \A s \in SUBSET S : s # {} =>
          \E x \in s : f[s] = m[x] + f[s \ {x}] \/ f[s] = f[s \ {x}] + m[x]

LEMMA SumIsUnique ==
    ASSUME NEW m, NEW S, IsFiniteSet(S), NEW n, SumsTo(m, S, n), NEW f, AddsUp(f, m, S)
    PROVE  f[S] = n
<1>1. PICK total : Counts(total, m, S) /\ total[S] = n
  BY DEF SumsTo
<1> DEFINE Wrong == {s \in SUBSET S : f[s] # total[s]}
           Sizes == {Cardinality(s) : s \in Wrong}
<1> SUFFICES ASSUME Wrong # {} PROVE FALSE
  BY <1>1
<1>2. \A s \in SUBSET S : IsFiniteSet(s) /\ Cardinality(s) \in Nat
  BY FS_Subset, FS_CardinalityType
<1>3. Sizes \in SUBSET Nat /\ Sizes # {}
  BY <1>2
<1>4. Min(Sizes) \in Sizes /\ \A k \in Sizes : Min(Sizes) <= k
  <2> HIDE DEF Sizes
  <2> QED BY <1>3, LeastIsMember
<1>5. PICK s \in Wrong : \A t \in Wrong : Cardinality(s) <= Cardinality(t)
  <2>1. PICK s \in Wrong : Cardinality(s) = Min(Sizes)
    BY <1>4
  <2>2. \A t \in Wrong : Cardinality(t) \in Sizes
    OBVIOUS
  <2> HIDE DEF Sizes
  <2> QED BY <1>4, <2>1, <2>2
<1>6. s # {} /\ s \in SUBSET S /\ f[s] # total[s]
  BY <1>1 DEF Counts, AddsUp
<1>7. PICK x \in s : f[s] = m[x] + f[s \ {x}] \/ f[s] = f[s \ {x}] + m[x]
  BY <1>6 DEF AddsUp
<1>8. total[s] = m[x] + total[s \ {x}] /\ m[x] \in Nat /\ total[s \ {x}] \in Nat
  BY <1>1, <1>6 DEF Counts
<1>9. Cardinality(s \ {x}) = Cardinality(s) - 1
  BY <1>2, <1>6, FS_RemoveElement
<1>10. s \ {x} \notin Wrong
  <2>1. ~(Cardinality(s) <= Cardinality(s \ {x}))
    BY <1>2, <1>6, <1>9
  <2> QED BY <1>5, <2>1
<1>11. f[s \ {x}] = total[s \ {x}]
  BY <1>6, <1>10
<1> QED BY <1>6, <1>7, <1>8, <1>11

----------------------------------------------------------------------------
(* The transcript, read entry by entry.                                    *)

\* Induction over a set of numbers.
LEMMA SetInduction ==
    ASSUME NEW S, 0 \in S, \A n \in S \cap Nat : n + 1 \in S
    PROVE  Nat \subseteq S
<1> DEFINE T == Nat \ S
<1> SUFFICES ASSUME T # {} PROVE FALSE
  OBVIOUS
<1>1. T \in SUBSET Nat
  OBVIOUS
<1>2. Min(T) \in T /\ \A k \in T : Min(T) <= k
  <2> HIDE DEF T
  <2> QED BY <1>1, LeastIsMember
<1>3. PICK x \in T : \A k \in T : x <= k
  <2> HIDE DEF T
  <2> QED BY <1>2
<1>4. x \in Nat /\ x # 0
  OBVIOUS
<1>5. x - 1 \in Nat /\ (x - 1) + 1 = x /\ ~(x <= x - 1)
  BY <1>4
<1>6. x - 1 \in S
  BY <1>3, <1>5
<1> QED BY <1>5, <1>6

\* The greatest of the first numbers, some left out.
LEMMA GreatestOfAll ==
    ASSUME NEW m \in Nat, NEW s \in SUBSET (1..(m + 1)), m + 1 \in s
    PROVE  Max(s) = m + 1
<1>1. \A x \in s : x \in Int /\ x <= m + 1
  OBVIOUS
<1>2. \E x \in s : \A y \in s : x >= y
  BY <1>1
<1>3. Max(s) \in s /\ \A y \in s : Max(s) >= y
  BY <1>2 DEF Max
<1>4. Max(s) \in Int /\ Max(s) <= m + 1 /\ Max(s) >= m + 1
  BY <1>1, <1>3
<1> QED BY <1>4

\* What is shown once an entry is read, after what was shown before it.
ThoughtOf(reasoning) == IF reasoning = None THEN <<>> ELSE <<Thought>>
Told(shown, entry) == shown \o ThoughtOf(entry.reasoning) \o <<Said(entry.item)>>

\* Whatever is told entry by entry ends in the transcript.
LEMMA TranscriptFold ==
    ASSUME NEW context, NEW n \in Nat, DOMAIN context.entries = 1..n, NEW run,
           run[0] = <<>>, \A k \in 1..n : run[k] = Told(run[k - 1], context.entries[k])
    PROVE  Transcript(context) = run[n]
<1> DEFINE entries == context.entries
           Step(f, s) == IF s = {} THEN <<>> ELSE Told(f[s \ {Max(s)}], entries[Max(s)])
           Folded(m) == \E f : f = [s \in SUBSET (1..m) |-> Step(f, s)]
           S == {m \in Nat : Folded(m)}
<1>1. Folded(0)
  <2> DEFINE f == [s \in SUBSET (1..0) |-> <<>>]
  <2>1. f = [s \in SUBSET (1..0) |-> Step(f, s)]
    OBVIOUS
  <2> QED BY <2>1
<1>2. ASSUME NEW m \in Nat, Folded(m) PROVE Folded(m + 1)
  <2>1. PICK g : g = [s \in SUBSET (1..m) |-> Step(g, s)]
    BY <1>2
  <2> DEFINE f == [s \in SUBSET (1..(m + 1)) |->
                      IF m + 1 \in s THEN Told(g[s \ {m + 1}], entries[m + 1]) ELSE g[s]]
  <2>2. ASSUME NEW s \in SUBSET (1..(m + 1)) PROVE f[s] = Step(f, s)
    <3>1. CASE m + 1 \in s
      <4>1. Max(s) = m + 1
        BY <3>1, GreatestOfAll
      <4>2. f[s \ {m + 1}] = g[s \ {m + 1}]
        OBVIOUS
      <4> QED BY <3>1, <4>1, <4>2
    <3>2. CASE m + 1 \notin s
      <4>1. s \in SUBSET (1..m)
        BY <3>2
      <4>2. f[s] = Step(g, s)
        BY <2>1, <3>2, <4>1
      <4>3. f[s \ {Max(s)}] = g[s \ {Max(s)}]
        BY <3>2
      <4> QED BY <4>2, <4>3
    <3> QED BY <3>1, <3>2
  <2>3. f = [s \in SUBSET (1..(m + 1)) |-> f[s]]
    OBVIOUS
  <2> HIDE DEF f
  <2>4. f = [s \in SUBSET (1..(m + 1)) |-> Step(f, s)]
    <3> HIDE DEF Step
    <3> QED BY <2>2, <2>3
  <2> QED BY <2>4
<1>3. Folded(n)
  <2>1. 0 \in S
    BY <1>1
  <2>2. \A m \in S \cap Nat : m + 1 \in S
    <3> HIDE DEF Folded
    <3> QED BY <1>2
  <2> HIDE DEF S
  <2>3. n \in S
    BY <2>1, <2>2, SetInduction
  <2> QED BY <2>3 DEF S
<1> DEFINE whole == CHOOSE f : f = [s \in SUBSET (1..n) |-> Step(f, s)]
<1>4. whole = [s \in SUBSET (1..n) |-> Step(whole, s)]
  BY <1>3
<1>5. Transcript(context) = whole[1..n]
  BY DEF Transcript, FoldLeft, MapThenFoldSet, Told, ThoughtOf
<1> HIDE DEF whole
<1> DEFINE T == {k \in Nat : k <= n => whole[1..k] = run[k]}
<1>6. 0 \in T
  <2>1. 1..0 = {} /\ {} \in SUBSET (1..n)
    OBVIOUS
  <2>2. whole[{}] = <<>>
    BY <1>4, <2>1
  <2> QED BY <2>1, <2>2
<1>7. ASSUME NEW k \in T \cap Nat PROVE k + 1 \in T
  <2> SUFFICES ASSUME k + 1 <= n PROVE whole[1..(k + 1)] = run[k + 1]
    OBVIOUS
  <2>1. whole[1..k] = run[k]
    OBVIOUS
  <2>2. /\ 1..(k + 1) \in SUBSET (1..n) /\ k + 1 \in 1..(k + 1)
        /\ (1..(k + 1)) \ {k + 1} = 1..k
    OBVIOUS
  <2>3. Max(1..(k + 1)) = k + 1
    BY <2>2, GreatestOfAll
  <2>4. whole[1..(k + 1)] = Told(whole[1..k], entries[k + 1])
    <3>1. \A s \in SUBSET (1..n) : whole[s] = Step(whole, s)
      BY <1>4
    <3>2. whole[1..(k + 1)] = Step(whole, 1..(k + 1)) /\ 1..(k + 1) # {}
      BY <2>2, <3>1
    <3> QED BY <2>2, <2>3, <3>2
  <2>5. run[k + 1] = Told(run[k], entries[k + 1])
    <3>1. k + 1 \in 1..n /\ (k + 1) - 1 = k
      OBVIOUS
    <3> QED BY <3>1
  <2> QED BY <2>1, <2>4, <2>5
<1>8. n \in T
  <2> HIDE DEF T
  <2> QED BY <1>6, <1>7, SetInduction
<1> QED BY <1>5, <1>8

\* A list of entries is read, each after the ones before it.
Reads(run, S, entries) ==
    /\ run \in [0..Len(entries) -> Seq(S)]
    /\ run[0] = <<>>
    /\ \A k \in 1..Len(entries) : run[k] = Told(run[k - 1], entries[k])

\* How a turn is shown, said of its parts.
ShownTurn(input, output, reasoning) ==
    [i \in 1..Len(input) |-> Said(input[i])]
    \o (IF reasoning = None \/ output = <<>> THEN <<>> ELSE <<Thought>>)
    \o [i \in 1..Len(output) |-> Said(output[i])]

Thoughts(output, reasoning) == IF reasoning = None \/ output = <<>> THEN 0 ELSE 1

LEMMA OneMore ==
    ASSUME NEW S, NEW s \in Seq(S), NEW k \in 0..Len(s), k < Len(s)
    PROVE  SubSeq(s, 1, k + 1) = SubSeq(s, 1, k) \o <<s[k + 1]>>
OBVIOUS

\* Three lists in a row.
LEMMA InARow ==
    ASSUME NEW S, NEW a \in Seq(S), NEW b \in Seq(S), NEW c \in Seq(S),
           NEW row, row = (a \o b) \o c
    PROVE  /\ row \in Seq(S) /\ Len(row) = Len(a) + Len(b) + Len(c)
           /\ DOMAIN row = 1..Len(row)
           /\ \A i \in 1..Len(a) : row[i] = a[i]
           /\ \A i \in 1..Len(b) : row[Len(a) + i] = b[i]
           /\ \A i \in 1..Len(c) : row[Len(a) + Len(b) + i] = c[i]
<1>1. Len(a) \in Nat /\ Len(b) \in Nat /\ Len(c) \in Nat
  OBVIOUS
<1>2. PICK ab : ab = a \o b
  OBVIOUS
<1>3. /\ ab \in Seq(S) /\ Len(ab) = Len(a) + Len(b)
      /\ \A i \in 1..Len(a) : ab[i] = a[i]
  BY <1>2
<1>4. ASSUME NEW i \in 1..Len(b) PROVE ab[Len(a) + i] = b[i]
  <2>1. Len(a) + i \in 1..(Len(a) + Len(b)) /\ ~(Len(a) + i <= Len(a))
        /\ (Len(a) + i) - Len(a) = i
    BY <1>1
  <2> QED BY <1>2, <2>1
<1>5. /\ row \in Seq(S) /\ Len(row) = Len(ab) + Len(c)
      /\ \A i \in 1..Len(ab) : row[i] = ab[i]
  BY <1>2, <1>3
<1>6. ASSUME NEW i \in 1..Len(c) PROVE row[Len(ab) + i] = c[i]
  <2>1. Len(ab) + i \in 1..(Len(ab) + Len(c)) /\ ~(Len(ab) + i <= Len(ab))
        /\ (Len(ab) + i) - Len(ab) = i
    BY <1>1, <1>3
  <2> QED BY <1>2, <1>3, <2>1
<1>7. \A i \in 1..Len(b) : Len(a) + i \in 1..Len(ab)
  BY <1>1, <1>3
<1>8. \A i \in 1..Len(a) : i \in 1..Len(ab)
  BY <1>1, <1>3
<1> QED BY <1>1, <1>3, <1>4, <1>5, <1>6, <1>7, <1>8

LEMMA ShownParts ==
    ASSUME NEW input, IsList(input), NEW output, IsList(output), NEW reasoning
    PROVE  LET shown == ShownTurn(input, output, reasoning)
               t == Thoughts(output, reasoning)
           IN  /\ shown \in Seq(Range(shown))
               /\ Len(shown) = Len(input) + t + Len(output)
               /\ \A i \in 1..Len(input) : shown[i] = Said(input[i])
               /\ t = 1 => shown[Len(input) + 1] = Thought
               /\ \A i \in 1..Len(output) : shown[Len(input) + t + i] = Said(output[i])
<1> DEFINE said == [i \in 1..Len(input) |-> Said(input[i])]
           thought == IF reasoning = None \/ output = <<>> THEN <<>> ELSE <<Thought>>
           answered == [i \in 1..Len(output) |-> Said(output[i])]
           S == Range(said) \cup {Thought} \cup Range(answered)
           t == Thoughts(output, reasoning)
<1>1. Len(input) \in Nat /\ Len(output) \in Nat
  BY DEF IsList
<1>2. /\ said \in Seq(S) /\ Len(said) = Len(input)
      /\ \A i \in 1..Len(input) : said[i] = Said(input[i])
  BY <1>1 DEF Range
<1>3. /\ answered \in Seq(S) /\ Len(answered) = Len(output)
      /\ \A i \in 1..Len(output) : answered[i] = Said(output[i])
  BY <1>1 DEF Range
<1>4. thought \in Seq(S) /\ Len(thought) = t /\ (t = 1 => thought[1] = Thought) /\ t \in {0, 1}
  <2>1. CASE reasoning = None \/ output = <<>>
    BY <2>1 DEF Thoughts
  <2>2. CASE ~(reasoning = None \/ output = <<>>)
    BY <2>2 DEF Thoughts
  <2> QED BY <2>1, <2>2
<1>5. ShownTurn(input, output, reasoning) = (said \o thought) \o answered
  BY DEF ShownTurn
<1> HIDE DEF said, thought, answered, S, t
<1>6. PICK shown : shown = (said \o thought) \o answered
  OBVIOUS
<1>7. /\ shown \in Seq(S) /\ Len(shown) = Len(input) + t + Len(output)
      /\ \A i \in 1..Len(input) : shown[i] = said[i]
      /\ \A i \in 1..t : shown[Len(input) + i] = thought[i]
      /\ \A i \in 1..Len(output) : shown[Len(input) + t + i] = answered[i]
  <2>1. said \in Seq(S) /\ thought \in Seq(S) /\ answered \in Seq(S)
    BY <1>2, <1>3, <1>4
  <2>2. /\ shown \in Seq(S) /\ Len(shown) = Len(said) + Len(thought) + Len(answered)
        /\ \A i \in 1..Len(said) : shown[i] = said[i]
        /\ \A i \in 1..Len(thought) : shown[Len(said) + i] = thought[i]
        /\ \A i \in 1..Len(answered) : shown[Len(said) + Len(thought) + i] = answered[i]
    BY <1>6, <2>1, InARow
  <2>3. Len(said) = Len(input) /\ Len(thought) = t /\ Len(answered) = Len(output)
    BY <1>2, <1>3, <1>4
  <2> QED BY <2>2, <2>3
<1>8. t = 1 => shown[Len(input) + 1] = Thought
  BY <1>4, <1>7
<1>9. shown \in Seq(Range(shown))
  BY <1>7, ListOfItself
<1> QED BY <1>2, <1>3, <1>5, <1>6, <1>7, <1>8, <1>9 DEF t

\* The entries of a turn come after the ones there were.
LEMMA TurnEntries ==
    ASSUME NEW context, NEW E, context.entries \in Seq(E), NEW input, IsList(input),
           NEW output, IsList(output), NEW reasoning
    PROVE  LET entries == WithTurn(context, input, output, reasoning).entries
               n == Len(context.entries)
           IN  /\ Len(entries) = n + Len(input) + Len(output)
               /\ DOMAIN entries = 1..Len(entries)
               /\ \A k \in 1..n : entries[k] = context.entries[k]
               /\ \A i \in 1..Len(input) : entries[n + i] = Entry(input[i], None)
               /\ \A i \in 1..Len(output) : entries[n + Len(input) + i]
                                            = Entry(output[i], IF i = 1 THEN reasoning ELSE None)
<1> DEFINE said == [i \in 1..Len(input) |-> Entry(input[i], None)]
           answered == [i \in 1..Len(output) |->
                           Entry(output[i], IF i = 1 THEN reasoning ELSE None)]
           S == Range(said) \cup Range(answered) \cup E
           n == Len(context.entries)
<1>1. Len(input) \in Nat /\ Len(output) \in Nat
  BY DEF IsList
<1>2. /\ said \in Seq(S) /\ Len(said) = Len(input)
      /\ \A i \in 1..Len(input) : said[i] = Entry(input[i], None)
  BY <1>1 DEF Range
<1>3. /\ answered \in Seq(S) /\ Len(answered) = Len(output)
      /\ \A i \in 1..Len(output) :
            answered[i] = Entry(output[i], IF i = 1 THEN reasoning ELSE None)
  BY <1>1 DEF Range
<1>4. context.entries \in Seq(S) /\ n \in Nat
  <2>1. E \subseteq S
    OBVIOUS
  <2> HIDE DEF S
  <2> QED BY <2>1
<1>5. WithTurn(context, input, output, reasoning).entries =
         (context.entries \o said) \o answered
  BY DEF WithTurn
<1> HIDE DEF said, answered, S
<1>6. PICK entries : entries = (context.entries \o said) \o answered
  OBVIOUS
<1>7. /\ Len(entries) = n + Len(input) + Len(output)
      /\ DOMAIN entries = 1..Len(entries)
      /\ \A k \in 1..n : entries[k] = context.entries[k]
      /\ \A i \in 1..Len(input) : entries[n + i] = said[i]
      /\ \A i \in 1..Len(output) : entries[n + Len(input) + i] = answered[i]
  <2>1. context.entries \in Seq(S) /\ said \in Seq(S) /\ answered \in Seq(S)
    BY <1>2, <1>3, <1>4
  <2>2. /\ Len(entries) = n + Len(said) + Len(answered)
        /\ DOMAIN entries = 1..Len(entries)
        /\ \A i \in 1..n : entries[i] = context.entries[i]
        /\ \A i \in 1..Len(said) : entries[n + i] = said[i]
        /\ \A i \in 1..Len(answered) : entries[n + Len(said) + i] = answered[i]
    BY <1>6, <2>1, InARow
  <2>3. Len(said) = Len(input) /\ Len(answered) = Len(output)
    BY <1>2, <1>3
  <2> QED BY <2>2, <2>3
<1> QED BY <1>2, <1>3, <1>5, <1>6, <1>7

\* Reading entries ends in what was shown before and a turn.
ReadOn(before, entries, turn) ==
    \E T, further : Reads(further, T, entries) /\ further[Len(entries)] = before \o turn

\* Reading a turn shows it whole after what was shown before it.
LEMMA TurnIsRead ==
    ASSUME NEW context, NEW E, context.entries \in Seq(E), NEW input, IsList(input),
           NEW output, IsList(output), NEW reasoning,
           NEW S, NEW run, Reads(run, S, context.entries)
    PROVE  ReadOn(run[Len(context.entries)],
                  WithTurn(context, input, output, reasoning).entries,
                  ShownTurn(input, output, reasoning))
<1> DEFINE before == context.entries
           n == Len(before)
           a == Len(input)
           b == Len(output)
           t == Thoughts(output, reasoning)
<1>0. PICK shown, entries : /\ shown = ShownTurn(input, output, reasoning)
                            /\ entries = WithTurn(context, input, output, reasoning).entries
  OBVIOUS
<1>1. /\ n \in Nat /\ a \in Nat /\ b \in Nat /\ t \in {0, 1}
      /\ b = 0 => output = <<>>
      /\ output = <<>> => t = 0
      /\ output # <<>> => (t = 0 <=> reasoning = None)
  BY DEF IsList, Thoughts
<1>2. /\ shown \in Seq(Range(shown)) /\ Len(shown) = a + t + b
      /\ \A i \in 1..a : shown[i] = Said(input[i])
      /\ t = 1 => shown[a + 1] = Thought
      /\ \A i \in 1..b : shown[a + t + i] = Said(output[i])
  BY <1>0, ShownParts
<1>3. /\ Len(entries) = n + a + b
      /\ \A k \in 1..n : entries[k] = before[k]
      /\ \A i \in 1..a : entries[n + i] = Entry(input[i], None)
      /\ \A i \in 1..b : entries[n + a + i] = Entry(output[i], IF i = 1 THEN reasoning ELSE None)
  BY <1>0, TurnEntries
<1> HIDE DEF n, a, b, t
<1>4. PICK T : T = S \cup Range(shown)
  OBVIOUS
<1>5. run \in [0..n -> Seq(T)] /\ run[0] = <<>> /\ shown \in Seq(T)
      /\ \A k \in 1..n : run[k] = Told(run[k - 1], before[k])
  <2>1. \A s \in Seq(S) : s \in Seq(T)
    BY <1>4
  <2>2. \A s \in Seq(Range(shown)) : s \in Seq(T)
    BY <1>4
  <2>3. /\ run \in [0..n -> Seq(S)] /\ run[0] = <<>>
        /\ \A k \in 1..n : run[k] = Told(run[k - 1], before[k])
    BY DEF Reads, n
  <2>4. run \in [0..n -> Seq(T)]
    BY <2>1, <2>3
  <2> QED BY <1>2, <2>2, <2>3, <2>4
<1>6. PICK base : base = run[n] /\ base \in Seq(T)
  BY <1>1, <1>5
<1> DEFINE w(j) == IF j <= a THEN j ELSE j + t
           further == [k \in 0..(n + a + b) |->
                          IF k <= n THEN run[k] ELSE base \o SubSeq(shown, 1, w(k - n))]
<1>7. \A j \in 0..(a + b) : w(j) \in 0..Len(shown)
  BY <1>1, <1>2
<1>8. \A q \in 0..Len(shown) : SubSeq(shown, 1, q) \in Seq(T)
  BY <1>5
<1>9. \A q \in 0..Len(shown) : q < Len(shown) =>
          SubSeq(shown, 1, q + 1) = SubSeq(shown, 1, q) \o <<shown[q + 1]>>
  BY <1>5, OneMore
<1>10. SubSeq(shown, 1, 0) = <<>> /\ base \o <<>> = base /\ SubSeq(shown, 1, Len(shown)) = shown
  BY <1>5, <1>6
<1>11. \A j \in 0..(a + b) : further[n + j] = base \o SubSeq(shown, 1, w(j))
  <2> SUFFICES ASSUME NEW j \in 0..(a + b)
               PROVE  further[n + j] = base \o SubSeq(shown, 1, w(j))
    OBVIOUS
  <2>1. n + j \in 0..(n + a + b) /\ (n + j) - n = j /\ (n + j <= n => j = 0)
    BY <1>1
  <2>2. CASE j = 0
    <3>1. w(0) = 0 /\ n + 0 = n
      BY <1>1
    <3> HIDE DEF w
    <3> QED BY <1>1, <1>6, <1>10, <2>1, <2>2, <3>1
  <2>3. CASE j # 0
    <3>1. ~(n + j <= n)
      BY <2>1, <2>3
    <3> HIDE DEF w
    <3> QED BY <2>1, <3>1
  <2> QED BY <2>2, <2>3
<1>12. further \in [0..(n + a + b) -> Seq(T)]
  <2>1. ASSUME NEW k \in 0..(n + a + b)
        PROVE  (IF k <= n THEN run[k] ELSE base \o SubSeq(shown, 1, w(k - n))) \in Seq(T)
    <3>1. CASE k <= n
      BY <1>1, <1>5, <3>1
    <3>2. CASE ~(k <= n)
      <4>1. k - n \in 0..(a + b)
        BY <1>1, <3>2
      <4> HIDE DEF w
      <4> QED BY <1>6, <1>7, <1>8, <3>2, <4>1
    <3> QED BY <3>1, <3>2
  <2> QED BY <2>1
<1>13. ASSUME NEW q \in 0..Len(shown), q < Len(shown)
       PROVE  base \o SubSeq(shown, 1, q + 1) = (base \o SubSeq(shown, 1, q)) \o <<shown[q + 1]>>
  <2>1. PICK p : p = SubSeq(shown, 1, q) /\ p \in Seq(T)
    BY <1>8
  <2>2. SubSeq(shown, 1, q + 1) = p \o <<shown[q + 1]>>
    BY <1>9, <1>13, <2>1
  <2>3. PICK x : x = shown[q + 1] /\ x \in T
    BY <1>5, <1>13
  <2>4. base \o (p \o <<x>>) = (base \o p) \o <<x>>
    <3>0. <<x>> \in Seq(T)
      BY <2>3
    <3>1. PICK u : u = <<x>> /\ u \in Seq(T)
      BY <3>0
    <3>2. base \in Seq(T) /\ p \in Seq(T)
      BY <1>6, <2>1
    <3>3. (base \o p) \o u = base \o (p \o u)
      BY <3>1, <3>2, ConcatAssociative
    <3> QED BY <3>1, <3>3
  <2> QED BY <2>1, <2>2, <2>3, <2>4
<1>14. \A s \in Seq(T) : s \o <<>> = s
  OBVIOUS
<1>15. ASSUME NEW j \in 1..(a + b)
       PROVE  further[n + j] = Told(further[n + (j - 1)], entries[n + j])
  <2> DEFINE now == further[n + (j - 1)]
             next == further[n + j]
  <2>1. /\ j - 1 \in 0..(a + b) /\ j \in 0..(a + b)
        /\ now = base \o SubSeq(shown, 1, w(j - 1)) /\ next = base \o SubSeq(shown, 1, w(j))
        /\ w(j - 1) \in 0..Len(shown) /\ w(j) \in 0..Len(shown)
    <3>1. j - 1 \in 0..(a + b) /\ j \in 0..(a + b)
      BY <1>1
    <3> HIDE DEF w, further
    <3> QED BY <1>7, <1>11, <3>1
  <2>2. now \in Seq(T)
    <3>1. PICK q : q = w(j - 1)
      OBVIOUS
    <3> HIDE DEF w, now, next, further
    <3>2. now = base \o SubSeq(shown, 1, q) /\ q \in 0..Len(shown)
      BY <2>1, <3>1
    <3>3. SubSeq(shown, 1, q) \in Seq(T)
      BY <1>8, <3>2
    <3> QED BY <1>6, <3>2, <3>3
  <2> HIDE DEF now, next, further
  <2>3. CASE j <= a
    <3>1. w(j - 1) = j - 1 /\ w(j) = (j - 1) + 1 /\ j - 1 < Len(shown) /\ j \in 1..a
      BY <1>1, <1>2, <2>3
    <3>2. next = now \o <<shown[j]>>
      <4>1. PICK q : q = j - 1 /\ q \in 0..Len(shown) /\ q < Len(shown) /\ q + 1 = j
        BY <2>1, <3>1
      <4> HIDE DEF w
      <4>2. now = base \o SubSeq(shown, 1, q) /\ next = base \o SubSeq(shown, 1, q + 1)
        BY <2>1, <3>1, <4>1
      <4> QED BY <1>13, <4>1, <4>2
    <3>3. shown[j] = Said(input[j]) /\ entries[n + j] = Entry(input[j], None)
      BY <1>2, <1>3, <3>1
    <3>4. Told(now, entries[n + j]) = (now \o <<>>) \o <<Said(input[j])>>
      BY <3>3 DEF Told, ThoughtOf, Entry
    <3> QED BY <1>14, <2>2, <3>2, <3>3, <3>4 DEF now, next
  <2>4. CASE j > a + 1 \/ (j = a + 1 /\ t = 0)
    <3>1. /\ w(j) = w(j - 1) + 1 /\ w(j) = j + t /\ w(j - 1) < Len(shown)
          /\ j - a \in 1..b /\ a + t + (j - a) = j + t /\ n + a + (j - a) = n + j
      BY <1>1, <1>2, <2>1, <2>4
    <3>2. next = now \o <<shown[w(j - 1) + 1]>>
      <4> HIDE DEF w
      <4> QED BY <1>13, <2>1, <3>1
    <3>3. /\ shown[w(j - 1) + 1] = Said(output[j - a])
          /\ entries[n + j] = Entry(output[j - a], IF j - a = 1 THEN reasoning ELSE None)
      <4>1. shown[a + t + (j - a)] = Said(output[j - a])
        BY <1>2, <3>1
      <4>2. entries[n + a + (j - a)] =
               Entry(output[j - a], IF j - a = 1 THEN reasoning ELSE None)
        BY <1>3, <3>1
      <4> HIDE DEF w
      <4> QED BY <3>1, <4>1, <4>2
    <3>4. j - a = 1 => reasoning = None
      <4>1. b # 0
        BY <1>1, <3>1
      <4>2. output # <<>>
        BY <4>1 DEF b
      <4> QED BY <1>1, <2>4, <4>2
    <3>5. Told(now, entries[n + j]) = (now \o <<>>) \o <<Said(output[j - a])>>
      <4>1. entries[n + j] = Entry(output[j - a], None)
        <5>1. CASE j - a = 1
          BY <3>3, <3>4, <5>1
        <5>2. CASE j - a # 1
          BY <3>3, <5>2
        <5> QED BY <5>1, <5>2
      <4> QED BY <4>1 DEF Told, ThoughtOf, Entry
    <3> HIDE DEF w
    <3> QED BY <1>14, <2>2, <3>2, <3>3, <3>5 DEF now, next
  <2>5. CASE j = a + 1 /\ t = 1
    <3>1. /\ w(j - 1) = a /\ w(j) = (a + 1) + 1 /\ a < Len(shown) /\ a + 1 < Len(shown)
          /\ a \in 0..Len(shown) /\ a + 1 \in 0..Len(shown)
          /\ 1 \in 1..b /\ a + t + 1 = (a + 1) + 1 /\ n + a + 1 = n + j
      BY <1>1, <1>2, <2>1, <2>5
    <3>2. next = (now \o <<shown[a + 1]>>) \o <<shown[(a + 1) + 1]>>
      <4>1. base \o SubSeq(shown, 1, a + 1) = now \o <<shown[a + 1]>>
        BY <1>13, <2>1, <3>1
      <4>2. next = (base \o SubSeq(shown, 1, a + 1)) \o <<shown[(a + 1) + 1]>>
        BY <1>13, <2>1, <3>1
      <4> QED BY <4>1, <4>2
    <3>3. /\ shown[a + 1] = Thought /\ shown[(a + 1) + 1] = Said(output[1])
          /\ entries[n + j] = Entry(output[1], reasoning)
      <4>1. shown[a + t + 1] = Said(output[1])
        BY <1>2, <3>1
      <4>2. entries[n + a + 1] = Entry(output[1], reasoning)
        BY <1>3, <3>1
      <4> QED BY <1>2, <2>5, <3>1, <4>1, <4>2
    <3>4. reasoning # None
      BY <1>1, <2>5
    <3>5. Told(now, entries[n + j]) = (now \o <<Thought>>) \o <<Said(output[1])>>
      BY <3>3, <3>4 DEF Told, ThoughtOf, Entry
    <3> QED BY <3>2, <3>3, <3>5 DEF now, next
  <2> QED BY <1>1, <2>3, <2>4, <2>5
<1>16. ASSUME NEW k \in 1..(n + a + b) PROVE further[k] = Told(further[k - 1], entries[k])
  <2>1. CASE k <= n
    <3>1. /\ further[k] = run[k] /\ further[k - 1] = run[k - 1] /\ entries[k] = before[k]
          /\ k \in 1..n
      BY <1>1, <1>3, <2>1
    <3> HIDE DEF further
    <3> QED BY <1>5, <3>1
  <2>2. CASE k > n
    <3>1. k - n \in 1..(a + b) /\ n + (k - n) = k /\ n + ((k - n) - 1) = k - 1
      BY <1>1, <2>2
    <3> HIDE DEF further
    <3> QED BY <1>15, <3>1
  <2> QED BY <1>1, <2>1, <2>2
<1>17. further[0] = <<>>
  BY <1>1, <1>5
<1>18. further[n + a + b] = base \o shown
  <2>1. /\ a + b \in 0..(a + b) /\ n + (a + b) = n + a + b /\ w(a + b) = Len(shown)
    BY <1>1, <1>2
  <2> HIDE DEF further, w
  <2> QED BY <1>10, <1>11, <2>1
<1>19. Reads(further, T, entries) /\ further[Len(entries)] = base \o shown
  <2> HIDE DEF further
  <2> QED BY <1>3, <1>12, <1>16, <1>17, <1>18 DEF Reads
<1> HIDE DEF further
<1>20. ReadOn(base, entries, shown)
  BY <1>19 DEF ReadOn
<1> QED BY <1>0, <1>6, <1>20 DEF n

----------------------------------------------------------------------------
(* What a transcript shows.                                                *)

Includes(all, part) ==
    \E k \in 0..Len(all) - Len(part) : SubSeq(all, k + 1, k + Len(part)) = part

\* The entries of a conversation are read as the turns of A, each shown the
\* way shown has it, and as nothing else.
Complete(entries, A, shown) ==
    /\ IsFiniteSet(A)
    /\ \E S, run :
          /\ Reads(run, S, entries)
          /\ SumsTo([r \in A |-> Len(shown[r])], A, Len(run[Len(entries)]))
          /\ \A r \in A : Includes(run[Len(entries)], shown[r])

LEMMA NothingToShow ==
    ASSUME NEW shown
    PROVE  Complete(<<>>, {}, shown)
<1> DEFINE run == [k \in 0..0 |-> <<>>]
<1>1. Reads(run, {}, <<>>) /\ Len(run[Len(<<>>)]) = 0
  BY DEF Reads
<1>2. SumsTo([r \in {} |-> Len(shown[r])], {}, 0)
  BY SumOfNothing
<1>3. IsFiniteSet({})
  BY FS_EmptySet
<1> HIDE DEF run
<1> QED BY <1>1, <1>2, <1>3 DEF Complete

\* What is contained stays so when more is said, and so is the last part.
LEMMA ContainedStill ==
    ASSUME NEW S, NEW s \in Seq(S), NEW t \in Seq(S)
    PROVE  /\ Includes(s \o t, t)
           /\ \A part : part \in Seq(Range(part)) /\ Includes(s, part) => Includes(s \o t, part)
<1>1. PICK all : all = s \o t
  OBVIOUS
<1>2. /\ all \in Seq(S) /\ Len(all) = Len(s) + Len(t) /\ Len(s) \in Nat /\ Len(t) \in Nat
      /\ \A i \in 1..Len(s) : all[i] = s[i]
      /\ \A i \in 1..Len(t) : all[Len(s) + i] = t[i]
  <2>1. \A i \in 1..Len(t) : Len(s) + i \in 1..Len(all) /\ ~(Len(s) + i <= Len(s))
                             /\ (Len(s) + i) - Len(s) = i
    BY <1>1
  <2> QED BY <1>1, <2>1
<1>3. SubSeq(all, Len(s) + 1, Len(s) + Len(t)) = t
  <2>1. SubSeq(all, Len(s) + 1, Len(s) + Len(t))
           = [i \in 1..Len(t) |-> all[Len(s) + i]]
    BY <1>2
  <2>2. t = [i \in 1..Len(t) |-> t[i]]
    OBVIOUS
  <2> QED BY <1>2, <2>1, <2>2
<1>4. ASSUME NEW part, part \in Seq(Range(part)), Includes(s, part)
      PROVE  Includes(all, part)
  <2>1. PICK k \in 0..Len(s) - Len(part) : SubSeq(s, k + 1, k + Len(part)) = part
    BY <1>4 DEF Includes
  <2>2. Len(part) \in Nat
    BY <1>4
  <2>3. k \in 0..Len(all) - Len(part) /\ k + Len(part) <= Len(s)
    BY <1>2, <2>2
  <2>4. SubSeq(all, k + 1, k + Len(part)) = SubSeq(s, k + 1, k + Len(part))
    BY <1>2, <2>2, <2>3
  <2> QED BY <2>1, <2>3, <2>4 DEF Includes
<1>5. Includes(all, t)
  <2>1. Len(s) \in 0..Len(all) - Len(t)
    BY <1>2
  <2> QED BY <1>3, <2>1 DEF Includes
<1> QED BY <1>1, <1>4, <1>5

\* A turn that is archived is shown after the ones before it.
LEMMA TurnIsAdded ==
    ASSUME NEW context, NEW E, context.entries \in Seq(E), NEW A, NEW shown,
           \A x \in A : shown[x] \in Seq(Range(shown[x])),
           Complete(context.entries, A, shown),
           NEW input, IsList(input), NEW output, IsList(output), NEW reasoning,
           NEW r, r \notin A, NEW more, \A x \in A : more[x] = shown[x],
           more[r] = ShownTurn(input, output, reasoning)
    PROVE  Complete(WithTurn(context, input, output, reasoning).entries, A \cup {r}, more)
<1> DEFINE turn == ShownTurn(input, output, reasoning)
<1>1. PICK S, run : /\ Reads(run, S, context.entries)
                    /\ SumsTo([x \in A |-> Len(shown[x])], A, Len(run[Len(context.entries)]))
                    /\ \A x \in A : Includes(run[Len(context.entries)], shown[x])
  BY DEF Complete
<1>2. PICK entries : entries = WithTurn(context, input, output, reasoning).entries
  OBVIOUS
<1>3. PICK T, further :
          /\ Reads(further, T, entries)
          /\ further[Len(entries)] = run[Len(context.entries)] \o turn
  <2>1. ReadOn(run[Len(context.entries)],
               WithTurn(context, input, output, reasoning).entries,
               ShownTurn(input, output, reasoning))
    BY <1>1, TurnIsRead
  <2> QED BY <1>2, <2>1 DEF ReadOn
<1>4. turn \in Seq(Range(turn))
  BY ShownParts
<1> HIDE DEF turn
<1>5. PICK s : s = run[Len(context.entries)] /\ s \in Seq(S)
  <2>1. Len(context.entries) \in Nat
    OBVIOUS
  <2> QED BY <1>1, <2>1 DEF Reads
<1>6. PICK all : all = s \o turn /\ all = further[Len(entries)]
  BY <1>3, <1>5
<1>7. /\ Includes(all, turn)
      /\ \A part : part \in Seq(Range(part)) /\ Includes(s, part) => Includes(all, part)
      /\ Len(all) = Len(turn) + Len(s) /\ Len(s) \in Nat /\ Len(turn) \in Nat
  <2>1. s \in Seq(S \cup Range(turn)) /\ turn \in Seq(S \cup Range(turn))
    <3>1. /\ \A u \in Seq(S) : u \in Seq(S \cup Range(turn))
          /\ \A u \in Seq(Range(turn)) : u \in Seq(S \cup Range(turn))
      OBVIOUS
    <3> QED BY <1>4, <1>5, <3>1
  <2>2. /\ Includes(s \o turn, turn)
        /\ \A part : part \in Seq(Range(part)) /\ Includes(s, part) => Includes(s \o turn, part)
    BY <2>1, ContainedStill
  <2>3. Len(s \o turn) = Len(turn) + Len(s) /\ Len(s) \in Nat /\ Len(turn) \in Nat
    BY <2>1
  <2> QED BY <1>6, <2>2, <2>3
<1>8. \A x \in A \cup {r} : Includes(all, more[x])
  BY <1>1, <1>5, <1>7 DEF turn
<1>9. SumsTo([x \in A \cup {r} |-> Len(more[x])], A \cup {r}, Len(all))
  <2>1. PICK m, mm : m = [x \in A |-> Len(shown[x])] /\ mm = [x \in A \cup {r} |-> Len(more[x])]
    OBVIOUS
  <2>2. SumsTo(m, A, Len(s)) /\ mm[r] = Len(turn) /\ \A x \in A : mm[x] = m[x]
    BY <1>1, <1>5, <2>1 DEF turn
  <2>3. SumsTo(mm, A \cup {r}, mm[r] + Len(s))
    <3>1. Len(s) \in Nat /\ mm[r] \in Nat
      BY <1>7, <2>2
    <3> QED BY <2>2, <3>1, SumGrows
  <2> QED BY <1>7, <2>1, <2>2, <2>3
<1>10. IsFiniteSet(A \cup {r})
  BY FS_AddElement DEF Complete
<1> QED BY <1>2, <1>3, <1>6, <1>8, <1>9, <1>10 DEF Complete

\* The sum of the lengths the turns are shown in.
LEMMA SumOfShown ==
    ASSUME NEW A, IsFiniteSet(A), NEW n, SumsTo([r \in A |-> Len(Shown(r))], A, n)
    PROVE  MapThenSumSet(LAMBDA r : Len(Shown(r)), A) = n
<1>0. PICK m : m = [r \in A |-> Len(Shown(r))]
  OBVIOUS
<1>1. PICK total : Counts(total, m, A)
  BY <1>0 DEF SumsTo
<1> DEFINE First(s) == CHOOSE x \in s : TRUE
           Equation(f) == f = [s \in SUBSET A |-> IF s = {} THEN 0
                                 ELSE Len(Shown(First(s))) + f[s \ {First(s)}]]
           whole == CHOOSE f : Equation(f)
<1>2. \A s \in SUBSET A : s # {} => First(s) \in s /\ m[First(s)] = Len(Shown(First(s)))
  <2>1. \A s \in SUBSET A : s # {} => First(s) \in s
    OBVIOUS
  <2> HIDE DEF First
  <2> QED BY <1>0, <2>1
<1>3. Equation(total)
  <2>1. \A s \in SUBSET A : total[s] = IF s = {} THEN 0
                                       ELSE Len(Shown(First(s))) + total[s \ {First(s)}]
    <3> HIDE DEF First
    <3> QED BY <1>1, <1>2 DEF Counts
  <2>2. total = [s \in SUBSET A |-> total[s]]
    BY <1>1 DEF Counts
  <2> HIDE DEF First
  <2> QED BY <2>1, <2>2
<1>4. Equation(whole)
  BY <1>3
<1>5. MapThenSumSet(LAMBDA r : Len(Shown(r)), A) = whole[A]
  BY DEF MapThenSumSet, MapThenFoldSet
<1> HIDE DEF whole
<1>6. whole[{}] = 0
  BY <1>4
<1>7. \A s \in SUBSET A : s # {} => \E x \in s : whole[s] = m[x] + whole[s \ {x}]
  <2>1. \A s \in SUBSET A : s # {} => whole[s] = Len(Shown(First(s))) + whole[s \ {First(s)}]
    BY <1>4
  <2> HIDE DEF First
  <2> QED BY <1>2, <2>1
<1>8. AddsUp(whole, m, A)
  BY <1>6, <1>7 DEF AddsUp
<1>9. whole[A] = n
  BY <1>0, <1>8, SumIsUnique
<1> QED BY <1>5, <1>9

\* The turns a conversation has archived.
Archived(v) ==
    {r \in ResponseIds :
        /\ Known(r) /\ records[r].spec.anchor = InConversationOf(v)
        /\ records[r].spec.store
        /\ records[r].step \in {"release", "done"}}

ShownIn(v) == [r \in Archived(v) |-> Shown(r)]

\* Only a stored turn of a conversation is about to be archived, and only a run
\* of none goes straight to the end of its stream.
GoesRight(r) ==
    Known(r) =>
        /\ records[r].step = "archive" => InConversation(r) /\ records[r].spec.store
        /\ records[r].step = "close" => ~InConversation(r)

TurnsAreKept ==
    /\ \A r \in ResponseIds : GoesRight(r)
    /\ \A v \in ConversationIds : Complete(convs[v].context.entries, Archived(v), ShownIn(v))

\* The turns stay kept when none is archived and the archived are left alone.
LEMMA TurnsStayKept ==
    ASSUME TurnsAreKept, \A r \in ResponseIds : GoesRight(r)',
           \A v \in ConversationIds : convs'[v].context = convs[v].context,
           \A r \in ResponseIds :
              \/ records'[r] = records[r]
              \/ \A v \in ConversationIds : r \notin Archived(v) \cup Archived(v)'
              \/ /\ \A v \in ConversationIds : r \in Archived(v)' <=> r \in Archived(v)
                 /\ Shown(r)' = Shown(r)
    PROVE  TurnsAreKept'
<1>1. ASSUME NEW v \in ConversationIds
      PROVE  Complete(convs'[v].context.entries, Archived(v)', ShownIn(v)')
  <2>1. ASSUME NEW r \in ResponseIds PROVE r \in Archived(v)' <=> r \in Archived(v)
    <3>1. CASE records'[r] = records[r]
      BY <3>1 DEF Archived, Known
    <3>2. CASE r \notin Archived(v) \cup Archived(v)'
      BY <3>2
    <3> QED BY <3>1, <3>2
  <2>2. Archived(v)' = Archived(v)
    <3>1. Archived(v) \subseteq ResponseIds /\ Archived(v)' \subseteq ResponseIds
      BY DEF Archived
    <3> QED BY <2>1, <3>1
  <2>3. \A r \in Archived(v) : Shown(r)' = Shown(r)
    <3>1. ASSUME NEW r \in Archived(v), records'[r] = records[r] PROVE Shown(r)' = Shown(r)
      BY <3>1 DEF Shown
    <3>2. \A r \in Archived(v) : r \in ResponseIds
      BY DEF Archived
    <3> QED BY <3>1, <3>2
  <2>4. ShownIn(v)' = ShownIn(v)
    BY <2>2, <2>3 DEF ShownIn
  <2>5. Complete(convs[v].context.entries, Archived(v), ShownIn(v))
    BY DEF TurnsAreKept
  <2> QED BY <2>2, <2>4, <2>5
<1> QED BY <1>1 DEF TurnsAreKept

LEMMA KeptByCreates ==
    ASSUME SessionInvariant, TurnsAreKept, NEW c \in Clients,
           \/ Submit(c) \/ Resolve(c) \/ AcquireTurn(c) \/ JudgeHolder(c)
           \/ TakeOver(c) \/ Admit(c) \/ ReleaseTurn(c) \/ Retrieve(c)
    PROVE  TurnsAreKept'
<1>1. ConvsShaped /\ RecordsShaped /\ CreateIsSound(c)
  BY DEF SessionInvariant, Shaped, CreatesAreSound
<1>2. \A v \in ConversationIds : convs'[v].context = convs[v].context
  <2>1. ASSUME NEW v, NEW m, convs' = [convs EXCEPT ![v].marker = m]
        PROVE  \A w \in ConversationIds : convs'[w].context = convs[w].context
    BY <1>1, <2>1 DEF ConvsShaped, ConvFields
  <2>2. ASSUME convs' = [v \in ConversationIds |->
                            IF Spec_(c).anchor = [kind |-> "conversation", id |-> v]
                            THEN [convs[v] EXCEPT !.overlapped = @ \/ Overlaps(v, c)]
                            ELSE convs[v]]
        PROVE  \A w \in ConversationIds : convs'[w].context = convs[w].context
    BY <1>1, <2>2 DEF ConvsShaped, ConvFields
  <2>3. CASE Resolve(c)
    BY <2>2, <2>3 DEF Resolve
  <2>4. CASE AcquireTurn(c) \/ TakeOver(c) \/ ReleaseTurn(c)
    BY <2>1, <2>4 DEF AcquireTurn, TakeOver, ReleaseTurn
  <2>5. CASE Submit(c) \/ JudgeHolder(c) \/ Admit(c) \/ Retrieve(c)
    BY <2>5 DEF Submit, JudgeHolder, Admit, Retrieve
  <2> QED BY <2>3, <2>4, <2>5
<1>3. CASE records' = records
  <2>1. \A r \in ResponseIds : GoesRight(r)'
    BY <1>3 DEF TurnsAreKept, GoesRight, Known, InConversation
  <2> QED BY <1>2, <1>3, <2>1, TurnsStayKept
<1>4. CASE clients[c].pc = "admit" /\ records' = [records EXCEPT ![clients[c].id] = Queued(c)]
  <2>1. PICK r \in ResponseIds : r = clients[c].id /\ ~Known(r)
    BY <1>1, <1>4 DEF CreateIsSound, HasId
  <2>2. /\ records'[r] = Queued(c) /\ \A s \in ResponseIds \ {r} : records'[s] = records[s]
    BY <1>1, <1>4, <2>1 DEF RecordsShaped
  <2>3. Queued(c).step = "run"
    BY DEF Queued
  <2>4. \A s \in ResponseIds : GoesRight(s)'
    BY <2>2, <2>3 DEF TurnsAreKept, GoesRight, Known, InConversation
  <2>5. \A v \in ConversationIds : r \notin Archived(v) \cup Archived(v)'
    BY <2>1, <2>2, <2>3 DEF Archived
  <2> QED BY <1>2, <2>2, <2>4, <2>5, TurnsStayKept
<1>5. records' = records \/ (/\ clients[c].pc = "admit"
                             /\ records' = [records EXCEPT ![clients[c].id] = Queued(c)])
  <2>1. CASE Admit(c)
    BY <2>1 DEF Admit
  <2>2. CASE ~Admit(c)
    BY <2>2 DEF Submit, Resolve, AcquireTurn, JudgeHolder, TakeOver, ReleaseTurn, Retrieve
  <2> QED BY <2>1, <2>2
<1> QED BY <1>3, <1>4, <1>5

\* A run that is not archived yet, and not by this step, leaves the turns kept.
LEMMA KeptByRuns ==
    ASSUME SessionInvariant, ListsAreSound, TurnsAreKept, NEW r \in ResponseIds,
           Start(r) \/ Finish(r) \/ ArchiveTurn(r) \/ Settle(r) \/ CloseStream(r)
    PROVE  TurnsAreKept'
<1>1. /\ RecordsShaped /\ ConvsShaped /\ Known(r) /\ RunIsSound(r) /\ GoesRight(r)
  BY DEF SessionInvariant, Shaped, RunsAreSound, TurnsAreKept,
         Start, Finish, ArchiveTurn, Settle, CloseStream
<1>2. ASSUME Rewrites(r), \/ records'[r].step \in {"run", "done", "release"}
                          \/ records'[r].step = AfterRun(r)
      PROVE  \A s \in ResponseIds : GoesRight(s)'
  <2>1. AfterRun(r) = "archive" => InConversation(r) /\ records[r].spec.store
    BY DEF AfterRun
  <2>2. AfterRun(r) = "close" => ~InConversation(r)
    BY DEF AfterRun
  <2>3. GoesRight(r)'
    BY <1>1, <1>2, <2>1, <2>2 DEF GoesRight, Rewrites, InConversation
  <2>4. ASSUME NEW s \in ResponseIds \ {r} PROVE GoesRight(s)'
    BY <1>2, <2>4 DEF TurnsAreKept, GoesRight, Rewrites, InConversation, Known
  <2> QED BY <2>3, <2>4
<1>3. ASSUME Rewrites(r), records[r].step = "run", convs' = convs,
             records'[r].step \in {"run", AfterRun(r)}
      PROVE  TurnsAreKept'
  <2>1. \A s \in ResponseIds : GoesRight(s)'
    BY <1>2, <1>3
  <2>2. ASSUME NEW v \in ConversationIds PROVE r \notin Archived(v) \cup Archived(v)'
    <3>1. r \notin Archived(v)
      BY <1>3 DEF Archived
    <3>2. r \notin Archived(v)'
      <4>1. AfterRun(r) \in {"release", "done"} => ~records[r].spec.store
        BY DEF AfterRun
      <4> QED BY <1>3, <4>1 DEF Archived, Rewrites
    <3> QED BY <3>1, <3>2
  <2> QED BY <1>3, <2>1, <2>2, TurnsStayKept DEF Rewrites
<1>4. CASE Start(r)
  <2>1. PICK status, step, turns :
          /\ records' = [records EXCEPT ![r].status = status, ![r].step = step,
                                        ![r].turns = turns]
          /\ step \in {records[r].step, AfterRun(r)}
    BY <1>4 DEF Start
  <2>2. /\ DOMAIN records' = ResponseIds /\ DOMAIN records'[r] = RecordFields
        /\ records'[r].spec = records[r].spec /\ records'[r].step = step
        /\ \A s \in ResponseIds \ {r} : records'[s] = records[s]
    BY <1>1, <2>1 DEF RecordsShaped, RecordFields
  <2>3. Rewrites(r)
    BY <1>1, <2>2, WholeRecord DEF Rewrites, RecordsShaped, Known
  <2>4. records[r].step = "run" /\ convs' = convs
    BY <1>1, <1>4 DEF Start, RunIsSound, InFlight
  <2> QED BY <1>3, <2>1, <2>2, <2>3, <2>4
<1>5. CASE Finish(r)
  <2>1. PICK reply \in Replies :
          records' = [records EXCEPT ![r].status = reply.status, ![r].output = reply.output,
                                     ![r].reasoning = ReasoningOf(reply),
                                     ![r].step = AfterRun(r)]
    BY <1>5 DEF Finish
  <2>2. /\ DOMAIN records' = ResponseIds /\ DOMAIN records'[r] = RecordFields
        /\ records'[r].spec = records[r].spec /\ records'[r].step = AfterRun(r)
        /\ \A s \in ResponseIds \ {r} : records'[s] = records[s]
    BY <1>1, <2>1 DEF RecordsShaped, RecordFields
  <2>3. Rewrites(r)
    BY <1>1, <2>2, WholeRecord DEF Rewrites, RecordsShaped, Known
  <2>4. records[r].step = "run" /\ convs' = convs
    BY <1>1, <1>5 DEF Finish, RunIsSound, InFlight
  <2> QED BY <1>3, <2>2, <2>3, <2>4
<1>6. ASSUME NEW step, StepTo(r, step)
      PROVE  /\ Rewrites(r) /\ records'[r].step = step
             /\ records'[r].output = records[r].output
             /\ records'[r].reasoning = records[r].reasoning
  <2>1. /\ DOMAIN records' = ResponseIds /\ DOMAIN records'[r] = RecordFields
        /\ records'[r].spec = records[r].spec /\ records'[r].step = step
        /\ records'[r].output = records[r].output
        /\ records'[r].reasoning = records[r].reasoning
        /\ \A s \in ResponseIds \ {r} : records'[s] = records[s]
    BY <1>1, <1>6 DEF RecordsShaped, RecordFields, StepTo
  <2> QED BY <1>1, <2>1, WholeRecord DEF Rewrites, RecordsShaped, Known
<1>7. CASE CloseStream(r)
  <2>1. /\ Rewrites(r) /\ records'[r].step = "done" /\ records[r].step = "close"
        /\ convs' = convs
    BY <1>6, <1>7 DEF CloseStream
  <2>2. \A s \in ResponseIds : GoesRight(s)'
    BY <1>2, <2>1
  <2>3. ASSUME NEW v \in ConversationIds PROVE r \notin Archived(v) \cup Archived(v)'
    BY <1>1, <2>1 DEF Archived, GoesRight, Rewrites, InConversation, InConversationOf
  <2> QED BY <2>1, <2>2, <2>3, TurnsStayKept DEF Rewrites
<1>8. CASE Settle(r)
  <2>1. /\ Rewrites(r) /\ records'[r].step = "done" /\ records[r].step = "release"
        /\ records'[r].output = records[r].output
        /\ records'[r].reasoning = records[r].reasoning
    BY <1>6, <1>8 DEF Settle
  <2>2. \A s \in ResponseIds : GoesRight(s)'
    BY <1>2, <2>1
  <2>3. \A v \in ConversationIds : r \in Archived(v)' <=> r \in Archived(v)
    BY <1>1, <2>1 DEF Archived, Rewrites
  <2>4. Shown(r)' = Shown(r)
    BY <2>1 DEF Shown, Rewrites
  <2>5. \A v \in ConversationIds : convs'[v].context = convs[v].context
    BY <1>1, <1>8 DEF Settle, ConvsShaped, ConvFields
  <2> QED BY <2>1, <2>2, <2>3, <2>4, <2>5, TurnsStayKept DEF Rewrites
<1>9. CASE ArchiveTurn(r)
  <2>1. PICK v \in ConversationIds : records[r].spec.anchor = InConversationOf(v)
    BY <1>1, <1>9 DEF RunIsSound, ArchiveTurn
  <2>2. records[r].spec.anchor.id = v
    BY <2>1 DEF InConversationOf
  <2>3. PICK input, output, reasoning : /\ input = records[r].spec.items
                                        /\ output = records[r].output
                                        /\ reasoning = records[r].reasoning
    OBVIOUS
  <2>4. IsList(input) /\ IsList(output)
    BY <1>1, <2>3 DEF ListsAreSound, RecordLists, Sendable, SpecWritten, Written
  <2> DEFINE turn == WithTurn(convs[v].context, input, output, reasoning)
  <2>5. convs' = [convs EXCEPT ![v].context = turn]
    BY <1>9, <2>2, <2>3 DEF ArchiveTurn
  <2> HIDE DEF turn
  <2>6. /\ convs'[v].context = turn
        /\ \A w \in ConversationIds \ {v} : convs'[w].context = convs[w].context
    BY <1>1, <2>5 DEF ConvsShaped, ConvFields
  <2>7. /\ Rewrites(r) /\ records'[r].step = "release" /\ records[r].step = "archive"
        /\ records'[r].output = output /\ records'[r].reasoning = reasoning
        /\ records'[r].spec.items = input
    BY <1>6, <1>9, <2>3 DEF ArchiveTurn, Rewrites
  <2>8. \A s \in ResponseIds : GoesRight(s)'
    BY <1>2, <2>7
  <2>9. Shown(r)' = ShownTurn(input, output, reasoning)
    BY <2>7 DEF Shown, ShownTurn
  <2>10. \A s \in ResponseIds \ {r} : Shown(s)' = Shown(s)
    BY <2>7 DEF Shown, Rewrites
  <2>11. r \notin Archived(v) /\ Archived(v)' = Archived(v) \cup {r}
    <3>1. r \notin Archived(v)
      BY <2>7 DEF Archived
    <3>2. r \in Archived(v)'
      BY <1>1, <2>1, <2>7 DEF Archived, GoesRight, Rewrites
    <3>3. \A s \in ResponseIds \ {r} : s \in Archived(v)' <=> s \in Archived(v)
      BY <2>7 DEF Archived, Rewrites, Known
    <3>4. Archived(v) \subseteq ResponseIds /\ Archived(v)' \subseteq ResponseIds
      BY DEF Archived
    <3> QED BY <3>1, <3>2, <3>3, <3>4
  <2>12. ASSUME NEW w \in ConversationIds, w # v
         PROVE  Archived(w)' = Archived(w) /\ ShownIn(w)' = ShownIn(w)
    <3>1. r \notin Archived(w) /\ r \notin Archived(w)'
      BY <2>1, <2>7, <2>12 DEF Archived, Rewrites, InConversationOf
    <3>2. \A s \in ResponseIds \ {r} : s \in Archived(w)' <=> s \in Archived(w)
      BY <2>7 DEF Archived, Rewrites, Known
    <3>3. Archived(w) \subseteq ResponseIds /\ Archived(w)' \subseteq ResponseIds
      BY DEF Archived
    <3>4. Archived(w)' = Archived(w)
      BY <3>1, <3>2, <3>3
    <3>5. \A s \in Archived(w) : Shown(s)' = Shown(s)
      BY <2>10, <3>1, <3>3
    <3> QED BY <3>4, <3>5 DEF ShownIn
  <2>13. Complete(convs'[v].context.entries, Archived(v)', ShownIn(v)')
    <3> DEFINE A == Archived(v)
               shown == ShownIn(v)
               more == ShownIn(v)'
    <3>1. PICK E : convs[v].context.entries \in Seq(E)
      BY DEF ListsAreSound, Keepable
    <3>2. Complete(convs[v].context.entries, A, shown)
      BY DEF TurnsAreKept
    <3>3. \A x \in A : shown[x] \in Seq(Range(shown[x]))
      <4>1. ASSUME NEW x \in A PROVE shown[x] \in Seq(Range(shown[x]))
        <5>1. x \in ResponseIds /\ Known(x)
          BY <4>1 DEF Archived
        <5>2. IsList(records[x].spec.items) /\ IsList(records[x].output)
          BY <5>1 DEF ListsAreSound, RecordLists, Sendable, SpecWritten, Written
        <5>3. Shown(x) = ShownTurn(records[x].spec.items, records[x].output,
                                   records[x].reasoning)
          BY DEF Shown, ShownTurn
        <5>4. Shown(x) \in Seq(Range(Shown(x)))
          BY <5>2, <5>3, ShownParts
        <5>5. shown[x] = Shown(x)
          BY DEF ShownIn
        <5> QED BY <5>4, <5>5
      <4> QED BY <4>1
    <3>4. /\ \A x \in A : more[x] = shown[x]
          /\ more[r] = ShownTurn(input, output, reasoning)
      <4>1. A \subseteq ResponseIds
        BY DEF Archived
      <4> QED BY <2>9, <2>10, <2>11, <4>1 DEF ShownIn
    <3>5. r \notin A /\ Archived(v)' = A \cup {r}
      BY <2>11
    <3> HIDE DEF A, shown, more
    <3>6. Complete(turn.entries, A \cup {r}, more)
      BY <2>4, <3>1, <3>2, <3>3, <3>4, <3>5, TurnIsAdded DEF turn
    <3> QED BY <2>6, <3>5, <3>6 DEF more
  <2>14. ASSUME NEW w \in ConversationIds, w # v
         PROVE  Complete(convs'[w].context.entries, Archived(w)', ShownIn(w)')
    BY <2>6, <2>12, <2>14 DEF TurnsAreKept
  <2> QED BY <2>8, <2>13, <2>14 DEF TurnsAreKept
<1> QED BY <1>4, <1>5, <1>7, <1>8, <1>9

\* What the invariant says is what the transcript shows.
LEMMA KeptIsComplete ==
    ASSUME ListsAreSound, TurnsAreKept
    PROVE  TranscriptIsComplete
<1> SUFFICES ASSUME NEW v \in ConversationIds
             PROVE  LET transcript == Transcript(convs[v].context)
                    IN  /\ Len(transcript) = MapThenSumSet(LAMBDA r : Len(Shown(r)), Archived(v))
                        /\ \A r \in Archived(v) : Includes(transcript, Shown(r))
  BY DEF TranscriptIsComplete, Archived, Includes, InConversationOf
<1> DEFINE context == convs[v].context
           n == Len(context.entries)
           A == Archived(v)
<1>1. PICK S, run : /\ Reads(run, S, context.entries)
                    /\ SumsTo([r \in A |-> Len(ShownIn(v)[r])], A, Len(run[n]))
                    /\ \A r \in A : Includes(run[n], ShownIn(v)[r])
  BY DEF TurnsAreKept, Complete
<1>2. n \in Nat /\ DOMAIN context.entries = 1..n
  BY DEF ListsAreSound, Keepable
<1>3. Transcript(context) = run[n]
  <2> HIDE DEF context, n
  <2>1. run[0] = <<>> /\ \A k \in 1..n : run[k] = Told(run[k - 1], context.entries[k])
    BY <1>1 DEF Reads, n
  <2> QED BY <1>2, <2>1, TranscriptFold
<1>4. \A r \in A : ShownIn(v)[r] = Shown(r)
  BY DEF ShownIn
<1>5. IsFiniteSet(A)
  BY DEF TurnsAreKept, Complete
<1> HIDE DEF A, context, n
<1>6. SumsTo([r \in A |-> Len(Shown(r))], A, Len(run[n]))
  BY <1>1, <1>4
<1>7. MapThenSumSet(LAMBDA r : Len(Shown(r)), A) = Len(run[n])
  BY <1>5, <1>6, SumOfShown
<1> QED BY <1>1, <1>3, <1>4, <1>7 DEF A, context

\* The transcript of a conversation shows every archived turn whole and in one
\* piece, thoughts included, and nothing else, however many turns it has and in
\* whatever order they came to be archived.
THEOREM TranscriptsAreComplete == Spec => []TranscriptIsComplete
<1>1. Init => TurnsAreKept
  <2> SUFFICES ASSUME Init PROVE TurnsAreKept
    OBVIOUS
  <2>1. \A r \in ResponseIds : ~Known(r)
    BY DEF Init, Known
  <2>2. \A v \in ConversationIds : Archived(v) = {} /\ convs[v].context.entries = <<>>
    BY <2>1 DEF Init, Archived, EmptyContext
  <2> QED BY <2>1, <2>2, NothingToShow DEF TurnsAreKept, GoesRight
<1>2. SessionInvariant /\ ListsAreSound /\ TurnsAreKept /\ [Next]_vars => TurnsAreKept'
  <2> SUFFICES ASSUME SessionInvariant, ListsAreSound, TurnsAreKept, [Next]_vars
               PROVE  TurnsAreKept'
    OBVIOUS
  <2>1. CASE UNCHANGED vars
    <3>1. \A r \in ResponseIds : GoesRight(r)'
      BY <2>1 DEF vars, TurnsAreKept, GoesRight, Known, InConversation
    <3> QED BY <2>1, <3>1, TurnsStayKept DEF vars
  <2>2. CASE Next
    <3> DEFINE Goal == TurnsAreKept'
    <3>1. ASSUME NEW c \in Clients,
                 \/ Submit(c) \/ Resolve(c) \/ AcquireTurn(c) \/ JudgeHolder(c)
                 \/ TakeOver(c) \/ Admit(c) \/ ReleaseTurn(c) \/ Retrieve(c)
          PROVE  Goal
      BY <3>1, KeptByCreates
    <3>2. ASSUME NEW r \in ResponseIds,
                 Start(r) \/ Finish(r) \/ ArchiveTurn(r) \/ Settle(r) \/ CloseStream(r)
          PROVE  Goal
      BY <3>2, KeptByRuns
    <3> HIDE DEF Goal
    <3>3. Goal
      BY <2>2, <3>1, <3>2 DEF Next
    <3> QED BY <3>3 DEF Goal
  <2> QED BY <2>1, <2>2
<1>3. ListsAreSound /\ TurnsAreKept => TranscriptIsComplete
  BY KeptIsComplete
<1> QED BY <1>1, <1>2, <1>3, SessionStaysSound, ListsStaySound, PTL DEF Spec

----------------------------------------------------------------------------
(* The depth of a document: the loop that measures it, turn by turn, and   *)
(* its levels, one below the other.                                        *)

\* What a function makes of a value it can be applied to again and again.
Iterated(f, T, x, g) ==
    f \in [Nat -> T] /\ f[0] = x /\ \A n \in Nat : f[n + 1] = g[f[n]]

LEMMA Iterates ==
    ASSUME NEW T, NEW x \in T, NEW g \in [T -> T]
    PROVE  \E f : Iterated(f, T, x, g)
<1> DEFINE Upto(m, h) == /\ h \in [0..m -> T] /\ h[0] = x
                         /\ \A k \in 0..m : k < m => h[k + 1] = g[h[k]]
           S == {m \in Nat : \E h : Upto(m, h)}
<1>1. 0 \in S
  <2>1. Upto(0, [k \in 0..0 |-> x])
    OBVIOUS
  <2> QED BY <2>1
<1>2. ASSUME NEW m \in S \cap Nat PROVE m + 1 \in S
  <2>1. PICK h : Upto(m, h)
    OBVIOUS
  <2> DEFINE more == [k \in 0..(m + 1) |-> IF k = m + 1 THEN g[h[m]] ELSE h[k]]
  <2>2. \A k \in 0..m : h[k] \in T /\ g[h[k]] \in T
    BY <2>1
  <2>3. \A k \in 0..(m + 1) : k = m + 1 \/ k \in 0..m
    OBVIOUS
  <2>4. m \in 0..m /\ 0 \in 0..m /\ 0 # m + 1
    OBVIOUS
  <2>5. more \in [0..(m + 1) -> T]
    BY <2>2, <2>3, <2>4
  <2>6. more[0] = x
    BY <2>1, <2>4
  <2>7. ASSUME NEW k \in 0..(m + 1), k < m + 1 PROVE more[k + 1] = g[more[k]]
    <3>1. k \in 0..m /\ k # m + 1 /\ k + 1 \in 0..(m + 1)
      BY <2>7
    <3>2. more[k] = h[k]
      BY <3>1
    <3>3. CASE k = m
      BY <3>1, <3>2, <3>3
    <3>4. CASE k # m
      <4>1. k < m /\ k + 1 # m + 1
        BY <3>1, <3>4
      <4>2. more[k + 1] = h[k + 1] /\ h[k + 1] = g[h[k]]
        BY <2>1, <3>1, <4>1
      <4> QED BY <3>2, <4>2
    <3> QED BY <3>3, <3>4
  <2> HIDE DEF more
  <2>8. Upto(m + 1, more)
    BY <2>5, <2>6, <2>7
  <2> QED BY <2>8
<1>3. Nat \subseteq S
  <2> HIDE DEF S
  <2> QED BY <1>1, <1>2, SetInduction
<1>4. ASSUME NEW m \in Nat, NEW h, Upto(m, h), NEW n \in Nat, NEW i, Upto(n, i), m <= n
      PROVE  \A k \in 0..m : h[k] = i[k]
  <2> DEFINE A == {k \in Nat : k <= m => h[k] = i[k]}
  <2>1. 0 \in A
    BY <1>4
  <2>2. ASSUME NEW k \in A \cap Nat PROVE k + 1 \in A
    <3> SUFFICES ASSUME k + 1 <= m PROVE h[k + 1] = i[k + 1]
      OBVIOUS
    <3>1. k \in 0..m /\ k < m /\ k \in 0..n /\ k < n /\ h[k] = i[k]
      BY <1>4
    <3> QED BY <1>4, <3>1
  <2>3. Nat \subseteq A
    <3> HIDE DEF A
    <3> QED BY <2>1, <2>2, SetInduction
  <2> QED BY <2>3
<1> DEFINE upto(m) == CHOOSE h : Upto(m, h)
           f == [n \in Nat |-> upto(n)[n]]
<1>5. \A m \in Nat : Upto(m, upto(m))
  <2>1. \A m \in Nat : \E h : Upto(m, h)
    BY <1>3
  <2> HIDE DEF Upto
  <2> QED BY <2>1
<1> HIDE DEF upto
<1>6. f \in [Nat -> T] /\ f[0] = x
  <2>1. \A n \in Nat : upto(n)[n] \in T
    BY <1>5
  <2> QED BY <1>5, <2>1
<1>7. ASSUME NEW n \in Nat PROVE f[n + 1] = g[f[n]]
  <2>1. Upto(n, upto(n)) /\ Upto(n + 1, upto(n + 1))
    BY <1>5
  <2>2. n <= n + 1 /\ n \in 0..n /\ n \in 0..(n + 1) /\ n < n + 1 /\ n + 1 \in Nat
    OBVIOUS
  <2>3. upto(n)[n] = upto(n + 1)[n]
    <3> HIDE DEF Upto
    <3> QED BY <1>4, <2>1, <2>2
  <2>4. upto(n + 1)[n + 1] = g[upto(n + 1)[n]]
    BY <2>1, <2>2
  <2> QED BY <2>2, <2>3, <2>4
<1> HIDE DEF f
<1>8. Iterated(f, T, x, g)
  BY <1>6, <1>7 DEF Iterated
<1> QED BY <1>8

LEMMA GreaterOfTwo ==
    ASSUME NEW m \in Nat, NEW n \in Nat
    PROVE  Max({m, n}) \in Nat /\ Max({m, n}) >= m /\ Max({m, n}) >= n
<1>1. \E x \in {m, n} : \A y \in {m, n} : x >= y
  OBVIOUS
<1>2. Max({m, n}) \in {m, n} /\ \A y \in {m, n} : Max({m, n}) >= y
  BY <1>1 DEF Max
<1> HIDE DEF Max
<1> QED BY <1>2

\* A set of some of the first numbers has a greatest one.
LEMMA GreatestIsMember ==
    ASSUME NEW n \in Nat, NEW s \in SUBSET (1..n), s # {}
    PROVE  Max(s) \in s
<1> DEFINE gaps == {n - x : x \in s}
<1>1. gaps \in SUBSET Nat /\ gaps # {}
  <2>1. \A x \in s : n - x \in Nat
    OBVIOUS
  <2> QED BY <2>1
<1>2. Min(gaps) \in gaps /\ \A k \in gaps : Min(gaps) <= k
  <2> HIDE DEF gaps
  <2> QED BY <1>1, LeastIsMember
<1>3. PICK x \in s : Min(gaps) = n - x
  BY <1>2
<1>4. \A y \in s : n - x <= n - y
  <2>1. \A y \in s : n - y \in gaps
    OBVIOUS
  <2> HIDE DEF gaps
  <2> QED BY <1>2, <1>3, <2>1
<1>5. \A y \in s : x >= y
  BY <1>4
<1> QED BY <1>5 DEF Max

\* The loop of json_depth: what it has seen so far, and what it has yet to see.
Loop == [max : Nat, stack : Seq([node : Documents, depth : Nat])]
LoopTurn(s) == IF s.stack = <<>> THEN s ELSE Visit(s)
LoopStart(value) == [max |-> 0, stack |-> <<[node |-> value, depth |-> 1]>>]

\* The stack after a turn: the kids of the node that was on top, one deeper,
\* before what was below it.
LEMMA LoopTurns ==
    ASSUME NEW s \in Loop, s.stack # <<>>
    PROVE  LET top == s.stack[1]
               next == Visit(s)
               kids == top.node.kids
           IN  /\ top.node \in Documents /\ top.depth \in Nat
               /\ Len(kids) \in Nat
               /\ \A i \in 1..Len(kids) : kids[i] \in Documents
               /\ next \in Loop /\ next.max >= s.max /\ next.max >= top.depth
               /\ Len(next.stack) = Len(kids) + Len(s.stack) - 1
               /\ \A i \in 1..Len(kids) :
                     next.stack[i] = [node |-> kids[i], depth |-> top.depth + 1]
               /\ \A i \in 2..Len(s.stack) : next.stack[Len(kids) + i - 1] = s.stack[i]
<1> DEFINE Waiting == [node : Documents, depth : Nat]
<1>1. s.max \in Nat /\ s.stack \in Seq(Waiting) /\ Len(s.stack) \in Nat \ {0}
  BY DEF Loop
<1>2. PICK top : top = s.stack[1] /\ top \in Waiting
  <2> HIDE DEF Waiting
  <2>1. 1 \in 1..Len(s.stack) /\ DOMAIN s.stack = 1..Len(s.stack)
    BY <1>1
  <2>2. s.stack[1] \in Waiting
    BY <1>1, <2>1
  <2> QED BY <2>2
<1>3. PICK kids : kids = top.node.kids
  OBVIOUS
<1>4. top.node \in Documents /\ top.depth \in Nat
  BY <1>2
<1>5. /\ Len(kids) \in Nat /\ DOMAIN kids = 1..Len(kids)
      /\ \A i \in 1..Len(kids) : kids[i] \in Documents
  <2>1. IsList(kids) /\ Range(kids) \subseteq Documents
    BY <1>3, <1>4, SessionConstants
  <2> QED BY <2>1 DEF IsList, Range
<1>6. PICK pushed : pushed = [i \in 1..Len(kids) |-> [node |-> kids[i], depth |-> top.depth + 1]]
  OBVIOUS
<1>7. pushed \in Seq(Waiting) /\ Len(pushed) = Len(kids)
  BY <1>4, <1>5, <1>6
<1>8. PICK rest : rest = Tail(s.stack)
  OBVIOUS
<1>9. /\ rest \in Seq(Waiting) /\ Len(rest) = Len(s.stack) - 1
      /\ \A i \in 1..Len(rest) : rest[i] = s.stack[i + 1]
  BY <1>1, <1>8
<1>10. PICK next : next = Visit(s)
  OBVIOUS
<1>11. next = [max |-> Max({s.max, top.depth}), stack |-> pushed \o rest]
  BY <1>2, <1>3, <1>6, <1>8, <1>10 DEF Visit
<1> HIDE DEF Waiting
<1>12. PICK stack : stack = pushed \o rest
  OBVIOUS
<1>13. /\ stack \in Seq(Waiting) /\ Len(stack) = Len(kids) + Len(s.stack) - 1
       /\ \A i \in 1..Len(kids) : stack[i] = pushed[i]
       /\ \A i \in 1..Len(rest) : stack[Len(kids) + i] = rest[i]
  <2>1. /\ stack \in Seq(Waiting) /\ Len(stack) = Len(pushed) + Len(rest)
        /\ \A i \in 1..(Len(pushed) + Len(rest)) :
              stack[i] = IF i <= Len(pushed) THEN pushed[i] ELSE rest[i - Len(pushed)]
    BY <1>7, <1>9, <1>12
  <2>2. Len(rest) \in Nat /\ Len(rest) = Len(s.stack) - 1 /\ Len(pushed) = Len(kids)
    BY <1>7, <1>9
  <2>3. ASSUME NEW i \in 1..Len(kids) PROVE stack[i] = pushed[i]
    <3>1. i \in 1..(Len(pushed) + Len(rest)) /\ i <= Len(pushed)
      BY <1>5, <2>2
    <3> QED BY <2>1, <3>1
  <2>4. ASSUME NEW i \in 1..Len(rest) PROVE stack[Len(kids) + i] = rest[i]
    <3>1. /\ Len(kids) + i \in 1..(Len(pushed) + Len(rest)) /\ ~(Len(kids) + i <= Len(pushed))
          /\ (Len(kids) + i) - Len(pushed) = i
      BY <1>5, <2>2
    <3> QED BY <2>1, <3>1
  <2>5. Len(stack) = Len(kids) + Len(s.stack) - 1
    BY <1>1, <1>5, <2>1, <2>2
  <2> QED BY <2>1, <2>3, <2>4, <2>5
<1>14. ASSUME NEW i \in 2..Len(s.stack) PROVE stack[Len(kids) + i - 1] = s.stack[i]
  <2>1. i - 1 \in 1..Len(rest) /\ (i - 1) + 1 = i /\ Len(kids) + (i - 1) = Len(kids) + i - 1
    BY <1>1, <1>5, <1>9
  <2>2. stack[Len(kids) + (i - 1)] = rest[i - 1] /\ rest[i - 1] = s.stack[(i - 1) + 1]
    BY <1>9, <1>13, <2>1
  <2> QED BY <2>1, <2>2
<1>15. /\ Max({s.max, top.depth}) \in Nat
       /\ Max({s.max, top.depth}) >= s.max /\ Max({s.max, top.depth}) >= top.depth
  BY <1>1, <1>4, GreaterOfTwo
<1>16. next.max = Max({s.max, top.depth}) /\ next.stack = stack
  BY <1>11, <1>12
<1>17. next \in Loop
  BY <1>11, <1>12, <1>13, <1>15 DEF Loop, Waiting
<1>18. \A i \in 1..Len(kids) : next.stack[i] = [node |-> kids[i], depth |-> top.depth + 1]
  BY <1>6, <1>13, <1>16
<1> QED BY <1>2, <1>3, <1>4, <1>5, <1>10, <1>13, <1>14, <1>15, <1>16, <1>17, <1>18

LEMMA LoopRuns ==
    ASSUME NEW value \in Documents
    PROVE  \E run \in [Nat -> Loop] :
              /\ run[0] = LoopStart(value)
              /\ \A n \in Nat : run[n + 1] = LoopTurn(run[n])
              /\ Measured(value) = run[MaxNodes]
<1> DEFINE Equation(f) == f = [n \in Nat |-> IF n = 0 THEN LoopStart(value)
                                            ELSE LoopTurn(f[n - 1])]
           after == CHOOSE f : Equation(f)
           g == [s \in Loop |-> LoopTurn(s)]
<1>1. LoopStart(value) \in Loop
  BY DEF LoopStart, Loop
<1>0. \A s \in Loop : LoopTurn(s) \in Loop
  BY LoopTurns DEF LoopTurn
<1>2. g \in [Loop -> Loop]
  BY <1>0
<1>3. PICK f : Iterated(f, Loop, LoopStart(value), g)
  <2> HIDE DEF g
  <2> QED BY <1>1, <1>2, Iterates
<1>4. Equation(f)
  <2>1. ASSUME NEW n \in Nat
        PROVE  f[n] = IF n = 0 THEN LoopStart(value) ELSE LoopTurn(f[n - 1])
    <3>1. CASE n # 0
      <4>1. n - 1 \in Nat /\ (n - 1) + 1 = n
        BY <3>1
      <4>2. f[n] = g[f[n - 1]] /\ f[n - 1] \in Loop
        BY <1>3, <4>1 DEF Iterated
      <4> QED BY <3>1, <4>2
    <3> QED BY <1>3, <3>1 DEF Iterated
  <2>2. f = [n \in Nat |-> f[n]]
    BY <1>3 DEF Iterated
  <2> QED BY <2>1, <2>2
<1>5. Equation(after)
  BY <1>4
<1>6. Measured(value) = after[MaxNodes]
  BY DEF Measured, LoopStart, LoopTurn
<1> HIDE DEF after
<1>7. after[0] = LoopStart(value)
  BY <1>5
<1>8. ASSUME NEW n \in Nat PROVE after[n + 1] = LoopTurn(after[n])
  <2>1. n + 1 \in Nat /\ n + 1 # 0 /\ (n + 1) - 1 = n
    OBVIOUS
  <2> QED BY <1>5, <2>1
<1>9. after \in [Nat -> Loop]
  <2> DEFINE A == {n \in Nat : after[n] \in Loop}
  <2>1. 0 \in A
    BY <1>1, <1>7
  <2>2. \A n \in A \cap Nat : n + 1 \in A
    BY <1>0, <1>8
  <2>3. Nat \subseteq A
    <3> HIDE DEF A
    <3> QED BY <2>1, <2>2, SetInduction
  <2> QED BY <1>5, <2>3
<1> QED BY <1>6, <1>7, <1>8, <1>9

\* The values n levels below a document.
KidsOf(values) == UNION {Range(v.kids) : v \in values}
Level(value, n) ==
    LET below[k \in Nat] ==
            IF k = 0 THEN {value} ELSE UNION {Range(v.kids) : v \in below[k - 1]}
    IN  below[n]

LEMMA Levels ==
    ASSUME NEW value \in Documents
    PROVE  /\ Level(value, 0) = {value}
           /\ \A n \in Nat : /\ Level(value, n) \subseteq Documents
                             /\ Level(value, n + 1) = KidsOf(Level(value, n))
<1> DEFINE Equation(f) == f = [n \in Nat |-> IF n = 0 THEN {value} ELSE KidsOf(f[n - 1])]
           below == CHOOSE f : Equation(f)
           g == [s \in SUBSET Documents |-> KidsOf(s)]
<1>1. {value} \in SUBSET Documents
  OBVIOUS
<1>2. g \in [SUBSET Documents -> SUBSET Documents]
  <2>1. \A v \in Documents : Range(v.kids) \subseteq Documents
    BY SessionConstants
  <2> QED BY <2>1 DEF KidsOf
<1>3. PICK f : Iterated(f, SUBSET Documents, {value}, g)
  <2> HIDE DEF g
  <2> QED BY <1>1, <1>2, Iterates
<1>4. Equation(f)
  <2>1. ASSUME NEW n \in Nat
        PROVE  f[n] = IF n = 0 THEN {value} ELSE KidsOf(f[n - 1])
    <3>1. CASE n # 0
      <4>1. n - 1 \in Nat /\ (n - 1) + 1 = n
        BY <3>1
      <4>2. f[n] = g[f[n - 1]] /\ f[n - 1] \in SUBSET Documents
        BY <1>3, <4>1 DEF Iterated
      <4> QED BY <3>1, <4>2
    <3> QED BY <1>3, <3>1 DEF Iterated
  <2>2. f = [n \in Nat |-> f[n]]
    BY <1>3 DEF Iterated
  <2> QED BY <2>1, <2>2
<1>5. Equation(below)
  BY <1>4
<1>6. \A n \in Nat : Level(value, n) = below[n]
  BY DEF Level, KidsOf
<1> HIDE DEF below
<1>7. below[0] = {value}
  BY <1>5
<1>8. ASSUME NEW n \in Nat PROVE below[n + 1] = KidsOf(below[n])
  <2>1. n + 1 \in Nat /\ n + 1 # 0 /\ (n + 1) - 1 = n
    OBVIOUS
  <2> QED BY <1>5, <2>1
<1>9. \A n \in Nat : below[n] \subseteq Documents
  <2> DEFINE A == {n \in Nat : below[n] \subseteq Documents}
  <2>1. 0 \in A
    BY <1>7
  <2>2. ASSUME NEW n \in A \cap Nat PROVE n + 1 \in A
    <3>1. KidsOf(below[n]) = g[below[n]] /\ below[n] \in SUBSET Documents
      OBVIOUS
    <3>2. g[below[n]] \in SUBSET Documents
      <4> HIDE DEF g
      <4> QED BY <1>2, <3>1
    <3> QED BY <1>8, <3>1, <3>2
  <2>3. Nat \subseteq A
    <3> HIDE DEF A
    <3> QED BY <2>1, <2>2, SetInduction
  <2> QED BY <2>3
<1> QED BY <1>6, <1>7, <1>8, <1>9

\* What is below a document is below one of its kids.
LEMMA DeeperByOne ==
    ASSUME NEW value \in Documents, NEW d \in Nat, DeeperThan(value, d + 1)
    PROVE  \E i \in 1..Len(value.kids) : DeeperThan(value.kids[i], d)
<1> DEFINE kids == Range(value.kids)
<1>1. /\ DOMAIN value.kids = 1..Len(value.kids)
      /\ kids \subseteq Documents
  BY SessionConstants DEF IsList
<1>2. \A k \in kids : \E i \in 1..Len(value.kids) : k = value.kids[i]
  BY <1>1 DEF Range
<1> HIDE DEF kids
<1> DEFINE A == {n \in Nat : \A w \in Level(value, n + 1) : \E k \in kids : w \in Level(k, n)}
<1>3. 0 \in A
  <2>1. Level(value, 0 + 1) = kids
    <3>1. Level(value, 0 + 1) = KidsOf(Level(value, 0)) /\ Level(value, 0) = {value}
      BY Levels
    <3> QED BY <3>1 DEF KidsOf, kids
  <2>2. \A k \in kids : Level(k, 0) = {k}
    BY <1>1, Levels
  <2> QED BY <2>1, <2>2
<1>4. ASSUME NEW n \in A \cap Nat PROVE n + 1 \in A
  <2> SUFFICES ASSUME NEW w \in Level(value, (n + 1) + 1)
               PROVE  \E k \in kids : w \in Level(k, n + 1)
    OBVIOUS
  <2>1. PICK v \in Level(value, n + 1) : w \in Range(v.kids)
    <3>1. Level(value, (n + 1) + 1) = KidsOf(Level(value, n + 1))
      BY Levels
    <3> QED BY <3>1 DEF KidsOf
  <2>2. PICK k \in kids : v \in Level(k, n)
    OBVIOUS
  <2>3. Level(k, n + 1) = KidsOf(Level(k, n))
    BY <1>1, Levels
  <2> QED BY <2>1, <2>2, <2>3 DEF KidsOf
<1>5. d \in A
  <2> HIDE DEF A
  <2> QED BY <1>3, <1>4, SetInduction
<1>6. \A v : DeeperThan(v, d) <=> Level(v, d) # {}
  BY DEF DeeperThan, Level
<1>7. Level(value, d + 1) # {}
  BY DEF DeeperThan, Level
<1>8. PICK k \in kids : Level(k, d) # {}
  BY <1>5, <1>7
<1> QED BY <1>2, <1>6, <1>8

\* Some of what lies d levels below the document has been seen, or has yet to be.
InReach(s, d) ==
    \/ s.max >= d + 1
    \/ \E i \in 1..Len(s.stack) :
          /\ s.stack[i].depth <= d + 1
          /\ DeeperThan(s.stack[i].node, d + 1 - s.stack[i].depth)

LEMMA StaysInReach ==
    ASSUME NEW s \in Loop, NEW d \in Nat, InReach(s, d)
    PROVE  InReach(LoopTurn(s), d)
<1>1. CASE s.stack = <<>>
  BY <1>1 DEF LoopTurn
<1>2. CASE s.stack # <<>>
  <2>1. PICK next : next = LoopTurn(s)
    OBVIOUS
  <2>2. PICK top, kids : top = s.stack[1] /\ kids = top.node.kids
    OBVIOUS
  <2>3. /\ top.node \in Documents /\ top.depth \in Nat /\ Len(kids) \in Nat
        /\ next \in Loop /\ next.max >= s.max /\ next.max >= top.depth
        /\ Len(next.stack) = Len(kids) + Len(s.stack) - 1
        /\ \A i \in 1..Len(kids) :
              next.stack[i] = [node |-> kids[i], depth |-> top.depth + 1]
        /\ \A i \in 2..Len(s.stack) : next.stack[Len(kids) + i - 1] = s.stack[i]
    BY <1>2, <2>1, <2>2, LoopTurns DEF LoopTurn
  <2>4. s.max \in Nat /\ next.max \in Nat /\ Len(s.stack) \in Nat \ {0}
    BY <1>2, <2>3 DEF Loop
  <2>5. CASE s.max >= d + 1
    <3>1. next.max >= d + 1
      BY <2>3, <2>4, <2>5
    <3> QED BY <2>1, <3>1 DEF InReach
  <2>6. ASSUME NEW i \in 1..Len(s.stack), s.stack[i].depth <= d + 1,
               DeeperThan(s.stack[i].node, d + 1 - s.stack[i].depth)
        PROVE  InReach(next, d)
    <3>1. CASE i # 1
      <4>1. i \in 2..Len(s.stack) /\ Len(kids) + i - 1 \in 1..Len(next.stack)
        BY <2>3, <2>4, <3>1
      <4>2. next.stack[Len(kids) + i - 1] = s.stack[i]
        BY <2>3, <4>1
      <4> QED BY <2>6, <4>1, <4>2 DEF InReach
    <3>2. CASE i = 1 /\ top.depth = d + 1
      <4>1. next.max >= d + 1
        BY <2>3, <3>2
      <4> QED BY <4>1 DEF InReach
    <3>3. CASE i = 1 /\ top.depth # d + 1
      <4>1. PICK e \in Nat : e = d - top.depth
        BY <2>2, <2>3, <2>6, <3>3
      <4>2. d + 1 - top.depth = e + 1 /\ d + 1 - (top.depth + 1) = e /\ top.depth + 1 <= d + 1
        BY <2>3, <4>1
      <4>3. DeeperThan(top.node, e + 1)
        BY <2>2, <2>6, <3>3, <4>2
      <4>4. PICK k \in 1..Len(kids) : DeeperThan(kids[k], e)
        BY <2>2, <2>3, <4>3, DeeperByOne
      <4>5. k \in 1..Len(next.stack)
        BY <2>3, <2>4
      <4>6. next.stack[k].node = kids[k] /\ next.stack[k].depth = top.depth + 1
        <5>1. next.stack[k] = [node |-> kids[k], depth |-> top.depth + 1]
          BY <2>3
        <5> QED BY <5>1
      <4> QED BY <4>2, <4>4, <4>5, <4>6 DEF InReach
    <3> QED BY <3>1, <3>2, <3>3
  <2>7. InReach(next, d)
    BY <2>1, <2>5, <2>6 DEF InReach
  <2> QED BY <2>1, <2>7
<1> QED BY <1>1, <1>2

\* The loop measures every level there is.
LEMMA DepthIsMeasured ==
    ASSUME NEW value \in Documents, NEW d \in Nat, DeeperThan(value, d)
    PROVE  json_depth(value) > d
<1>1. PICK run \in [Nat -> Loop] :
          /\ run[0] = LoopStart(value)
          /\ \A n \in Nat : run[n + 1] = LoopTurn(run[n])
          /\ Measured(value) = run[MaxNodes]
  BY LoopRuns
<1> DEFINE A == {n \in Nat : InReach(run[n], d)}
<1>2. 0 \in A
  <2>1. PICK s : s = run[0]
    OBVIOUS
  <2>2. Len(s.stack) = 1 /\ s.stack[1].depth = 1 /\ s.stack[1].node = value
    BY <1>1, <2>1 DEF LoopStart
  <2>3. d + 1 - 1 = d /\ 1 <= d + 1 /\ 1 \in 1..Len(s.stack)
    BY <2>2
  <2>4. InReach(s, d)
    BY <2>2, <2>3 DEF InReach
  <2> QED BY <2>1, <2>4
<1>3. \A n \in A \cap Nat : n + 1 \in A
  BY <1>1, StaysInReach
<1>4. MaxNodes \in A
  <2> HIDE DEF A
  <2> QED BY <1>2, <1>3, SetInduction, ProtocolConstants
<1>5. PICK s : s = run[MaxNodes] /\ s \in Loop /\ InReach(s, d)
  BY <1>1, <1>4, ProtocolConstants
<1>6. s.stack = <<>> /\ s.max \in Nat
  BY <1>1, <1>5, SessionConstants DEF Measurable, Loop
<1>7. s.max >= d + 1
  BY <1>5, <1>6 DEF InReach
<1>8. json_depth(value) = s.max
  BY <1>1, <1>5 DEF json_depth
<1> QED BY <1>6, <1>7, <1>8

----------------------------------------------------------------------------
(* The size of a list of items: what validate_items adds up, and the sum   *)
(* of the sizes.                                                           *)

ItemSizes(items) == [i \in 1..Len(items) |-> ItemBytes(items[i])]

LEMMA ListSums ==
    ASSUME NEW m, NEW n \in Nat, \A i \in 1..n : m[i] \in Nat
    PROVE  \E k \in Nat : SumsTo(m, 1..n, k)
<1> DEFINE A == {i \in Nat : i <= n => \E k \in Nat : SumsTo(m, 1..i, k)}
<1>1. 0 \in A
  <2>1. SumsTo(m, {}, 0) /\ 1..0 = {}
    BY SumOfNothing
  <2> QED BY <2>1
<1>2. ASSUME NEW i \in A \cap Nat PROVE i + 1 \in A
  <2> SUFFICES ASSUME i + 1 <= n PROVE \E k \in Nat : SumsTo(m, 1..(i + 1), k)
    OBVIOUS
  <2>1. PICK k \in Nat : SumsTo(m, 1..i, k)
    OBVIOUS
  <2>2. /\ i + 1 \notin 1..i /\ (1..i) \cup {i + 1} = 1..(i + 1)
        /\ m[i + 1] \in Nat /\ m[i + 1] + k \in Nat
    OBVIOUS
  <2>3. SumsTo(m, (1..i) \cup {i + 1}, m[i + 1] + k)
    BY <2>1, <2>2, SumGrows
  <2> QED BY <2>2, <2>3
<1>3. n \in A
  <2> HIDE DEF A
  <2> QED BY <1>1, <1>2, SetInduction
<1> QED BY <1>3

LEMMA SumOfList ==
    ASSUME NEW items, IsList(items), \A i \in DOMAIN items : ItemBytes(items[i]) \in Nat,
           NEW total \in Nat, SumsTo(ItemSizes(items), 1..Len(items), total)
    PROVE  /\ SumOver(ItemBytes, items) = total
           /\ MapThenSumSet(LAMBDA i : ItemBytes(items[i]), DOMAIN items) = total
<1>0. PICK m, n, A : m = ItemSizes(items) /\ n = Len(items) /\ A = 1..n
  OBVIOUS
<1>1. PICK f : Counts(f, m, A) /\ f[A] = total
  BY <1>0 DEF SumsTo
<1>2. /\ n \in Nat /\ DOMAIN items = A /\ IsFiniteSet(A)
      /\ \A i \in A : m[i] = ItemBytes(items[i]) /\ m[i] \in Nat
  <2>1. n \in Nat /\ DOMAIN items = A
    BY <1>0 DEF IsList
  <2>2. IsFiniteSet(A)
    BY <1>0, <2>1, FS_Interval
  <2>3. \A i \in A : m[i] = ItemBytes(items[i]) /\ ItemBytes(items[i]) \in Nat
    BY <1>0, <2>1 DEF ItemSizes
  <2> QED BY <2>1, <2>2, <2>3
<1>3. \A s \in SUBSET A : f[s] \in Nat
  BY <1>1 DEF Counts
<1>4. SumOver(ItemBytes, items) = total
  <2> DEFINE Highest(s) == Max(s)
             Equation(g) == g = [s \in SUBSET A |-> IF s = {} THEN 0
                                   ELSE g[s \ {Highest(s)}] + ItemBytes(items[Highest(s)])]
             whole == CHOOSE g : Equation(g)
  <2>1. \A s \in SUBSET A : s # {} => Highest(s) \in s
    <3> SUFFICES ASSUME NEW s \in SUBSET A, s # {} PROVE Max(s) \in s
      OBVIOUS
    <3> QED BY <1>0, <1>2, GreatestIsMember
  <2>2. Equation(f)
    <3>1. \A s \in SUBSET A : f[s] = IF s = {} THEN 0
                                     ELSE f[s \ {Highest(s)}] + ItemBytes(items[Highest(s)])
      <4> HIDE DEF Highest
      <4> SUFFICES ASSUME NEW s \in SUBSET A, s # {}
                   PROVE  f[s] = f[s \ {Highest(s)}] + ItemBytes(items[Highest(s)])
        BY <1>1 DEF Counts
      <4>1. f[s] = m[Highest(s)] + f[s \ {Highest(s)}]
        BY <1>1, <2>1 DEF Counts
      <4>2. m[Highest(s)] = ItemBytes(items[Highest(s)]) /\ m[Highest(s)] \in Nat
        BY <1>2, <2>1
      <4>3. f[s \ {Highest(s)}] \in Nat
        BY <1>3
      <4> QED BY <4>1, <4>2, <4>3
    <3>2. f = [s \in SUBSET A |-> f[s]]
      BY <1>1 DEF Counts
    <3> HIDE DEF Highest
    <3> QED BY <3>1, <3>2
  <2>3. Equation(whole)
    BY <2>2
  <2>4. SumOver(ItemBytes, items) = whole[A]
    BY <1>2 DEF SumOver, FoldLeft, MapThenFoldSet
  <2> HIDE DEF whole
  <2>5. AddsUp(whole, m, A)
    <3>1. whole[{}] = 0
      BY <2>3
    <3>2. \A s \in SUBSET A : s # {} =>
             \E x \in s : whole[s] = whole[s \ {x}] + m[x]
      <4>1. \A s \in SUBSET A : s # {} =>
               whole[s] = whole[s \ {Highest(s)}] + ItemBytes(items[Highest(s)])
        BY <2>3
      <4> HIDE DEF Highest
      <4> QED BY <1>2, <2>1, <4>1
    <3> QED BY <3>1, <3>2 DEF AddsUp
  <2> QED BY <1>0, <1>1, <1>2, <2>4, <2>5, SumIsUnique DEF SumsTo
<1>5. MapThenSumSet(LAMBDA i : ItemBytes(items[i]), DOMAIN items) = total
  <2> DEFINE First(s) == CHOOSE x \in s : TRUE
             Equation(g) == g = [s \in SUBSET A |-> IF s = {} THEN 0
                                   ELSE ItemBytes(items[First(s)]) + g[s \ {First(s)}]]
             whole == CHOOSE g : Equation(g)
  <2>1. \A s \in SUBSET A : s # {} => First(s) \in s
    OBVIOUS
  <2>2. Equation(f)
    <3>1. \A s \in SUBSET A : f[s] = IF s = {} THEN 0
                                     ELSE ItemBytes(items[First(s)]) + f[s \ {First(s)}]
      <4> HIDE DEF First
      <4> SUFFICES ASSUME NEW s \in SUBSET A, s # {}
                   PROVE  f[s] = ItemBytes(items[First(s)]) + f[s \ {First(s)}]
        BY <1>1 DEF Counts
      <4>1. f[s] = m[First(s)] + f[s \ {First(s)}]
        BY <1>1, <2>1 DEF Counts
      <4>2. m[First(s)] = ItemBytes(items[First(s)])
        BY <1>2, <2>1
      <4> QED BY <4>1, <4>2
    <3>2. f = [s \in SUBSET A |-> f[s]]
      BY <1>1 DEF Counts
    <3> HIDE DEF First
    <3> QED BY <3>1, <3>2
  <2>3. Equation(whole)
    BY <2>2
  <2>4. MapThenSumSet(LAMBDA i : ItemBytes(items[i]), DOMAIN items) = whole[A]
    BY <1>2 DEF MapThenSumSet, MapThenFoldSet
  <2> HIDE DEF whole
  <2>5. AddsUp(whole, m, A)
    <3>1. whole[{}] = 0
      BY <2>3
    <3>2. \A s \in SUBSET A : s # {} =>
             \E x \in s : whole[s] = m[x] + whole[s \ {x}]
      <4>1. \A s \in SUBSET A : s # {} =>
               whole[s] = ItemBytes(items[First(s)]) + whole[s \ {First(s)}]
        BY <2>3
      <4> HIDE DEF First
      <4> QED BY <1>2, <2>1, <4>1
    <3> QED BY <3>1, <3>2 DEF AddsUp
  <2> QED BY <1>0, <1>1, <1>2, <2>4, <2>5, SumIsUnique DEF SumsTo
<1> QED BY <1>4, <1>5

\* What the ingress accepts is within the bounds.
LEMMA AcceptedIsBounded ==
    ASSUME NEW spec, SpecWritten(spec), Refusal(Echo(ResponseObject(spec))) = None
    PROVE  /\ \A i \in DOMAIN spec.tools : ~DeeperThan(spec.tools[i], Limits.depth)
           /\ Len(spec.items) \in 1..Limits.items
           /\ \A i \in DOMAIN spec.items : ItemBytes(spec.items[i]) <= Limits.itemBytes
           /\ MapThenSumSet(LAMBDA i : ItemBytes(spec.items[i]), DOMAIN spec.items)
                 <= Limits.totalBytes
<1> DEFINE echo == Echo(ResponseObject(spec))
<1>1. PICK tools, items : tools = spec.tools /\ items = spec.items
  OBVIOUS
<1>2. echo.items = items /\ echo.text = None /\ echo.tools = tools
  BY <1>1 DEF Echo, ResponseObject, PlainRequest
<1>3. Unbroken(echo)
  BY NotRefused
<1> HIDE DEF echo
<1>4. /\ ToItems(echo) = items
      /\ \A i \in DOMAIN tools : ~(json_depth(tools[i]) > Limits.depth)
      /\ ItemsViolation(items) = None
  BY <1>2, <1>3 DEF Unbroken, FieldsUnbroken, ToItems
<1>5. /\ \A i \in DOMAIN tools : tools[i] \in Documents
      /\ IsList(items) /\ \A i \in DOMAIN items : ItemBytes(items[i]) \in Nat
  BY <1>1 DEF SpecWritten, Written
<1>6. Limits.depth \in Nat /\ Limits.items \in Nat /\ Limits.totalBytes \in Nat
      /\ Limits.itemBytes \in Nat
  BY ProtocolConstants DEF LimitNames
<1>7. /\ items # <<>> /\ ~(Len(items) > Limits.items)
      /\ ~(SumOver(ItemBytes, items) > Limits.totalBytes)
      /\ \A i \in DOMAIN items : ~(ItemBytes(items[i]) > Limits.itemBytes)
  <2>1. None \notin ItemsViolations
    BY ProtocolConstants
  <2> QED BY <1>4, <2>1 DEF ItemsViolation, ItemsViolations
<1>8. \A i \in DOMAIN tools : ~DeeperThan(tools[i], Limits.depth)
  BY <1>4, <1>5, <1>6, DepthIsMeasured
<1>9. Len(items) \in 1..Limits.items
  <2>1. Len(items) \in Nat /\ DOMAIN items = 1..Len(items)
    BY <1>5 DEF IsList
  <2>2. Len(items) # 0
    <3> SUFFICES ASSUME Len(items) = 0 PROVE items = <<>>
      BY <1>7
    <3>1. DOMAIN items = {}
      BY <2>1
    <3> QED BY <3>1
  <2> QED BY <1>6, <1>7, <2>1, <2>2
<1>10. PICK total \in Nat : SumsTo(ItemSizes(items), 1..Len(items), total)
  <2>1. Len(items) \in Nat /\ \A i \in 1..Len(items) : ItemSizes(items)[i] \in Nat
    BY <1>5 DEF IsList, ItemSizes
  <2> QED BY <2>1, ListSums
<1>11. /\ SumOver(ItemBytes, items) = total
       /\ MapThenSumSet(LAMBDA i : ItemBytes(items[i]), DOMAIN items) = total
  BY <1>5, <1>10, SumOfList
<1>12. total <= Limits.totalBytes
  BY <1>6, <1>7, <1>11
<1>13. \A i \in DOMAIN items : ItemBytes(items[i]) <= Limits.itemBytes
  BY <1>5, <1>6, <1>7
<1> QED BY <1>1, <1>8, <1>9, <1>11, <1>12, <1>13

\* FR-27: what was accepted is within its four bounds - items, length of each,
\* total, depth of documents.  The rules were tried on the
\* request; its turn, however it was answered and run since, still holds what
\* passed them.
THEOREM AcceptedStaysInBounds == Spec => []AcceptedFitsTheLimits
<1>1. SessionInvariant /\ ListsAreSound => AcceptedFitsTheLimits
  <2> SUFFICES ASSUME SessionInvariant, ListsAreSound, NEW r \in ResponseIds, Known(r)
               PROVE  LET spec == records[r].spec
                      IN  /\ \A i \in DOMAIN spec.tools :
                                ~DeeperThan(spec.tools[i], Limits.depth)
                          /\ Len(spec.items) \in 1..Limits.items
                          /\ \A i \in DOMAIN spec.items :
                                ItemBytes(spec.items[i]) <= Limits.itemBytes
                          /\ MapThenSumSet(LAMBDA i : ItemBytes(spec.items[i]),
                                           DOMAIN spec.items) <= Limits.totalBytes
    BY DEF AcceptedFitsTheLimits
  <2>1. PICK spec : spec = records[r].spec
    OBVIOUS
  <2>2. SpecWritten(spec) /\ Refusal(Echo(ResponseObject(spec))) = None
    BY <2>1 DEF SessionInvariant, ObjectsAreSound, ListsAreSound, RecordLists
  <2> QED BY <2>1, <2>2, AcceptedIsBounded
<1> QED BY <1>1, SessionStaysSound, ListsStaySound, PTL
=============================================================================

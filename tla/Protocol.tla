------------------------------ MODULE Protocol ------------------------------
(***************************************************************************)
(* The wire protocol of POST /v1/responses (crates/responses/src/protocol):*)
(* what parses, what validates, what a stored response is rendered to, and *)
(* the bounds of the context a turn inherits.                              *)
(*                                                                         *)
(* Text is its length in bytes.  A JSON document is the tree of its nested *)
(* values.  A part of a request that does not deserialise is written with  *)
(* a type outside the closed set the code accepts.                         *)
(***************************************************************************)
EXTENDS Naturals, Sequences, SequencesExt, FiniteSetsExt

CONSTANTS
    None,           \* the absent value of an Option
    Limits,         \* ProtocolLimits
    Chain,          \* ChainLimits
    ResponseIds,    \* the response ids there are
    ConversationIds,\* the conversation ids there are
    MaxNodes        \* bound on the values in a document that is measured

LimitNames == {"items", "itemBytes", "totalBytes", "depth", "instructions", "entries",
               "keyBytes", "valueBytes", "urlBytes"}

\* What a request can be refused with: the rules of validate, and the codes.
RuleNames == {"EmptyModel", "StreamAndBackground", "InstructionsTooLong", "EmptyPreviousId",
              "EmptyConversationId", "PreviousIdAndConversation", "ZeroMaxOutputTokens",
              "TemperatureOutOfRange", "TopPOutOfRange", "Metadata", "ToolParameters",
              "Limits", "Item"}
ItemsViolations == {"Empty", "TooManyItems", "ItemTooLarge", "TotalTooLarge"}
ErrorCodes == {"unsupported_parameter", "invalid_request", "chain_broken",
               "previous_not_stored", "chain_too_long", "chain_too_large"}

Unsupported == {"context_management", "prompt"}
Modes == {"auto", "none", "required"}
Blank == ""

ASSUME ProtocolConstants ==
    /\ Limits \in [LimitNames -> Nat]
    /\ Chain \in [{"depth", "items", "bytes"} -> Nat]
    /\ Limits.items > 0 /\ Chain.depth > 0 /\ Chain.items > 0
    /\ None \notin ResponseIds /\ None \notin ConversationIds
    /\ None \notin RuleNames \cup ErrorCodes \cup ItemsViolations \cup Unsupported \cup Modes
                   \cup {Blank}
    /\ None \notin Nat
    /\ MaxNodes \in Nat

----------------------------------------------------------------------------
(* JSON documents.                                                         *)

Scalar == [kids |-> <<>>]
Nested(kids) == [kids |-> kids]

\* Mutant: the elements of a container count as deep as the container.
VisitTopLevel(s) ==
    [max   |-> Max({s.max, s.stack[1].depth}),
     stack |-> [i \in 1..Len(s.stack[1].node.kids) |->
                   [node |-> s.stack[1].node.kids[i], depth |-> s.stack[1].depth]]
               \o Tail(s.stack)]

\* One turn of the loop: the node on top of the stack is replaced by its kids.
Visit(s) ==
    [max   |-> Max({s.max, s.stack[1].depth}),
     stack |-> [i \in 1..Len(s.stack[1].node.kids) |->
                   [node |-> s.stack[1].node.kids[i], depth |-> s.stack[1].depth + 1]]
               \o Tail(s.stack)]

\* Where the loop stands after as many turns as a document is measured in.
Measured(value) ==
    LET after[n \in Nat] ==
            IF n = 0 THEN [max |-> 0, stack |-> <<[node |-> value, depth |-> 1]>>]
            ELSE IF after[n - 1].stack = <<>> THEN after[n - 1] ELSE Visit(after[n - 1])
    IN  after[MaxNodes]

json_depth(value) == Measured(value).max

----------------------------------------------------------------------------
(* Content parts and items: closed sets.                                   *)

TextParts == {"input_text", "output_text", "refusal"}
ReferenceParts == {"input_image", "input_file"}

Text(kind, bytes) ==
    [type |-> kind, text |-> bytes, url |-> None, file |-> None, name |-> None]
Reference(kind, url, file, name) ==
    [type |-> kind, text |-> 0, url |-> url, file |-> file, name |-> name]

OptLen(bytes) == IF bytes = None THEN 0 ELSE bytes
PartBytes(part) ==
    IF part.type \in TextParts THEN part.text
    ELSE (IF part.url = None THEN 0 ELSE part.url.bytes)
         + OptLen(part.file) + OptLen(part.name)

\* A url is its length and what the first check it fails says of it.
ensure_public_https(url) == url.bytes <= Limits.urlBytes /\ url.form = "public"

PartValid(part) ==
    \/ part.type \in TextParts
    \/ IF part.url = None THEN part.file # None ELSE ensure_public_https(part.url)

ItemTypes == {"message", "function_call", "function_call_output"}

Message(role, parts, status) ==
    [type |-> "message", role |-> role, content |-> parts, call |-> 0, name |-> 0,
     body |-> 0, status |-> status]
FunctionCall(call, name, arguments) ==
    [type |-> "function_call", role |-> None, content |-> <<>>, call |-> call,
     name |-> name, body |-> arguments, status |-> "completed"]
FunctionCallOutput(call, output) ==
    [type |-> "function_call_output", role |-> None, content |-> <<>>, call |-> call,
     name |-> 0, body |-> output, status |-> None]

user_text(bytes) == Message("user", <<Text("input_text", bytes)>>, None)

SumOver(Measure(_), seq) == FoldLeft(LAMBDA total, x : total + Measure(x), 0, seq)

ItemBytes(item) ==
    IF item.type = "message" THEN SumOver(PartBytes, item.content)
    ELSE item.call + item.name + item.body

\* Mutant: text the service wrote is not taken back.
ItemValidInputOnly(item) ==
    IF item.type = "message"
    THEN /\ item.content # <<>>
         /\ \A i \in DOMAIN item.content :
               item.content[i].type # "output_text" /\ PartValid(item.content[i])
    ELSE item.call > 0 /\ (item.type = "function_call" => item.name > 0)

ItemValid(item) ==
    IF item.type = "message"
    THEN item.content # <<>> /\ \A i \in DOMAIN item.content : PartValid(item.content[i])
    ELSE item.call > 0 /\ (item.type = "function_call" => item.name > 0)

ItemParses(item) ==
    /\ item.type \in ItemTypes
    /\ \A i \in DOMAIN item.content : item.content[i].type \in TextParts \cup ReferenceParts

\* The first bound a list of items breaks.
ItemsViolation(items) ==
    CASE items = <<>> -> "Empty"
      [] Len(items) > Limits.items -> "TooManyItems"
      [] \E i \in DOMAIN items : ItemBytes(items[i]) > Limits.itemBytes -> "ItemTooLarge"
      [] SumOver(ItemBytes, items) > Limits.totalBytes -> "TotalTooLarge"
      [] OTHER -> None

----------------------------------------------------------------------------
(* Tools, metadata and references.                                         *)

\* Written as a mode string or as a tagged object, and read back.
Mode(mode) == [form |-> "string", type |-> mode, name |-> None]
Named(name) == [form |-> "object", type |-> "function", name |-> name]

ToolChoiceParses(wire) ==
    \/ wire.form = "string" /\ wire.type \in Modes
    \/ wire.form = "object" /\ wire.type = "function" /\ wire.name # None

ReadToolChoice(wire) ==
    IF wire.form = "string" THEN [mode |-> wire.type, function |-> None]
    ELSE [mode |-> None, function |-> wire.name]

\* Mutant: the derived serialiser, which drops the tag.
UntaggedToolChoice(choice) ==
    IF choice.mode # None THEN Mode(choice.mode)
    ELSE [form |-> "object", type |-> None, name |-> choice.function]

WriteToolChoice(choice) ==
    IF choice.mode # None THEN Mode(choice.mode) ELSE Named(choice.function)

\* A metadata value: a string of some length, a number of so many digits, a
\* boolean.
MetadataTypes == {"string", "number", "true", "false"}
MetadataBytes(value) ==
    CASE value.type = "true" -> 4
      [] value.type = "false" -> 5
      [] OTHER -> value.bytes

MetadataViolation(metadata) ==
    CASE Len(metadata) > Limits.entries -> "TooManyMetadataEntries"
      [] \E i \in DOMAIN metadata : metadata[i].key > Limits.keyBytes ->
            "MetadataKeyTooLong"
      [] \E i \in DOMAIN metadata :
            MetadataBytes(metadata[i].value) > Limits.valueBytes -> "MetadataValueTooLong"
      [] OTHER -> None

\* `conversation` is a bare id or an object with an id; both say the same.
ConversationRef(form, id) == [form |-> form, id |-> id]
RefParses(ref) == ref.form = "object" => ref.id # None

Present(value, Broken(_)) == value # None /\ Broken(value)

----------------------------------------------------------------------------
(* A request as it is written.  input is the length of a text, or items.   *)

PlainRequest ==
    [field |-> None, model |-> "m", text |-> 1, items |-> <<>>, instructions |-> None,
     store |-> TRUE, stream |-> FALSE, background |-> FALSE, previous |-> None,
     conversation |-> None, maxOutput |-> None, metadata |-> None, tools |-> <<>>,
     toolChoice |-> None, temperature |-> None, topP |-> None]

preflight_unsupported(wire) == wire.field \in Unsupported

\* deny_unknown_fields, the closed unions and the hand-written visitors.
Parses(wire) ==
    /\ wire.field = None
    /\ \A i \in DOMAIN wire.items : ItemParses(wire.items[i])
    /\ wire.toolChoice # None => ToolChoiceParses(wire.toolChoice)
    /\ wire.conversation # None => RefParses(wire.conversation)
    /\ wire.metadata # None =>
          \A i \in DOMAIN wire.metadata : wire.metadata[i].value.type \in MetadataTypes

ToItems(wire) == IF wire.text # None THEN <<user_text(wire.text)>> ELSE wire.items

Rule(name, broken) == [name |-> name, broken |-> broken]

\* The rules of validate, in the order they are tried.
Rules(wire) ==
    <<Rule("EmptyModel", wire.model = Blank),
      Rule("StreamAndBackground", wire.stream /\ wire.background),
      Rule("InstructionsTooLong",
           Present(wire.instructions, LAMBDA n : n > Limits.instructions)),
      Rule("EmptyPreviousId", wire.previous = Blank),
      Rule("EmptyConversationId", Present(wire.conversation, LAMBDA c : c.id = Blank)),
      Rule("PreviousIdAndConversation", wire.conversation # None /\ wire.previous # None),
      Rule("ZeroMaxOutputTokens", wire.maxOutput = 0),
      Rule("TemperatureOutOfRange", Present(wire.temperature, LAMBDA t : t \notin 0..2)),
      Rule("TopPOutOfRange", Present(wire.topP, LAMBDA p : p \notin 0..1)),
      Rule("Metadata", Present(wire.metadata, LAMBDA m : MetadataViolation(m) # None)),
      Rule("ToolParameters",
           \E i \in DOMAIN wire.tools : json_depth(wire.tools[i]) > Limits.depth),
      Rule("Limits", ItemsViolation(ToItems(wire)) # None),
      Rule("Item", \E i \in DOMAIN ToItems(wire) : ~ItemValid(ToItems(wire)[i]))>>

\* The first rule broken, or None.
Violation(wire) ==
    LET first == SelectInSeq(Rules(wire), LAMBDA rule : rule.broken)
    IN  IF first = 0 THEN None ELSE Rules(wire)[first].name

\* Where the context comes from; an id that is no id is refused.
Root == [kind |-> "root", id |-> None]
Anchor(wire) ==
    IF wire.conversation # None THEN [kind |-> "conversation", id |-> wire.conversation.id]
    ELSE IF wire.previous # None THEN [kind |-> "previous", id |-> wire.previous] ELSE Root
AnchorParses(anchor) ==
    CASE anchor.kind = "conversation" -> anchor.id \in ConversationIds
      [] anchor.kind = "previous" -> anchor.id \in ResponseIds
      [] OTHER -> TRUE

\* The answer of the ingress to a body, None when it goes on to the service.
Refusal(wire) ==
    CASE preflight_unsupported(wire) -> "unsupported_parameter"
      [] ~Parses(wire) -> "invalid_request"
      [] Violation(wire) # None -> "invalid_request"
      [] ~AnchorParses(Anchor(wire)) ->
            IF Anchor(wire).kind = "previous" THEN "chain_broken" ELSE "invalid_request"
      [] OTHER -> None

TurnSpec(wire) ==
    [model |-> wire.model, instructions |-> wire.instructions, tools |-> wire.tools,
     toolChoice |-> IF wire.toolChoice = None THEN None ELSE ReadToolChoice(wire.toolChoice),
     metadata |-> IF wire.metadata = None THEN <<>> ELSE wire.metadata,
     items |-> ToItems(wire), store |-> wire.store, anchor |-> Anchor(wire)]

----------------------------------------------------------------------------
(* The response object, and what a client reads back from it; its output   *)
(* is OutputStream's.                                                      *)

ResponseObject(spec) ==
    [model |-> spec.model, instructions |-> spec.instructions, store |-> spec.store,
     previous |-> IF spec.anchor.kind = "previous" THEN spec.anchor.id ELSE None,
     conversation |-> IF spec.anchor.kind = "conversation"
                      THEN ConversationRef("object", spec.anchor.id) ELSE None,
     input |-> spec.items, tools |-> spec.tools,
     toolChoice |-> IF spec.toolChoice = None THEN None ELSE WriteToolChoice(spec.toolChoice),
     metadata |-> spec.metadata]

\* The fields of an object that are fields of a request, sent again.
Echo(object) ==
    [PlainRequest EXCEPT
        !.model = object.model, !.instructions = object.instructions,
        !.store = object.store, !.previous = object.previous,
        !.conversation = object.conversation, !.text = None, !.items = object.input,
        !.tools = object.tools, !.toolChoice = object.toolChoice,
        !.metadata = IF object.metadata = <<>> THEN None ELSE object.metadata]

----------------------------------------------------------------------------
(* The context a turn inherits.                                            *)

Entry(item, reasoning) == [item |-> item, reasoning |-> reasoning]
EmptyContext == [entries |-> <<>>, turns |-> 0]

ItemsOf(context) == [i \in 1..Len(context.entries) |-> context.entries[i].item]
ContextBytes(context) == SumOver(ItemBytes, ItemsOf(context))

\* Reasoning goes with the first output item of its turn.
WithTurn(context, input, output, reasoning) ==
    [entries |-> context.entries
                 \o [i \in 1..Len(input) |-> Entry(input[i], None)]
                 \o [i \in 1..Len(output) |->
                        Entry(output[i], IF i = 1 THEN reasoning ELSE None)],
     turns   |-> context.turns + 1]

FromItems(items, turns) ==
    [entries |-> [i \in 1..Len(items) |-> Entry(items[i], None)], turns |-> turns]

\* Mutant: the number of turns is not bounded.
ContextViolationNoDepth(context) ==
    CASE Len(context.entries) > Chain.items -> "chain_too_long"
      [] ContextBytes(context) > Chain.bytes -> "chain_too_large"
      [] OTHER -> None

ContextViolation(context) ==
    CASE context.turns >= Chain.depth -> "chain_too_long"
      [] Len(context.entries) > Chain.items -> "chain_too_long"
      [] ContextBytes(context) > Chain.bytes -> "chain_too_large"
      [] OTHER -> None

Thought == [kind |-> "reasoning", item |-> None]
Said(item) == [kind |-> "item", item |-> item]

\* Mutant: reasoning and items are paired off, so an entry without is dropped.
TranscriptPairs(context) ==
    FoldLeft(LAMBDA shown, entry :
                 shown \o (IF entry.reasoning = None THEN <<>>
                           ELSE <<Thought, Said(entry.item)>>),
             <<>>, context.entries)

\* GET .../transcript: the reasoning of an entry comes before its item.
Transcript(context) ==
    FoldLeft(LAMBDA shown, entry :
                 shown \o (IF entry.reasoning = None THEN <<>> ELSE <<Thought>>)
                       \o <<Said(entry.item)>>,
             <<>>, context.entries)
=============================================================================

----------------------------- MODULE MCSession -----------------------------
(* One client writes any of the requests below alone, or both talk in one  *)
(* conversation, or one continues the other's response.                    *)
EXTENDS Session

CONSTANTS r1, r2, r3, v1, c1, c2, k1

SmallLimits == [items |-> 3, itemBytes |-> 4, totalBytes |-> 6, depth |-> 2,
                instructions |-> 2, entries |-> 1, keyBytes |-> 2, valueBytes |-> 4,
                urlBytes |-> 3]
SmallChain == [depth |-> 2, items |-> 4, bytes |-> 8]

Plain(field, value) == [PlainRequest EXCEPT ![field] = value]
Varied(field, values) == {Plain(field, value) : value \in values}

Items(items) == [PlainRequest EXCEPT !.text = None, !.items = items]
User(part) == Message("user", <<part>>, None)
Url(bytes, form) == [bytes |-> bytes, form |-> form]
Meta(key, type, bytes) == [key |-> key, value |-> [type |-> type, bytes |-> bytes]]

ItemWires ==
    {Items(items) : items \in {
        <<>>,
        <<User(Text("input_text", 5))>>,
        <<user_text(4), user_text(4)>>,
        <<user_text(1), user_text(1), user_text(1), user_text(1)>>,
        <<Message("user", <<>>, None)>>,
        <<User(Text("input_audio", 1))>>,
        <<User(Reference("input_image", Url(3, "public"), None, None))>>,
        <<User(Reference("input_image", Url(4, "public"), None, None))>>,
        <<User(Reference("input_image", Url(3, "private"), None, None))>>,
        <<User(Reference("input_file", None, 2, 2))>>,
        <<User(Reference("input_file", None, 2, 3))>>,
        <<User(Reference("input_file", None, None, 1))>>,
        <<[user_text(1) EXCEPT !.type = "computer_call"]>>,
        <<FunctionCall(1, 1, 1), FunctionCallOutput(1, 2)>>,
        <<FunctionCall(1, 0, 1)>>,
        <<FunctionCallOutput(0, 1)>>}}

SomeDocuments == {Scalar, Nested(<<Scalar>>), Nested(<<Scalar, Nested(<<Scalar>>)>>)}

FieldWires ==
    {PlainRequest, [PlainRequest EXCEPT !.stream = TRUE, !.background = TRUE]}
    \cup Varied("field", {"prompt", "colour"})
    \cup Varied("model", {Blank})
    \cup Varied("instructions", {2, 3})
    \cup Varied("maxOutput", {0, 1})
    \cup Varied("temperature", {2, 3})
    \cup Varied("topP", {1, 2})
    \cup Varied("store", {FALSE})
    \cup Varied("metadata", {<<Meta(2, "string", 4)>>, <<Meta(3, "string", 1)>>,
                             <<Meta(1, "false", 0)>>, <<Meta(1, "true", 0)>>,
                             <<Meta(1, "array", 1)>>,
                             <<Meta(1, "number", 1), Meta(1, "number", 2)>>})
    \cup Varied("toolChoice", {Mode("auto"), Mode("any"), Named("f"), Named(None)})
    \cup Varied("tools", {<<value>> : value \in SomeDocuments})
    \cup Varied("previous", {Blank, "bogus", r1, r2})

ConversationWires ==
    Varied("conversation", {ConversationRef("string", v1), ConversationRef("object", v1),
                            ConversationRef("object", None), ConversationRef("string", Blank),
                            ConversationRef("string", "bogus")})
    \cup {[PlainRequest EXCEPT !.conversation = ConversationRef("string", v1),
                               !.previous = r1],
          [PlainRequest EXCEPT !.conversation = ConversationRef("string", v1),
                               !.store = FALSE]}

\* Written the way it is echoed.
Talk == [Items(<<user_text(1)>>) EXCEPT !.conversation = ConversationRef("object", v1)]
Send(wire, key) == [wire |-> wire, key |-> key]

SomeScripts ==
    {(c1 :> Send(wire, None)) @@ (c2 :> None) :
        wire \in ItemWires \cup FieldWires \cup ConversationWires}
    \cup {(c1 :> Send(Talk, k1)) @@ (c2 :> Send(Talk, None))}
    \cup {(c1 :> Send(PlainRequest, k1)) @@ (c2 :> Send(Plain("previous", r1), None))}

Said1 == Message("assistant", <<Text("output_text", 1)>>, "completed")
Cut == Message("assistant", <<Text("output_text", 1)>>, "incomplete")

SomeReplies == {
    [status |-> "completed", output |-> <<Said1>>, reasoning |-> "thought"],
    [status |-> "failed", output |-> <<FunctionCall(1, 1, 1), Cut>>, reasoning |-> None]}
=============================================================================

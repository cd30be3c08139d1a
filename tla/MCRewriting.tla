----------------------------- MODULE MCRewriting -----------------------------
(* A small instance of Rewriting for TLC. *)
EXTENDS Rewriting

Surfaces == {"SystemPrompt", "UserMessage", "AssistantText", "ToolUseInput", "ToolResult"}

Hit(source, start, end, entity, score) ==
    [source |-> source, start |-> start, end |-> end, entity |-> entity, score |-> score,
     context |-> FALSE, shape |-> "service", rule |-> "none", surfaces |-> Surfaces]

Rule(h, rule) == [h EXCEPT !.rule = rule]

\* key: a registered secret inside a wider rule's and a regex's match, and
\* one that is registered for system prompts.
\* call: a phone number with a word of context, one without.
\* mail: an address that two rules and a name overlap.
MCHits ==
    ("key"  :> <<Hit("secret", 3, 8, "SECRET", 100),
                 [Hit("secret", 12, 18, "SECRET", 100) EXCEPT !.surfaces = {"SystemPrompt"}], Rule(Hit("custom", 1, 9, "CASE", 100), "wide"),
                 Hit("regex", 1, 9, "API_KEY", 90),
                 [Hit("regex", 20, 30, "API_KEY", 55) EXCEPT !.shape = "hex"],
                 [Hit("regex", 32, 40, "API_KEY", 55) EXCEPT !.shape = "opaque"]>>) @@
    ("call" :> <<[Hit("regex", 1, 9, "PHONE_NUMBER", 40) EXCEPT !.context = TRUE],
                 Hit("regex", 12, 15, "PHONE_NUMBER", 40)>>) @@
    ("mail" :> <<Hit("regex", 1, 9, "EMAIL_ADDRESS", 85), Rule(Hit("custom", 6, 14, "CASE", 100), "late"),
                 Rule(Hit("custom", 4, 12, "CASE", 100), "wide")>>) @@
    (Opaque :> <<>>)

MCMlHits ==
    ("key"  :> <<>>) @@
    ("call" :> <<Hit("ml", 8, 12, "PERSON", 80)>>) @@
    ("mail" :> <<Hit("ml", 1, 3, "PERSON", 95)>>) @@
    (Opaque :> <<>>)

Custom_(name, priority, surfaces) ==
    [name |-> name, priority |-> priority, surfaces |-> surfaces, literal |-> TRUE]

Base ==
    [enabled |-> TRUE, disabled |-> {}, threshold |-> 50, categories |-> {"secrets", "contact"},
     operators |-> <<>>, operator |-> "token", allow |-> {},
     customs |-> <<Custom_("late", 2, {"UserMessage"}), Custom_("wide", 1, Surfaces)>>]

MCPolicies ==
    {Base,
     [Base EXCEPT !.operators = "PERSON" :> "token"],
     [Base EXCEPT !.allow = {<<1, 9>>}, !.threshold = 40, !.customs = <<>>],
     [Base EXCEPT !.disabled = {"ToolResult", "AssistantText"}, !.operator = "redact"],
     [Base EXCEPT !.enabled = FALSE]}

At(slot, role, keys) == [slot |-> slot, role |-> role, keys |-> keys]

Leaf(pos, text) == [pos |-> pos, text |-> text, marked |-> FALSE, echoed |-> {}]

MCTurns ==
    [messages |-> {Leaf(At("text", "user", <<>>), "mail"), Leaf(At("text", "user", <<>>), "key"),
                   Leaf(At("tool_result", "user", <<>>), "call"),
                   Leaf(At("tool.description", "none", <<>>), "key"),
                   Leaf(At("metadata", "none", <<"user_id">>), "key"),
                   Leaf(At("context_management", "none", <<"edits", "value">>), "call")},
     chat |-> {Leaf(At("text", "user", <<>>), "mail"), Leaf(At("tool_call_id", "tool", <<>>), "call"),
               Leaf(At("text", "system", <<>>), "call"), Leaf(At("extra", "none", <<"session">>), "key")},
     responses |-> {Leaf(At("instructions", "none", <<>>), "mail"), Leaf(At("output", "none", <<>>), "call"),
                    Leaf(At("text", "user", <<>>), "key")}]

MCReplyPlaces ==
    [messages |-> {At("text", "assistant", <<>>), At("thinking", "assistant", <<>>),
                   At("tool_use.input", "assistant", <<"q">>), At("tool_use.input", "assistant", <<"id">>),
                   At("compaction", "assistant", <<>>)},
     chat |-> {At("text", "assistant", <<>>), At("arguments", "assistant", <<>>),
               At("message.extra", "assistant", <<"reasoning">>)},
     responses |-> {At("text", "assistant", <<>>), At("refusal", "assistant", <<>>),
                    At("arguments", "assistant", <<>>), At("other", "assistant", <<"summary", "text">>)}]
=============================================================================

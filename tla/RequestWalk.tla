----------------------------- MODULE RequestWalk -----------------------------
(***************************************************************************)
(* Which strings of a body the proxy rewrites.  A string is found by the   *)
(* typed slot of the wire format it sits in, the role of its message, and  *)
(* the object keys that lead to it from the slot when the slot holds free  *)
(* JSON.  A walker decides from that alone, so it is a function from       *)
(* positions [slot, role, keys] to the surface the string is masked on, or *)
(* Untouched.  Arrays are transparent.  The walkers run twice, once to     *)
(* collect and once to mask: the same function serves both.                *)
(***************************************************************************)
EXTENDS Sequences, SequencesExt

Untouched == "untouched"

\* A key on the way to the string, whatever the depth.
Under(keys, names) == \E i \in DOMAIN keys : keys[i] \in names

-----------------------------------------------------------------------------
(* /v1/messages: walk.rs                                                   *)

preserves_contract_key ==
    {"model", "tool_choice", "thinking", "output_config", "format", "json_schema", "schema",
     "input_schema", "cache_control", "id", "tool_use_id", "signature", "data", "media_type", "type"}

is_context_management_protocol_key ==
    {"type", "keep", "trigger", "clear_at_least", "clear_tool_inputs", "exclude_tools"}

surface_for_role(role) == IF role = "assistant" THEN "AssistantText" ELSE "UserMessage"

context_management(keys) ==
    IF Under(keys, is_context_management_protocol_key) THEN Untouched ELSE "SystemPrompt"

\* MaskWalker::request, block, tool_result, image, document over a body
\* that fits ApiRequest.  thinking, base64 data, a tool's input_schema and
\* fields the wire types do not know stay as they are.
messages_typed(p) ==
    CASE p.slot \in {"system", "tool.description"} -> "SystemPrompt"
      [] p.slot = "text" -> surface_for_role(p.role)
      [] p.slot = "tool_use.input" -> "ToolUseInput"
      [] p.slot \in {"tool_result", "tool_result.url"} -> "ToolResult"
      [] p.slot = "url" -> "UserMessage"
      [] p.slot = "compaction" -> "AssistantText"
      [] p.slot = "metadata" -> IF p.keys # <<>> /\ Head(p.keys) = "user_id" THEN Untouched ELSE "UserMessage"
      [] p.slot = "context_management" -> context_management(p.keys)
      [] OTHER -> Untouched

\* The keys that lead to a slot from the root of the body.
JsonKeys(p) ==
    (CASE p.slot = "system"             -> <<"system">>
       [] p.slot = "text"               -> <<"messages", "content", "text">>
       [] p.slot = "thinking"           -> <<"messages", "content", "thinking">>
       [] p.slot = "tool_use.id"        -> <<"messages", "content", "id">>
       [] p.slot = "tool_use.input"     -> <<"messages", "content", "input">>
       [] p.slot = "tool_result"        -> <<"messages", "content", "content">>
       [] p.slot = "tool_result.url"    -> <<"messages", "content", "content", "source", "url">>
       [] p.slot = "tool_result.id"     -> <<"messages", "content", "tool_use_id">>
       [] p.slot = "url"                -> <<"messages", "content", "source", "url">>
       [] p.slot = "base64"             -> <<"messages", "content", "source", "data">>
       [] p.slot = "compaction"         -> <<"messages", "content", "content">>
       [] p.slot = "tool.description"   -> <<"tools", "description">>
       [] p.slot = "tool.schema"        -> <<"tools", "input_schema">>
       [] OTHER                         -> <<p.slot>>) \o p.keys

\* value_safe, tools_value_safe and tool_value_safe.
RECURSIVE value_safe(_, _)
value_safe(keys, surface) ==
    IF keys = <<>> THEN surface
    ELSE LET rest == Tail(keys) IN
         CASE Head(keys) = "context_management" -> context_management(rest)
           [] Head(keys) = "tools" ->
                IF rest # <<>> /\ Head(rest) \in preserves_contract_key \cup {"name"} THEN Untouched
                ELSE value_safe(IF rest = <<>> THEN <<>> ELSE Tail(rest), "SystemPrompt")
           [] Head(keys) \in preserves_contract_key -> Untouched
           [] OTHER -> value_safe(rest, surface)

\* Mutant: the tools are left alone, as the OpenAI walks do.
FallbackSkippingTools(p) ==
    IF Head(JsonKeys(p)) = "tools" THEN Untouched ELSE value_safe(JsonKeys(p), "UserMessage")

\* mask_request's fallback for a body that does not fit ApiRequest.
messages_fallback(p) == value_safe(JsonKeys(p), "UserMessage")

-----------------------------------------------------------------------------
(* /v1/chat/completions: openai_chat.rs                                    *)

ChatContractKeys ==
    {"model", "tools", "tool_choice", "response_format", "json_schema", "schema", "input_schema",
     "parameters", "guided_regex", "guided_grammar", "guided_choice"}

openai_surface_for_role(role) ==
    CASE role = "assistant" -> "AssistantText"
      [] role = "tool" -> "ToolResult"
      [] role \in {"system", "developer"} -> "SystemPrompt"
      [] OTHER -> "UserMessage"

\* map_safe, and value_safe below it.
Safe(keys, contract, surface) == IF Under(keys, contract) THEN Untouched ELSE surface

chat_typed(p) ==
    CASE p.slot \in {"text", "url"} -> openai_surface_for_role(p.role)
      [] p.slot = "tool_call_id" -> IF p.role = "tool" THEN "ToolResult" ELSE Untouched
      [] p.slot = "name" -> "UserMessage"
      [] p.slot = "arguments" -> "ToolUseInput"
      [] p.slot = "message.extra" -> Safe(p.keys, ChatContractKeys, openai_surface_for_role(p.role))
      [] p.slot = "extra" -> Safe(p.keys, ChatContractKeys, "UserMessage")
      [] OTHER -> Untouched

-----------------------------------------------------------------------------
(* /v1/responses: openai_responses.rs                                      *)

ResponsesContractKeys ==
    {"model", "tools", "tool_choice", "response_format", "text", "format", "json_schema", "schema",
     "input_schema", "parameters", "id", "item_id", "call_id", "file_id", "filename", "file_data",
     "image_file", "input_image", "encrypted_content", "signature"}

responses_typed(p) ==
    CASE p.slot = "instructions" -> "SystemPrompt"
      [] p.slot \in {"text", "url"} -> openai_surface_for_role(p.role)
      [] p.slot = "refusal" -> "AssistantText"
      [] p.slot = "arguments" -> "ToolUseInput"
      [] p.slot = "output" -> "ToolResult"
      [] p.slot = "message.extra" -> Safe(p.keys, ResponsesContractKeys, openai_surface_for_role(p.role))
      [] p.slot \in {"metadata", "extra", "other"} -> Safe(p.keys, ResponsesContractKeys, "UserMessage")
      [] OTHER -> Untouched

-----------------------------------------------------------------------------
(* Replies.  A model-authored string is restored with the reveal marker    *)
(* ("shown"), without it ("exact"), or left with its tokens (Untouched).   *)

\* Mutant: thinking is restored, although no request masks it.
UnmaskThinking(slot) ==
    CASE slot = "text" -> "shown"
      [] slot \in {"tool_use.input", "compaction", "extra", "thinking"} -> "exact"
      [] OTHER -> Untouched

\* unmask_response
messages_unmask(slot) ==
    CASE slot = "text" -> "shown"
      [] slot \in {"tool_use.input", "compaction", "extra"} -> "exact"
      [] OTHER -> Untouched

chat_unmask(slot) ==
    CASE slot = "text" -> "shown"
      [] slot \in {"arguments", "message.extra", "extra"} -> "exact"
      [] OTHER -> Untouched

responses_unmask(slot) ==
    CASE slot \in {"text", "refusal"} -> "shown"
      [] slot \in {"arguments", "output", "message.extra", "extra", "other"} -> "exact"
      [] OTHER -> Untouched

\* The three wire formats.  Only /v1/messages has a fallback: a body that
\* does not fit the others' types is refused.
Visited(api, typed, p) ==
    CASE api = "messages" /\ typed  -> messages_typed(p)
      [] api = "messages" /\ ~typed -> messages_fallback(p)
      [] api = "chat"               -> chat_typed(p)
      [] api = "responses"          -> responses_typed(p)

Restored(api, slot) ==
    CASE api = "messages"  -> messages_unmask(slot)
      [] api = "chat"      -> chat_unmask(slot)
      [] api = "responses" -> responses_unmask(slot)
=============================================================================

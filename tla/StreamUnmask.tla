----------------------------- MODULE StreamUnmask -----------------------------
(***************************************************************************)
(* Unmasking a streamed reply (sse.rs, openai_chat.rs, openai_responses.rs).*)
(* The upstream cuts the text of a reply into pieces wherever it likes, so  *)
(* a token may arrive in several of them.  Each relay keeps, per content    *)
(* block (per choice, per tool call, per output item), the tail that may    *)
(* still become a token; it unmasks and forwards the rest, and forwards the *)
(* tail when the protocol says that the block, or the stream, is over.      *)
(*                                                                         *)
(* A key is one such block.  Text is a sequence of classes of characters:   *)
(* "U" can stand in the entity part of a token, "h" only in its hash, "x"   *)
(* in neither.  A token is "[", one or more "U", one "h" and "]".  A custom *)
(* rule may also put a literal of its own in place of a token, one the     *)
(* grammar knows nothing of: that is "l" followed by "m".                  *)
(***************************************************************************)
EXTENDS Naturals, Sequences, SequencesExt

CONSTANTS
    Keys,         \* content blocks of the reply
    MaxTokenLen,  \* MAX_TOKEN_LEN
    MaxPreview,   \* PREVIEW_LIMIT: the most text the monitor keeps of a reply
    MaxPiece,     \* bound: longest piece the upstream sends
    Scripts       \* texts the model may write for a key

Chars == {"[", "]", "U", "h", "x", "l", "m"}

ASSUME StreamAssumption ==
    /\ MaxTokenLen \in Nat /\ MaxPreview \in Nat /\ MaxPiece \in Nat
    /\ \A t \in Scripts : \A n \in 1..Len(t) : t[n] \in Chars

VARIABLES
    wire,      \* the protocol of the stream
    kind,      \* what each key carries
    apart,     \* whether the keys belong to different choices of a chat completion (n > 1)
    script,    \* the text the model has still to write for each key
    stage,     \* where the upstream is with each key: before, open, done, over
    sent,      \* the text sent for each key since its tail was last flushed early
    settled,   \* how the text sent before that is to be forwarded
    carry,     \* the held tail of each key
    queue,     \* frames made and not yet read by the client
    got,       \* the text the client has read for each key
    said,      \* the whole texts that the done events the client has read had in them
    cut,       \* history: keys with a literal token that no emission held as a whole
    ended,     \* keys whose end the client has been told
    captured,  \* the monitor's copy of the reply
    outcome    \* the completion guard: open, Completed, UpstreamError or Aborted

vars == <<wire, kind, apart, script, stage, sent, settled, carry, queue, got, said, cut, ended, captured, outcome>>

-----------------------------------------------------------------------------
\* The delta kinds of each protocol. Thinking is opaque, compaction is machine context.
Kinds == [anthropic |-> {"text", "tool", "compaction", "thinking"},
          chat      |-> {"text", "tool"},
          responses |-> {"text", "tool"}]

\* Where a token that starts at position i of s ends; empty when none starts there.
TokenEnds(s, i) ==
    {j \in (i + 3)..Len(s) :
        /\ s[i] = "[" /\ s[j] = "]" /\ s[j - 1] = "h"
        /\ \A n \in (i + 1)..(j - 2) : s[n] = "U"}

\* Prose is decorated with the reveal marker, everything else is not.
Revealed(k) == IF k = "text" THEN <<"<", "value", ">">> ELSE <<"value">>

\* A custom literal token, and the second pass of unmask_inner: replace those in s.
Literal == <<"l", "m">>

Spelled(s, k) ==
    LET from[i \in 1..(Len(s) + 1)] ==
            IF i > Len(s) THEN <<>>
            ELSE IF i < Len(s) /\ SubSeq(s, i, i + 1) = Literal THEN Revealed(k) \o from[i + 2]
            ELSE <<s[i]>> \o from[i + 1]
    IN  IF k = "thinking" THEN s ELSE from[1]

\* MaskEngine::unmask and unmask_assistant replace the tokens of s, then the literals; which
\* of them they know is RevealBoundary's subject, here they know all.
UnmaskAs(s, k) ==
    LET from[i \in 1..(Len(s) + 1)] ==
            IF i > Len(s) THEN <<>>
            ELSE IF TokenEnds(s, i) = {} THEN <<s[i]>> \o from[i + 1]
            ELSE Revealed(k) \o from[(CHOOSE j \in TokenEnds(s, i) : TRUE) + 1]
    IN  IF k = "thinking" THEN s ELSE Spelled(from[1], k)

\* clean_capture: the monitor's copy of prose is peeled of the marker.
Clean(s) == SelectSeq(s, LAMBDA c : c \notin {"<", ">"})

-----------------------------------------------------------------------------
(* The token boundary. *)

\* Mutant: the hash's lower-case letters are not taken for token characters.
PartialUppercase(tail) ==
    /\ TokenEnds(tail, 1) = {}
    /\ Len(tail) <= MaxTokenLen
    /\ \A n \in 2..Len(tail) : tail[n] = "U"

\* classify: the tail, which starts with "[", may still become a token.
Partial(tail) ==
    /\ TokenEnds(tail, 1) = {}
    /\ Len(tail) <= MaxTokenLen
    /\ \A n \in 2..Len(tail) : tail[n] \in {"U", "h"}

\* split_safe: where the part to hold starts, one past the end when nothing is held.
HoldFrom(buf) ==
    IF \E i \in 1..Len(buf) : buf[i] = "["
    THEN LET last == SelectLastInSeq(buf, LAMBDA c : c = "[")
         IN  IF Partial(SubSeq(buf, last, Len(buf))) THEN last ELSE Len(buf) + 1
    ELSE Len(buf) + 1

-----------------------------------------------------------------------------
(* Frames.  A frame brings text for a key, tells that some keys are over, or *)
(* that an item is done and what its whole text is.                         *)

Text(k, as, s) == IF s = <<>> THEN <<>> ELSE <<[key |-> k, kind |-> as, text |-> s, ends |-> {}]>>
End(keys)      == IF keys = {} THEN <<>> ELSE <<[key |-> CHOOSE k \in Keys : TRUE, kind |-> "end", text |-> <<>>, ends |-> keys]>>

Said(k, s)     == <<[key |-> k, kind |-> "done", text |-> s, ends |-> {}]>>

\* An order of the keys: of a map's entries it is of no consequence.
KeyOrder == SetToSeq(Keys)

\* What the frames of a sequence bring for key k: text of another kind is not this block's.
Brings(frames, k) ==
    FoldLeft(LAMBDA s, f : IF f.key = k /\ f.kind = kind[k] THEN s \o f.text ELSE s, <<>>, frames)

\* capture_event: what the monitor keeps of a reply.
Captures(k) == k \in {"text", "tool"}

Total(copy) == FoldLeft(LAMBDA n, k : n + Len(copy[k]), 0, KeyOrder)

\* ResponseCapture::push, for one frame: what is over the limit is dropped.
Push(copy, f) ==
    LET room == MaxPreview - Total(copy)
        text == Clean(f.text)
    IN  IF Captures(f.kind) /\ f.kind = kind[f.key]
        THEN [copy EXCEPT ![f.key] = @ \o SubSeq(text, 1, IF Len(text) < room THEN Len(text) ELSE room)]
        ELSE copy

\* Queue the frames and mirror them on the monitor's record.
Enqueue(frames) ==
    /\ queue' = queue \o frames
    /\ captured' = FoldLeft(Push, captured, frames)

\* The kind under which a held tail is flushed.
HeldKind(k) == kind[k]

\* The held tails of the given keys, in which no token is complete.
Flush(keys, held) ==
    FoldLeft(LAMBDA s, k : IF k \in keys THEN s \o Text(k, HeldKind(k), UnmaskAs(held[k], "tool")) ELSE s,
             <<>>, KeyOrder)

\* The upstream is polled only when the queue is empty and the stream is not done.
Polling == outcome = "open" /\ queue = <<>>

-----------------------------------------------------------------------------
(* One delta: process, buffered, buffered_content, buffered_tool. *)

Emitted(k, piece) ==
    LET buf == carry[k] \o piece
    IN  IF kind[k] = "thinking" THEN piece ELSE UnmaskAs(SubSeq(buf, 1, HoldFrom(buf) - 1), kind[k])

Held(k, piece) ==
    LET buf == carry[k] \o piece
    IN  IF kind[k] = "thinking" THEN carry[k] ELSE SubSeq(buf, HoldFrom(buf), Len(buf))

\* The upstream cuts the next piece off the text wherever it likes.
Pieces(k) == {SubSeq(script[k], 1, n) : n \in {m \in 1..MaxPiece : m <= Len(script[k])}}

\* The emission of piece ends within a literal token.
CutsLiteral(k, piece) ==
    LET safe == SubSeq(carry[k] \o piece, 1, HoldFrom(carry[k] \o piece) - 1)
    IN  /\ kind[k] # "thinking" /\ safe # <<>> /\ Last(safe) = Head(Literal)
        /\ Len(script[k]) > Len(piece) /\ script[k][Len(piece) + 1] = Last(Literal)

Write(k, piece) ==
    /\ cut' = IF CutsLiteral(k, piece) THEN cut \cup {k} ELSE cut
    /\ script' = [script EXCEPT ![k] = SubSeq(@, Len(piece) + 1, Len(@))]
    /\ sent' = [sent EXCEPT ![k] = @ \o piece]
    /\ UNCHANGED settled

NoText == UNCHANGED <<script, sent, settled, cut>>

Unchanged == UNCHANGED <<wire, kind, apart, got, said, ended>>

-----------------------------------------------------------------------------
(* The Anthropic relay. *)

BlockStart(k) ==
    /\ wire = "anthropic" /\ Polling
    /\ stage[k] = "before"
    /\ stage' = [stage EXCEPT ![k] = "open"]
    /\ carry' = [carry EXCEPT ![k] = <<>>]
    /\ NoText /\ UNCHANGED <<queue, captured, outcome>> /\ Unchanged

BlockDelta(k) ==
    /\ wire = "anthropic" /\ Polling
    /\ stage[k] = "open"
    /\ \E piece \in Pieces(k) :
        /\ Write(k, piece)
        /\ carry' = [carry EXCEPT ![k] = Held(k, piece)]
        /\ Enqueue(Text(k, kind[k], Emitted(k, piece)))
    /\ UNCHANGED <<stage, outcome>> /\ Unchanged

BlockStop(k) ==
    /\ wire = "anthropic" /\ Polling
    /\ stage[k] = "open"
    /\ stage' = [stage EXCEPT ![k] = "over"]
    /\ carry' = [carry EXCEPT ![k] = <<>>]
    /\ Enqueue(Flush({k}, carry) \o End({k}))
    /\ NoText /\ UNCHANGED outcome /\ Unchanged

-----------------------------------------------------------------------------
(* The chat-completions relay. *)

\* The keys of the choice that k belongs to.
Choice(k) == IF apart THEN {k} ELSE Keys

\* Mutant: only [DONE] and the end of the stream flush, no chunk does.
TerminalNever(finish, usage) == FALSE

\* The chunks that flush the held tails: with a finish_reason, or with usage.
Terminal(finish, usage) == finish \/ usage

\* Mutant: the terminal marker overtakes the held tails.
ChunkFramesEndFirst(content, tails, over) == content \o End(over) \o tails

\* A terminal chunk's content, the held tails, then the terminal marker.
ChunkFrames(content, tails, over) == content \o tails \o End(over)

\* A chunk brings a piece for one key, may finish that key's choice and may report usage.
\* A terminal chunk flushes every key, also those of choices that go on: the tail of such a
\* key is settled as it is.
ChatChunk(k) ==
    /\ wire = "chat" /\ Polling
    /\ stage[k] # "over"
    /\ \E piece \in Pieces(k) \cup {<<>>}, finish, usage \in BOOLEAN :
        LET over  == IF finish THEN Choice(k) ELSE {}
            flush == Terminal(finish, usage)
            held  == [carry EXCEPT ![k] = Held(k, piece)]
            now   == [sent EXCEPT ![k] = @ \o piece]
            early == {j \in Keys : flush /\ held[j] # <<>>}
        IN  /\ finish \/ usage \/ piece # <<>>
            /\ cut' = IF CutsLiteral(k, piece) THEN cut \cup {k} ELSE cut
            /\ script' = [script EXCEPT ![k] = SubSeq(@, Len(piece) + 1, Len(@))]
            /\ sent' = [j \in Keys |-> IF j \in early THEN <<>> ELSE now[j]]
            /\ settled' = [j \in Keys |-> IF j \in early THEN settled[j] \o UnmaskAs(now[j], kind[j]) ELSE settled[j]]
            /\ stage' = [j \in Keys |-> IF j \in over THEN "over" ELSE IF j = k THEN "open" ELSE stage[j]]
            /\ carry' = IF flush THEN [j \in Keys |-> <<>>] ELSE held
            /\ Enqueue(ChunkFrames(Text(k, kind[k], Emitted(k, piece)),
                                   IF flush THEN Flush(Keys, held) ELSE <<>>, over))
    /\ UNCHANGED outcome /\ Unchanged

-----------------------------------------------------------------------------
(* The responses relay. *)

OutputDelta(k) ==
    /\ wire = "responses" /\ Polling
    /\ stage[k] \in {"before", "open"}
    /\ \E piece \in Pieces(k) :
        /\ Write(k, piece)
        /\ carry' = [carry EXCEPT ![k] = Held(k, piece)]
        /\ Enqueue(Text(k, kind[k], Emitted(k, piece)))
    /\ stage' = [stage EXCEPT ![k] = "open"]
    /\ UNCHANGED outcome /\ Unchanged

\* response.output_item.done, with the item's whole text: it is unmasked and relayed, and what
\* is held of the item's deltas stays held.  The item gets no more deltas.  The done event of
\* its text or of its arguments, one of those the relay knows only as JSON, is restored bare.
ItemDone(k) ==
    /\ wire = "responses" /\ Polling
    /\ stage[k] = "open"
    /\ stage' = [stage EXCEPT ![k] = "done"]
    /\ \E as \in {kind[k], "tool"} : Enqueue(Said(k, UnmaskAs(sent[k], as)))
    /\ NoText /\ UNCHANGED <<carry, outcome>> /\ Unchanged

\* response.completed, response.failed or response.incomplete.
ResponseOver ==
    /\ wire = "responses" /\ Polling
    /\ \E k \in Keys : stage[k] # "over"
    /\ stage' = [k \in Keys |-> "over"]
    /\ carry' = [k \in Keys |-> <<>>]
    /\ Enqueue(Flush(Keys, carry) \o End(Keys))
    /\ NoText /\ UNCHANGED outcome /\ Unchanged

\* The [DONE] sentinel of the OpenAI protocols. It may come without a terminal event.
Done ==
    /\ wire \in {"chat", "responses"} /\ Polling
    /\ Keys \ ended # {}
    /\ stage' = [k \in Keys |-> "over"]
    /\ carry' = [k \in Keys |-> <<>>]
    /\ Enqueue(Flush(Keys, carry) \o End(Keys))
    /\ NoText /\ UNCHANGED outcome /\ Unchanged

-----------------------------------------------------------------------------
(* The end of the stream. *)

UpstreamCloses ==
    /\ Polling
    /\ outcome' = "Completed"
    /\ stage' = [k \in Keys |-> "over"]
    /\ carry' = [k \in Keys |-> <<>>]
    /\ Enqueue(Flush(Keys, carry))
    /\ NoText /\ Unchanged

UpstreamFails ==
    /\ Polling
    /\ outcome' = "UpstreamError"
    /\ NoText /\ UNCHANGED <<stage, carry, queue, captured>> /\ Unchanged

\* The client reads the next frame.
ClientReads ==
    /\ queue # <<>> /\ outcome # "Aborted"
    /\ queue' = Tail(queue)
    /\ got' = [k \in Keys |-> got[k] \o Brings(<<Head(queue)>>, k)]
    /\ said' = IF Head(queue).kind = "done" THEN said @@ (Head(queue).key :> Head(queue).text) ELSE said
    /\ ended' = ended \cup Head(queue).ends
    /\ NoText /\ UNCHANGED <<wire, kind, apart, stage, carry, captured, outcome>>

\* The client goes away: the relay is dropped and its guard records Aborted.
Disconnect ==
    /\ outcome = "open"
    /\ outcome' = "Aborted"
    /\ NoText /\ UNCHANGED <<stage, carry, queue, captured>> /\ Unchanged

-----------------------------------------------------------------------------
Init ==
    /\ wire \in DOMAIN Kinds
    /\ kind \in [Keys -> Kinds[wire]]
    /\ apart \in IF wire = "chat" THEN BOOLEAN ELSE {FALSE}
    /\ script \in [Keys -> Scripts]
    /\ stage = [k \in Keys |-> "before"]
    /\ sent = [k \in Keys |-> <<>>]
    /\ settled = [k \in Keys |-> <<>>]
    /\ carry = [k \in Keys |-> <<>>]
    /\ queue = <<>>
    /\ got = [k \in Keys |-> <<>>]
    /\ said = <<>>
    /\ cut = {}
    /\ ended = {}
    /\ captured = [k \in Keys |-> <<>>]
    /\ outcome = "open"

Next ==
    \/ \E k \in Keys : BlockStart(k) \/ BlockDelta(k) \/ BlockStop(k)
    \/ \E k \in Keys : ChatChunk(k) \/ OutputDelta(k) \/ ItemDone(k)
    \/ ResponseOver \/ Done
    \/ UpstreamCloses \/ UpstreamFails
    \/ ClientReads \/ Disconnect

Spec == Init /\ [][Next]_vars

-----------------------------------------------------------------------------
(* Properties. *)

\* Types; a held tail is one unfinished token no longer than MAX_TOKEN_LEN, so a stray
\* bracket never stalls the stream (classify).
TypeOK ==
    /\ wire \in DOMAIN Kinds
    /\ kind \in [Keys -> Kinds[wire]]
    /\ stage \in [Keys -> {"before", "open", "done", "over"}]
    /\ ended \subseteq Keys /\ cut \subseteq Keys
    /\ DOMAIN said \subseteq Keys
    /\ outcome \in {"open", "Completed", "UpstreamError", "Aborted"}
    /\ \A k \in Keys :
        /\ \E t \in Scripts : \E n \in 0..Len(t) : script[k] = SubSeq(t, n + 1, Len(t))
        /\ \A n \in 1..Len(sent[k]) : sent[k][n] \in Chars
        /\ carry[k] # <<>> => carry[k][1] = "[" /\ Len(carry[k]) <= MaxTokenLen

\* However the upstream cuts the text, what the client has read, what is queued for it and
\* what is held are together the text unmasked in one piece, prose decorated, tool input and
\* compaction bare, thinking untouched (buffered, split_safe and every flush).  In a chat
\* completion the text is cut in two where a chunk with usage, or the end of another choice,
\* flushed an unfinished tail: a token across that point is not restored, nothing else is lost.
\* Nor is a literal token restored that split_safe let go in two parts, which it does not
\* hold back (cut): then too the text differs in nothing but that literal.
\* The monitor's copy of the reply is what was forwarded, without the decoration and without
\* compaction and thinking, and up to the limit of the preview; after a disconnect it may be
\* ahead of the client, never behind.
ChunkingIsInvisible ==
    LET reply == [k \in Keys |-> IF Captures(kind[k]) THEN Clean(got[k] \o Brings(queue, k)) ELSE <<>>]
    IN  /\ \A k \in Keys :
            LET forwarded == got[k] \o Brings(queue, k) \o carry[k]
                whole     == settled[k] \o UnmaskAs(sent[k], kind[k])
            IN  /\ k \notin cut => forwarded = whole
                /\ Spelled(forwarded, kind[k]) = Spelled(whole, kind[k])
                /\ IsPrefix(captured[k], reply[k])
        /\ Total(captured) = IF Total(reply) < MaxPreview THEN Total(reply) ELSE MaxPreview

\* The text of a done event is that of the deltas, but for literal tokens that were cut and
\* for the marker.
Completes(text, deltas, k) == Clean(text) = Clean(Spelled(deltas, kind[k]))

\* When the client has been told that a block or the response is over, or the stream was
\* drained, nothing of it is still held (the flushes of the three relays); before, never more
\* than one unfinished token (TypeOK).  The done event of a single item of the responses
\* protocol flushes nothing: what is held then is what the event's own text has beyond the
\* deltas, so a client that takes the item's text from there has it all.
NothingHeldAtTheEnd ==
    /\ TypeOK
    /\ \A k \in Keys : k \in ended \/ outcome = "Completed" => carry[k] = <<>>
    /\ \A k \in DOMAIN said : Completes(said[k], got[k] \o Brings(queue, k) \o carry[k], k)

\* A client that stops reading at the end marker of its protocol misses nothing: no text for
\* a block reaches it after content_block_stop, finish_reason, response.completed or [DONE],
\* and after the done event of an item of the responses protocol at most one more delta
\* does, which completes what that event said.
NothingAfterTheEnd ==
    [][\A k \in Keys : got'[k] # got[k] =>
            /\ k \notin ended
            /\ k \in DOMAIN said => Completes(said[k], got'[k], k)]_vars
=============================================================================

------------------------------ MODULE Rewriting ------------------------------
(***************************************************************************)
(* A conversation through the proxy: the client sends its whole history on *)
(* every turn, the proxy masks it with what RequestWalk visits and         *)
(* Detection finds, the model answers with tokens it has seen, and the     *)
(* restored answer joins the history the client sends next.  The policy    *)
(* and the model change between and inside requests, and detections are    *)
(* cached across all of them.                                              *)
(*                                                                         *)
(* The engine's locks and the cache's bounds are MaskEngine's subject, the *)
(* kinds of secrets and tokens RevealBoundary's, streams StreamUnmask's.   *)
(***************************************************************************)
EXTENDS Detection, RequestWalk, Naturals, TLC

CONSTANTS
    Hits,        \* text -> what the registered secrets, rules and regexes match
    MlHits,      \* text -> what the ML recognizer finds
    Policies,    \* policies the operator may install
    Turns,       \* api -> leaves a client may add to its history
    ReplyPlaces, \* api -> positions a model may write to
    MaxTurns, MaxChanges  \* bounds

Opaque == "tokens"  \* a text with nothing but tokens in it

ASSUME TextAssumption  == Opaque \in DOMAIN Hits /\ DOMAIN Hits = DOMAIN MlHits /\ Hits[Opaque] = <<>>
ASSUME BoundAssumption == MaxTurns \in Nat /\ MaxChanges \in Nat

VARIABLES
    api,      \* the endpoint of the conversation
    policy,   \* the live policy
    model,    \* whether an ML recognizer is serving
    cache,    \* detections by key
    history,  \* what the client holds: [pos, text, marked, echoed]
    req,      \* the request in flight: its stage, whether it fits the wire types
    wire,     \* what upstream was last sent, and under which inputs
    count

vars == <<api, policy, model, cache, history, req, wire, count>>

-----------------------------------------------------------------------------
(* One leaf.  marked: the reveal marker is around its values; echoed: the  *)
(* spans upstream knows only as tokens.                                    *)

Surface(leaf) == Visited(api, req.fits, leaf.pos)

Scanned(leaf) ==
    Surface(leaf) # Untouched /\ policy.enabled /\ Surface(leaf) \notin policy.disabled

\* stripped_for_key: the marker is peeled off assistant history only, and by
\* a walk that scans it: mask has returned before, with the switch off or the
\* surface disabled.
Marked(leaf) == leaf.marked /\ ~(Scanned(leaf) /\ Surface(leaf) = "AssistantText")

\* CacheKey
Key(leaf) ==
    <<leaf.text, Marked(leaf), Surface(leaf), detection_fingerprint(policy), model>>

Ml(leaf) == IF model THEN MlHits[leaf.text] ELSE <<>>

\* mask, up to the splice: a leaf out of scope is still searched for secrets.
Detections(leaf) ==
    CASE Surface(leaf) = Untouched -> <<>>
      [] Scanned(leaf) /\ Key(leaf) \in DOMAIN cache -> cache[Key(leaf)]
      [] Scanned(leaf) /\ Key(leaf) \notin DOMAIN cache ->
             run_detection(policy, Hits[leaf.text], Ml(leaf), Surface(leaf))
      [] OTHER -> resolve_overlaps(detect_secrets(Hits[leaf.text], Surface(leaf)))

\* detect_and_cache, for all leaves of a walk.
Cached(leaves) ==
    LET missed == {l \in ToSet(leaves) : Scanned(l) /\ Key(l) \notin DOMAIN cache}
    IN  cache @@ [k \in {Key(l) : l \in missed} |->
                     Detections(CHOOSE l \in missed : Key(l) = k)]

-----------------------------------------------------------------------------
(* A request.                                                              *)

\* The next turn arrives: the history and a new leaf.  A body that does not
\* fit its types goes to the fallback walk of /v1/messages; the OpenAI
\* endpoints refuse it, and nothing changes.
Receive(leaf, fits) ==
    /\ req.stage = "idle" /\ count.turns < MaxTurns
    /\ fits \/ api = "messages"
    /\ count' = [count EXCEPT !.turns = @ + 1]
    /\ history' = Append(history, leaf)
    /\ req' = [stage |-> IF model /\ fits THEN "prewarm" ELSE "mask", fits |-> fits]
    /\ UNCHANGED <<api, policy, model, cache, wire>>

\* prewarm_batch's plan: what mask would miss, each key once.
Plan ==
    LET add(plan, leaf) ==
            IF \/ ~Scanned(leaf) \/ Key(leaf) \in DOMAIN cache
               \/ \E l \in ToSet(plan) : Key(l) = Key(leaf)
            THEN plan ELSE Append(plan, leaf)
    IN  IF policy.enabled /\ model THEN FoldLeft(add, <<>>, history) ELSE <<>>

Batch == [i \in DOMAIN Plan |-> [text |-> Hits[Plan[i].text], surface |-> Surface(Plan[i])]]

\* The recognizer answers for every text of the batch, or loses one.
Answers ==
    LET whole == [i \in DOMAIN Plan |-> MlHits[Plan[i].text]]
    IN  {whole} \cup {RemoveAt(whole, i) : i \in DOMAIN whole}

Prewarm(answer) ==
    /\ req.stage = "prewarm"
    /\ LET lists == run_detection_batch(policy, Batch, answer)
           found == {i \in DOMAIN Plan : lists[i] # <<>>}
       IN  cache' = cache @@ [k \in {Key(Plan[i]) : i \in found} |->
                        lists[CHOOSE i \in found : Key(Plan[i]) = k][1]]
    /\ req' = [req EXCEPT !.stage = "mask"]
    /\ UNCHANGED <<api, policy, model, history, wire, count>>

\* mask_request's second walk and send_upstream.
Mask ==
    /\ req.stage = "mask"
    /\ cache' = Cached(history)
    /\ wire' = [policy |-> policy, model |-> model, fits |-> req.fits,
                leaves |-> [i \in DOMAIN history |->
                    [leaf |-> history[i], surface |-> Surface(history[i]),
                     marked |-> Marked(history[i]), dets |-> Detections(history[i])]]]
    /\ req' = [req EXCEPT !.stage = "sent"]
    /\ UNCHANGED <<api, policy, model, history, count>>

-----------------------------------------------------------------------------
(* A reply.                                                                *)

\* The spans of a sent leaf that a manifest can restore, and those it cannot.
Tokens(w)  == {Span(d) : d \in {d \in ToSet(w.dets) : resolve_operator(wire.policy, d) = "token"}}
Removed(w) == {d \in ToSet(w.dets) : resolve_operator(wire.policy, d) \notin {"token", "keep"}}

\* The model repeats a leaf it was sent at a place of its own, and the client
\* files the restored reply.  What is not restored stays tokens.
Reply(i, place) ==
    /\ req.stage = "sent"
    /\ LET w == wire.leaves[i]
           how == Restored(api, place.slot)
       IN  /\ Removed(w) = {}
           /\ history' = Append(history,
                  IF how = Untouched
                  THEN [pos |-> place, text |-> Opaque, marked |-> FALSE, echoed |-> {}]
                  ELSE [pos |-> place, text |-> w.leaf.text, echoed |-> Tokens(w),
                        marked |-> how = "shown" /\ Tokens(w) # {}])
    /\ req' = [req EXCEPT !.stage = "idle"]
    /\ UNCHANGED <<api, policy, model, cache, wire, count>>

-----------------------------------------------------------------------------
(* The operator.                                                           *)

Change ==
    /\ count.changes < MaxChanges
    /\ count' = [count EXCEPT !.changes = @ + 1]
    /\ UNCHANGED <<api, cache, history, req, wire>>

SetPolicy(p) == p # policy /\ policy' = p /\ UNCHANGED model /\ Change

\* The recognizer is loaded or disabled.
SetModel == model' = ~model /\ UNCHANGED policy /\ Change

Init ==
    /\ api \in DOMAIN Turns
    /\ policy \in Policies /\ model \in BOOLEAN
    /\ cache = <<>> /\ history = <<>>
    /\ req = [stage |-> "idle", fits |-> TRUE]
    /\ wire = [policy |-> policy, model |-> model, fits |-> TRUE, leaves |-> <<>>]
    /\ count = [turns |-> 0, changes |-> 0]

Next ==
    \/ \E leaf \in Turns[api], fits \in BOOLEAN : Receive(leaf, fits)
    \/ \E answer \in Answers : Prewarm(answer)
    \/ Mask
    \/ \E i \in DOMAIN wire.leaves, place \in ReplyPlaces[api] : Reply(i, place)
    \/ \E p \in Policies : SetPolicy(p)
    \/ SetModel

Spec == Init /\ [][Next]_vars

-----------------------------------------------------------------------------
(* Properties.                                                             *)

InScope(w) ==
    w.surface # Untouched /\ wire.policy.enabled /\ w.surface \notin wire.policy.disabled

\* A hit with the lift a word of context gives it.
Lifted(h) == IF h.source = "regex" /\ h.context THEN [h EXCEPT !.score = @ + CONTEXT_BOOST] ELSE h

\* What a policy asks to be masked, stated hit by hit.
Eligible(p, h, surface) ==
    \/ h.source = "secret" /\ surface \in h.surfaces
    \/ /\ h.source = "custom"
       /\ \E c \in ToSet(p.customs) : c.name = h.rule /\ surface \in c.surfaces
    \/ /\ h.source \in {"regex", "ml"}
       /\ entity_enabled(p, h.entity)
       /\ h.score >= p.threshold /\ h.start < h.end
       /\ h.entity = "PHONE_NUMBER" => h.score > PHONE_BASE_SCORE
       /\ h.entity = "API_KEY" => h.shape \in {"service", "opaque"}

Candidates(w) ==
    LET found == Hits[w.leaf.text] \o (IF wire.model THEN MlHits[w.leaf.text] ELSE <<>>)
    IN  {h \in {Lifted(f) : f \in ToSet(found)} : Eligible(wire.policy, h, w.surface)}

Excused(w, h) ==
    /\ h.source # "secret"
    /\ \E a \in Candidates(w) : Allowed(wire.policy, a) /\ a.source # "secret"
                                    /\ a.start <= h.start /\ h.end <= a.end

\* Whatever the cache, a batch or an earlier policy supplied, each leaf sent
\* upstream is masked exactly as the policy and the model of its walk ask: the
\* spans are disjoint and in order, each is one the policy asks for, and each
\* one it asks for is masked, allow-listed, or overlapped by one that ranks no
\* lower (run_detection, run_detection_batch, detection_fingerprint).
MaskedAsAsked ==
    \A w \in ToSet(wire.leaves) : InScope(w) =>
        /\ \A i, j \in DOMAIN w.dets : i < j => w.dets[i].end <= w.dets[j].start
        /\ \A d \in ToSet(w.dets) :
               d \in Candidates(w) /\ ~Excused(w, d)
        /\ \A h \in Candidates(w) : Excused(w, h) \/
               \E d \in ToSet(w.dets) : Overlap(h, d) /\ ~Better(h, d)

\* A registered secret in a leaf of its surfaces is never sent whole: not
\* through an allow-list, a disabled surface, the master switch, or a rule
\* that ranks its own match higher (Pass 0, resolve_overlaps).
SecretsAlwaysCut ==
    \A w \in ToSet(wire.leaves) : w.surface # Untouched =>
        \A h \in ToSet(Hits[w.leaf.text]) : (h.source = "secret" /\ w.surface \in h.surfaces) =>
            \E d \in ToSet(w.dets) : d.source = "secret" /\ Overlap(h, d)

\* The keys a walk of free JSON takes for protocol, and leaves alone.
ContractKeys ==
    CASE api = "messages" -> IF wire.fits THEN {} ELSE preserves_contract_key
      [] api = "chat" -> ChatContractKeys
      [] api = "responses" -> ResponsesContractKeys

\* What the proxy restores in a reply it walks when the client sends the reply
\* back: no place where a token becomes plaintext for the user is one that goes
\* upstream unread (what is done to it there is MaskedAsAsked's subject).  And
\* a walk that masks the leaf takes the marker off it: the marker is put only
\* where a later walk looks for it.  Excepted: values under a protocol key of a
\* free JSON walk; the marker in a body that does not fit, and in a leaf that
\* is out of the policy's scope (README, observations).
EchoIsWalked ==
    \A w \in ToSet(wire.leaves) : ~Under(w.leaf.pos.keys, ContractKeys) =>
        /\ w.leaf.echoed # {} => w.surface # Untouched
        /\ w.marked => ~wire.fits \/ ~InScope(w)

\* A body that does not fit its types is masked wherever a body that fits is,
\* but under a protocol key (mask_request's fallback).
FallbackCovers ==
    (api = "messages" /\ ~wire.fits) =>
        \A w \in ToSet(wire.leaves) :
            (messages_typed(w.leaf.pos) # Untouched /\ ~Under(w.leaf.pos.keys, preserves_contract_key))
                => w.surface # Untouched
=============================================================================

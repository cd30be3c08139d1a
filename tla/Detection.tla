------------------------------ MODULE Detection ------------------------------
(***************************************************************************)
(* How the detectors' findings in one text become the spans that are       *)
(* masked: the passes of detect_base (registered secrets, custom rules,    *)
(* the regex analyzer), the ML pass, the gates of ingest_results, the      *)
(* allow-list and the resolution of overlaps.                              *)
(*                                                                         *)
(* A text is what its detectors find in it: a sequence of hits             *)
(*   [source, start, end, entity, score, context, shape, rule, surfaces]   *)
(* with scores in hundredths, what a generic API_KEY match looks like and, *)
(* for a registered secret, the surfaces it is registered for; the spans   *)
(* whose text is allow-listed are named by the policy.  The recognizers    *)
(* themselves are libraries.                                               *)
(***************************************************************************)
EXTENDS Integers, Sequences, FiniteSets, SequencesExt

CONTEXT_BOOST    == 35
PHONE_BASE_SCORE == 40

\* The entities of the model and their categories.
entity_types(category) ==
    CASE category = "secrets"  -> {"API_KEY"}
      [] category = "contact"  -> {"PHONE_NUMBER", "EMAIL_ADDRESS"}
      [] category = "personal" -> {"PERSON"}

entity_enabled(policy, entity) ==
    \/ entity \in DOMAIN policy.operators
    \/ \E c \in policy.categories : entity \in entity_types(c)

operator_for(policy, entity) ==
    IF entity \in DOMAIN policy.operators THEN policy.operators[entity] ELSE policy.operator

Custom(policy, name) == policy.customs[CHOOSE i \in DOMAIN policy.customs : policy.customs[i].name = name]

\* compile_customs: a stable sort; a lower value goes first.
compile_customs(rules) ==
    LET order == SetToSortSeq(DOMAIN rules,
                     LAMBDA i, j : \/ rules[i].priority < rules[j].priority
                                   \/ rules[i].priority = rules[j].priority /\ i < j)
    IN  [i \in DOMAIN order |-> rules[order[i]]]

Span(h) == <<h.start, h.end>>

Allowed(policy, h) == Span(h) \in policy.allow

Of(text, source) == SelectSeq(text, LAMBDA h : h.source = source)

-----------------------------------------------------------------------------
(* The passes.  Each yields the detections it adds, in order, and the      *)
(* allow-listed spans it met.                                              *)

detect_secrets(text, surface) == SelectSeq(Of(text, "secret"), LAMBDA h : surface \in h.surfaces)

\* Pass 1: every rule that applies on the surface, in precedence order.
CustomHits(policy, text, surface) ==
    LET rules == compile_customs(policy.customs)
        found(i) == IF surface \in rules[i].surfaces
                    THEN SelectSeq(Of(text, "custom"), LAMBDA h : h.rule = rules[i].name) ELSE <<>>
    IN  FlattenSeq([i \in DOMAIN rules |-> found(i)])

\* The analyzer drops what no context word could lift over the threshold,
\* then lifts what has one.
Analyze(policy, text) ==
    LET floor == IF policy.threshold > CONTEXT_BOOST THEN policy.threshold - CONTEXT_BOOST ELSE 0
        seen  == SelectSeq(Of(text, "regex"), LAMBDA h : h.score >= floor)
    IN  [i \in DOMAIN seen |-> IF seen[i].context THEN [seen[i] EXCEPT !.score = @ + CONTEXT_BOOST]
                               ELSE seen[i]]

\* plausible_generic_secret, by the look of a generic high-entropy match: a
\* digest, too little entropy, letters or digits alone, or like prose is no
\* key.  A match of a service's own pattern has no such look, and is no
\* business of this gate.
plausible_generic_secret(shape) == shape \notin {"hex", "flat", "unmixed", "prose"}

\* The gates of ingest_results, up to the allow-list.
Ingested(policy, results) ==
    SelectSeq(results, LAMBDA h :
        /\ h.score >= policy.threshold
        /\ ~(h.entity = "PHONE_NUMBER" /\ h.score <= PHONE_BASE_SCORE)
        /\ entity_enabled(policy, h.entity)
        /\ h.start < h.end
        /\ h.entity = "API_KEY" => plausible_generic_secret(h.shape))

\* Mutant: an allow-listed span suppresses a registered secret inside it.
SuppressAll(dets, allowed) ==
    SelectSeq(dets, LAMBDA d : ~\E s \in allowed : s[1] <= d.start /\ d.end <= s[2])

\* finish: what lies inside an allow-listed span is dropped, but for secrets.
Suppress(dets, allowed) ==
    SelectSeq(dets, LAMBDA d :
        d.source = "secret" \/ ~\E s \in allowed : s[1] <= d.start /\ d.end <= s[2])

Overlap(a, b) == a.start < b.end /\ b.start < a.end

tier(source) == CASE source = "secret" -> 0 [] source = "custom" -> 1 [] OTHER -> 2

\* Strictly better: tier, then score, then length.
Better(a, b) ==
    \/ tier(a.source) < tier(b.source)
    \/ /\ tier(a.source) = tier(b.source)
       /\ \/ a.score > b.score
          \/ a.score = b.score /\ a.end - a.start > b.end - b.start

\* Best first, greedily, then by position.
resolve_overlaps(dets) ==
    LET order == SetToSortSeq(DOMAIN dets, LAMBDA i, j :
                     \/ Better(dets[i], dets[j])
                     \/ ~Better(dets[j], dets[i]) /\ i < j)
        best  == [i \in DOMAIN order |-> dets[order[i]]]
        keep(kept, d) == IF \E k \in ToSet(kept) : Overlap(d, k) THEN kept ELSE Append(kept, d)
    IN  SortSeq(FoldLeft(keep, <<>>, best), LAMBDA a, b : a.start < b.start)

-----------------------------------------------------------------------------
(* The whole of it.                                                        *)

Found(policy, text, ml, surface) ==
    LET customs == CustomHits(policy, text, surface)
        results == Ingested(policy, Analyze(policy, text)) \o Ingested(policy, ml)
    IN  [secrets |-> detect_secrets(text, surface), passed |-> customs \o results]

\* run_detection over the ML results for the text (none: no model).
run_detection(policy, text, ml, surface) ==
    LET found   == Found(policy, text, ml, surface)
        allowed == {Span(h) : h \in {h \in ToSet(found.passed) : Allowed(policy, h)}}
        dets    == found.secrets \o SelectSeq(found.passed, LAMBDA h : ~Allowed(policy, h))
    IN  resolve_overlaps(Suppress(dets, allowed))

\* run_detection_batch: an answer of the wrong length is refused whole.
run_detection_batch(policy, leaves, answer) ==
    [i \in 1..Len(leaves) |-> IF Len(answer) = Len(leaves)
        THEN <<run_detection(policy, leaves[i].text, answer[i], leaves[i].surface)>> ELSE <<>>]

\* resolve_operator: a secret carries its own, a literal rule mints a token.
resolve_operator(policy, d) ==
    IF d.source = "secret" THEN "hash"
    ELSE IF d.source = "custom" /\ Custom(policy, d.rule).literal THEN "token"
    ELSE operator_for(policy, d.entity)

\* Mutant: the operator overrides are left out.
FingerprintWithoutKeys(policy) ==
    <<policy.threshold, policy.categories, {}, policy.customs, policy.allow>>

\* detection_fingerprint: what detection depends on, and not what is done
\* with it; fp_custom and fp_allow_list.
detection_fingerprint(policy) ==
    <<policy.threshold, policy.categories, DOMAIN policy.operators, policy.customs, policy.allow>>
=============================================================================

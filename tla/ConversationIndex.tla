--------------------------- MODULE ConversationIndex ---------------------------
(***************************************************************************)
(* How the monitor sorts requests: which conversation a request belongs    *)
(* to, which turn of it it is, what in it is new to the reviewer, and the  *)
(* ledger of every value that was masked.  An agent resends its whole      *)
(* transcript every turn, several agents and side branches share a proxy,  *)
(* and every map is bounded.  A request reads the clock when it arrives    *)
(* and takes the monitor's lock later, so requests overtake one another.   *)
(*                                                                         *)
(* A surface is its block_hash.  A transcript is the sequence of its       *)
(* surfaces, those of the system prompt first: what makes up the anchor    *)
(* and what does not are kept apart.                                       *)
(* Whether a recorded request is then held is MonitorGate's subject.       *)
(***************************************************************************)
EXTENDS Naturals, Sequences, FiniteSets, SequencesExt, Functions

CONSTANTS
    Surfaces,
    Named,       \* agents whose requests carry a conversation id
    Anonymous,   \* agents whose requests do not
    SentBy,      \* a function from agents to the transcripts they may send
    System,      \* surfaces of kind system or instructions
    Prompts,     \* surfaces of provenance user_input
    Replies,     \* surfaces a captured reply may come back as
    TokensOf,    \* a function from surfaces to the tokens in them
    LaneOf,      \* a function from surfaces to 1 + provenance_rank; 0 is no lane
    MaxRecords, MaxTracked, MaxTokens,
    MaxOvertaken, \* bound: records made between a request's clock and its lock
    MaxRequests   \* bound: requests and token counts

Agents == Named \cup Anonymous
Transcript == [system : Seq(System), talk : Seq(Surfaces \ System)]
Transcripts == UNION {SentBy[a] : a \in Agents}

ASSUME AgentAssumption == Named \cap Anonymous = {}
ASSUME SurfaceAssumption == System \cup Prompts \cup Replies \subseteq Surfaces
ASSUME TranscriptAssumption == \A a \in Agents : SentBy[a] \subseteq Transcript
ASSUME RankAssumption == /\ LaneOf \in [Surfaces -> 1 .. 6]
                         /\ \A s \in Surfaces : IsFiniteSet(TokensOf[s])
ASSUME SizeAssumption == /\ MaxRecords \in Nat \ {0} /\ MaxTracked \in Nat \ {0} /\ MaxTokens \in Nat
                         /\ MaxRequests \in Nat /\ MaxOvertaken \in Nat
\* 500 records, 1024 conversations: a request is not overtaken by 524 others
\* while it is parsed.
ASSUME OvertakeAssumption == MaxOvertaken + MaxRecords <= MaxTracked

VARIABLES
    clock,   \* now_ms
    arrived, \* requests that have read the clock and not yet taken the lock
    records, \* the ring, newest first
    tracked, \* turn_counts, human_turn_counts, prev_user_input_counts, last_seen
    anchors, \* conversation_anchors
    ledger,  \* session_tokens
    \* History:
    latest,   \* what each anonymous agent sent last, and where it was put
    reminted, \* conversations whose minted id was already in use
    shown     \* the surfaces each conversation has shown in a record

history == <<latest, reminted, shown>>
vars == <<clock, arrived, records, tracked, anchors, ledger, history>>

-----------------------------------------------------------------------------
\* surfaces_from_body, and those of them that tell conversations apart.
Content(t)    == t.system \o t.talk
SurfacesIn(t) == Range(Content(t))
AnchorSeq(t)  == t.talk

Unknown       == <<"unknown">>
NamedId(a)    == <<"named", a>>
BaseId(seq)   == <<"auto", seq[1]>>
DigestId(seq) == <<"auto", seq[1], seq>>

Ids == {Unknown} \cup {NamedId(a) : a \in Named}
       \cup UNION {{BaseId(AnchorSeq(t)), DigestId(AnchorSeq(t))} :
                     t \in {u \in Transcripts : AnchorSeq(u) # <<>>}}

Record == [conversation : Ids, turn : 1 .. MaxRequests, human : 0 .. MaxRequests,
           request : Transcripts, reply : SUBSET Replies,
           delta : [kind : {"first", "unavailable", "against"}, added : SUBSET Surfaces]]

\* Types; every anchor belongs to a tracked conversation, so the maps are
\* evicted together, and no map outgrows its cap.
TypeOK ==
    /\ clock \in 0 .. MaxRequests
    /\ \A a \in DOMAIN arrived :
          a \in Agents /\ arrived[a] \in [now : 1 .. MaxRequests, late : 0 .. MaxOvertaken]
    /\ records \in Seq(Record) /\ Len(records) <= MaxRecords
    /\ DOMAIN tracked \subseteq Ids /\ Cardinality(DOMAIN tracked) <= MaxTracked
    /\ \A id \in DOMAIN tracked :
          tracked[id] \in [turns : 1 .. MaxRequests, human : 0 .. MaxRequests,
                           inputs : Nat, seen : 1 .. MaxRequests]
    /\ DOMAIN anchors \subseteq DOMAIN tracked
    /\ \A id \in DOMAIN anchors : anchors[id] # <<>>
    /\ Cardinality(DOMAIN ledger) <= MaxTokens
    /\ \A k \in DOMAIN ledger : ledger[k] \in [lane : 0 .. 6, seen : 1 .. MaxRequests]

-----------------------------------------------------------------------------
(* Attribution.                                                            *)

\* resolve_content_conversation: the conversations whose anchor is a clean
\* prefix of the transcript.
Lineages(seq) == {id \in DOMAIN anchors : IsPrefix(anchors[id], seq)}

\* The longest anchor wins; no two are equally long.
Joined(seq) == CHOOSE id \in Lineages(seq) :
                  \A other \in Lineages(seq) : Len(anchors[other]) <= Len(anchors[id])

Minted(seq) == IF BaseId(seq) \in DOMAIN anchors THEN DigestId(seq) ELSE BaseId(seq)

\* record_llm_request: an explicit id, else the content, else the shared bucket.
ConversationOf(a, t) ==
    CASE a \in Named -> NamedId(a)
      [] a \notin Named /\ AnchorSeq(t) = <<>> -> Unknown
      [] a \notin Named /\ AnchorSeq(t) # <<>> /\ Lineages(AnchorSeq(t)) # {} -> Joined(AnchorSeq(t))
      [] OTHER -> Minted(AnchorSeq(t))

Put(f, k, v) == [x \in DOMAIN f \cup {k} |-> IF x = k THEN v ELSE f[x]]

\* A minted or advanced anchor is the transcript; an exact match leaves it as it is.
AnchorsWith(a, t, id) ==
    IF a \in Named \/ AnchorSeq(t) = <<>> THEN anchors ELSE Put(anchors, id, AnchorSeq(t))

-----------------------------------------------------------------------------
(* Turns and what is new in them.                                          *)

Before(id) == IF id \in DOMAIN tracked THEN tracked[id]
              ELSE [turns |-> 0, human |-> 0, inputs |-> 0, seen |-> 0]

\* How many surfaces of t are in S.
CountIn(t, S) == Cardinality({i \in DOMAIN Content(t) : Content(t)[i] \in S})

PromptsIn(t) == CountIn(t, Prompts)

After(id, t, now) ==
    [turns  |-> Before(id).turns + 1,
     human  |-> IF PromptsIn(t) > Before(id).inputs THEN Before(id).human + 1 ELSE Before(id).human,
     inputs |-> PromptsIn(t),
     seen   |-> now]

\* Mutant: the conversation with the fewest turns is evicted.
EvictFewestTurns(all) ==
    IF Cardinality(DOMAIN all) <= MaxTracked THEN {}
    ELSE {CHOOSE id \in DOMAIN all : \A other \in DOMAIN all : all[id].turns <= all[other].turns}

\* evict_stale_conversation_state; one conversation at most is over the limit.
Evict(all) ==
    IF Cardinality(DOMAIN all) <= MaxTracked THEN {}
    ELSE {CHOOSE id \in DOMAIN all : \A other \in DOMAIN all : all[id].seen <= all[other].seen}

Overlap(r, t) == CountIn(r.request, SurfacesIn(t))

\* Mutant: the best overlap of any conversation is the baseline.
PredecessorsOfAny(id, turn) == {i \in DOMAIN records : records[i].turn < turn}

Predecessors(id, turn) ==
    {i \in DOMAIN records : records[i].conversation = id /\ records[i].turn < turn}

\* previous_turn_surfaces: the most overlap, then the latest turn.
Predecessor(id, turn, t) ==
    records[CHOOSE i \in Predecessors(id, turn) :
              \A j \in Predecessors(id, turn) :
                 \/ Overlap(records[i], t) > Overlap(records[j], t)
                 \/ /\ Overlap(records[i], t) = Overlap(records[j], t)
                    /\ records[i].turn >= records[j].turn]

\* compute_delta
Delta(id, turn, t) ==
    CASE Predecessors(id, turn) # {} ->
            LET prev == Predecessor(id, turn, t) IN
            [kind |-> "against", added |-> SurfacesIn(t) \ (SurfacesIn(prev.request) \cup prev.reply)]
      [] Predecessors(id, turn) = {} /\ turn = 1 -> [kind |-> "first", added |-> {}]
      [] OTHER -> [kind |-> "unavailable", added |-> {}]

\* push_record
Pushed(record) == <<record>> \o (IF Len(records) < MaxRecords THEN records ELSE Front(records))

-----------------------------------------------------------------------------
(* The ledger.                                                             *)

Tokens(t) == UNION {TokensOf[s] : s \in SurfacesIn(t)}

\* token_provenance_map: the highest rank of the surfaces a token is in.
LaneIn(t, k) == CHOOSE n \in {LaneOf[s] : s \in {x \in SurfacesIn(t) : k \in TokensOf[x]}} :
                   \A s \in {x \in SurfacesIn(t) : k \in TokensOf[x]} : LaneOf[s] <= n

Lanes(t) == [k \in Tokens(t) |-> LaneIn(t, k)]

\* A known token is refreshed and its lane promoted, never demoted.
Sighted(lanes, now) ==
    [k \in DOMAIN ledger \cup DOMAIN lanes |->
        CASE k \notin DOMAIN lanes -> ledger[k]
          [] k \in DOMAIN lanes \ DOMAIN ledger -> [lane |-> lanes[k], seen |-> now]
          [] OTHER -> [lane |-> IF lanes[k] > ledger[k].lane THEN lanes[k] ELSE ledger[k].lane,
                       seen |-> now]]

\* Mutant: the oldest tokens go, those of the request included.
GoesFirstByAge(all, current, k, j) == all[k].seen < all[j].seen

GoesFirst(all, current, k, j) ==
    \/ k \notin current /\ j \in current
    \/ (k \in current <=> j \in current) /\ all[k].seen < all[j].seen

\* The victims are the first in that order, as many as there are too many; ties
\* fall either way.
Kept(all, current) ==
    {keep \in SUBSET DOMAIN all :
        /\ Cardinality(keep) = IF Cardinality(DOMAIN all) > MaxTokens THEN MaxTokens
                               ELSE Cardinality(DOMAIN all)
        /\ \A k \in keep, j \in DOMAIN all \ keep : ~ GoesFirst(all, current, k, j)}

\* ingest_tokens_into
Ingest(lanes, now) ==
    LET all == Sighted(lanes, now) IN
    \E keep \in Kept(all, DOMAIN lanes) : ledger' = Restrict(all, keep)

-----------------------------------------------------------------------------
(* Actions.                                                                *)

\* A request reads the clock; then it is parsed outside the lock.  What it holds
\* is chosen when it takes the lock, since nothing depends on it before.
Arrive(a) ==
    /\ a \notin DOMAIN arrived /\ clock < MaxRequests
    /\ clock' = clock + 1
    /\ arrived' = Put(arrived, a, [now |-> clock + 1, late |-> 0])
    /\ UNCHANGED <<records, tracked, anchors, ledger, history>>

Without(f, k) == Restrict(f, DOMAIN f \ {k})

\* What is still to take the lock, after another request did.
Overtaken(a) == [b \in DOMAIN arrived \ {a} |-> [arrived[b] EXCEPT !.late = @ + 1]]

\* record_llm_request, under the lock.
RecordRequest(a, t) ==
    /\ a \in DOMAIN arrived
    /\ \A b \in DOMAIN arrived \ {a} : arrived[b].late < MaxOvertaken
    /\ LET now   == arrived[a].now
           id    == ConversationOf(a, t)
           turn  == Before(id).turns + 1
           all   == Put(tracked, id, After(id, t, now))
           gone  == Evict(all)
           known == shown[id] \cup SurfacesIn(t)
       IN
       /\ Ingest(Lanes(t), now)
       /\ records' = Pushed([conversation |-> id, turn |-> turn, human |-> all[id].human,
                             request |-> t, reply |-> {}, delta |-> Delta(id, turn, t)])
       /\ tracked' = Restrict(all, DOMAIN all \ gone)
       /\ anchors' = LET moved == AnchorsWith(a, t, id) IN Restrict(moved, DOMAIN moved \ gone)
       /\ reminted' = IF /\ a \in Anonymous /\ AnchorSeq(t) # <<>>
                         /\ Lineages(AnchorSeq(t)) = {} /\ id \in DOMAIN anchors
                      THEN reminted \cup {id} ELSE reminted \ gone
       /\ latest' = [b \in Anonymous |->
                        CASE b = a -> [id |-> id, seq |-> AnchorSeq(t)]
                          [] b # a /\ latest[b].id \in gone -> [id |-> Unknown, seq |-> <<>>]
                          [] OTHER -> latest[b]]
       /\ shown' = [shown EXCEPT ![id] = known]
    /\ arrived' = Overtaken(a)
    /\ UNCHANGED clock

\* record_response and the stream capture: the reply, in the form in which the
\* next request carries it.
Capture(i, s) ==
    /\ records[i].reply = {}
    /\ clock < MaxRequests \* bound: another request follows
    /\ records' = [records EXCEPT ![i].reply = {s}]
    /\ shown' = [shown EXCEPT ![records[i].conversation] = @ \cup {s}]
    /\ UNCHANGED <<clock, arrived, tracked, anchors, ledger, latest, reminted>>

\* ingest_session_tokens, for a token count: masked and forwarded, not recorded.
CountTokens(t) ==
    /\ clock < MaxRequests /\ Tokens(t) # {}
    /\ clock' = clock + 1
    /\ Ingest([k \in Tokens(t) |-> 0], clock + 1)
    /\ UNCHANGED <<arrived, records, tracked, anchors, history>>

Init ==
    /\ clock = 0 /\ arrived = <<>> /\ records = <<>>
    /\ tracked = <<>> /\ anchors = <<>> /\ ledger = <<>>
    /\ latest = [a \in Anonymous |-> [id |-> Unknown, seq |-> <<>>]]
    /\ reminted = {} /\ shown = [id \in Ids |-> {}]

Next ==
    \/ \E a \in Agents : Arrive(a)
    \/ \E a \in Agents : \E t \in SentBy[a] : RecordRequest(a, t)
    \/ \E i \in DOMAIN records, s \in Replies : Capture(i, s)
    \/ \E t \in Transcripts : CountTokens(t)

Spec == Init /\ [][Next]_vars

-----------------------------------------------------------------------------
(* Properties.                                                             *)

Diverged(s, u) == ~ IsPrefix(s, u) /\ ~ IsPrefix(u, s)

\* The maps stay within their caps (TypeOK), and what the ring shows is still
\* tracked (evict_stale_conversation_state never picks it), so within a
\* conversation its turns are numbered in the order in which they were recorded,
\* without repetition, and human turns never go back.  Agents without an id whose
\* transcripts have diverged are kept apart, whatever they have in common and
\* however their requests interleave, unless a minted id was already in use.
ConversationsHold ==
    /\ TypeOK
    /\ \A i \in DOMAIN records : records[i].conversation \in DOMAIN tracked
    /\ \A i, j \in DOMAIN records :
          (i < j /\ records[i].conversation = records[j].conversation) =>
              records[i].turn > records[j].turn /\ records[i].human >= records[j].human
    /\ \A a, b \in Anonymous :
          (Diverged(latest[a].seq, latest[b].seq) /\ latest[a].id \notin reminted)
              => latest[a].id # latest[b].id

\* "Over-show, never hide": what a delta leaves out was shown in an earlier record
\* of the same conversation, in a request or in a reply that was captured.
DeltaNeverHides ==
    [][\A a \in DOMAIN arrived :
          LET r == records'[1] IN
          (a \notin DOMAIN arrived' /\ r.delta.kind = "against") =>
              SurfacesIn(r.request) \ r.delta.added \subseteq shown[r.conversation]]_vars

\* Every value of a request that is recorded is in the ledger, also when newer
\* requests overtook it at the limit, in at least the lane it has in this request;
\* and no lane is ever demoted.
LedgerKeepsLive ==
    [][/\ \A a \in DOMAIN arrived :
             LET t == records'[1].request IN
             a \notin DOMAIN arrived' =>
                 /\ Cardinality(Tokens(t)) <= MaxTokens => Tokens(t) \subseteq DOMAIN ledger'
                 /\ \A k \in Tokens(t) \cap DOMAIN ledger' : ledger'[k].lane >= LaneIn(t, k)
       /\ \A k \in DOMAIN ledger \cap DOMAIN ledger' : ledger'[k].lane >= ledger[k].lane]_vars

=============================================================================

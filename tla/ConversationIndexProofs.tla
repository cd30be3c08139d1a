----------------------- MODULE ConversationIndexProofs -----------------------
(***************************************************************************)
(* The monitor's sorting of requests, for any agents, transcripts and caps *)
(* of the declared kind.  Three strands: what the ring shows is tracked    *)
(* and numbered in order, because a conversation in the ring is never the  *)
(* stalest one (SeenInv, RingInv); diverged transcripts are in different   *)
(* conversations, because each is a prefix of its conversation's anchor    *)
(* (LineageInv); and what a delta leaves out was shown (ShownInv).         *)
(***************************************************************************)
EXTENDS ConversationIndex, FiniteSetTheorems, WellFoundedInduction, TLAPS

-----------------------------------------------------------------------------
(* The invariants *)

\* The maps are functions of finitely many keys.
MapsInv ==
    /\ arrived \in [DOMAIN arrived -> [now : 1 .. MaxRequests, late : 0 .. MaxOvertaken]]
    /\ tracked \in [DOMAIN tracked -> [turns : 1 .. MaxRequests, human : 0 .. MaxRequests,
                                       inputs : Nat, seen : 1 .. MaxRequests]]
    /\ anchors \in [DOMAIN anchors -> Seq(Surfaces)]
    /\ ledger \in [DOMAIN ledger -> [lane : 0 .. 6, seen : 1 .. MaxRequests]]
    /\ shown \in [Ids -> SUBSET Surfaces]
    /\ latest \in [Anonymous -> [id : Ids, seq : Seq(Surfaces)]]
    /\ IsFiniteSet(DOMAIN arrived) /\ IsFiniteSet(DOMAIN tracked) /\ IsFiniteSet(DOMAIN ledger)

\* Every turn took one of the requests that have arrived.
TurnsInv ==
    /\ Cardinality(DOMAIN arrived) <= clock
    /\ \A id \in DOMAIN tracked :
          /\ tracked[id].turns + Cardinality(DOMAIN arrived) <= clock
          /\ tracked[id].human <= tracked[id].turns

TypeInv == TypeOK /\ MapsInv /\ TurnsInv

\* The conversations seen after n.
SeenAfter(map, n) == {id \in DOMAIN map : map[id].seen > n}

\* No two requests read the same time, and what was seen since a request's
\* arrival has overtaken it.
SeenInv ==
    /\ \A a \in DOMAIN arrived :
          /\ arrived[a].now <= clock
          /\ Cardinality(SeenAfter(tracked, arrived[a].now)) <= arrived[a].late
          /\ \A b \in DOMAIN arrived \ {a} : arrived[a].now # arrived[b].now
          /\ \A id \in DOMAIN tracked : tracked[id].seen # arrived[a].now
    /\ \A id \in DOMAIN tracked :
          /\ tracked[id].seen <= clock
          /\ \A other \in DOMAIN tracked \ {id} : tracked[id].seen # tracked[other].seen

\* Few conversations were seen after one that the ring shows: those of the newer
\* records, and those that overtook its own.  Its counters are past those of all
\* its records.
RingInv ==
    \A i \in DOMAIN records :
        LET id == records[i].conversation IN
        /\ id \in DOMAIN tracked
        /\ Cardinality(SeenAfter(tracked, tracked[id].seen)) < MaxOvertaken + i
        /\ records[i].turn <= tracked[id].turns /\ records[i].human <= tracked[id].human
        /\ \A j \in DOMAIN records :
              (i < j /\ records[j].conversation = id) =>
                  records[i].turn > records[j].turn /\ records[i].human >= records[j].human

\* What an anonymous agent sent last is a prefix of its conversation's anchor,
\* as long as no newly minted id took the conversation over.
LineageInv ==
    \A a \in Anonymous :
        latest[a].seq # <<>> =>
            /\ latest[a].id \in DOMAIN anchors
            /\ latest[a].id \notin reminted => IsPrefix(latest[a].seq, anchors[latest[a].id])

\* What a record holds was shown in its conversation.
ShownInv ==
    \A i \in DOMAIN records :
        SurfacesIn(records[i].request) \cup records[i].reply \subseteq shown[records[i].conversation]

-----------------------------------------------------------------------------
(* The best of a set, and what is finite *)

\* Something has the least value.
LEMMA LeastExists ==
    ASSUME NEW S, S # {}, NEW f \in [S -> Nat]
    PROVE  \E x \in S : \A y \in S : f[x] <= f[y]
<1>. DEFINE values == {f[x] : x \in S}
<1>1. values \subseteq Nat /\ values # {}
  OBVIOUS
<1>2. PICK n \in values : \A m \in values : ~ (<<m, n>> \in OpToRel(<, Nat))
  BY <1>1, NatLessThanWellFounded, WFMin
<1>3. \A m \in values : ~ (m < n)
  BY <1>1, <1>2, Zenon DEF OpToRel
<1>4. \A m \in values : n <= m
  BY <1>1, <1>3
<1>. QED  BY <1>4

\* Something has the greatest of the values up to n.
LEMMA GreatestExists ==
    ASSUME NEW S, S # {}, NEW f \in [S -> Nat], NEW n \in Nat, \A x \in S : f[x] <= n
    PROVE  \E x \in S : \A y \in S : f[y] <= f[x]
<1>. DEFINE below == [x \in S |-> n - f[x]]
<1>1. below \in [S -> Nat]
  OBVIOUS
<1>2. PICK x \in S : \A y \in S : below[x] <= below[y]
  BY <1>1, LeastExists
<1>3. \A y \in S : n - f[x] <= n - f[y]
  BY <1>2
<1>4. \A y \in S : f[y] <= f[x]
  BY <1>3
<1>. QED  BY <1>4

\* A function of finitely many keys has finitely many values.
LEMMA RangeFinite ==
    ASSUME NEW S, IsFiniteSet(S), NEW T, NEW f \in [S -> T]
    PROVE  IsFiniteSet(Range(f))
<1>1. f \in Surjection(S, Range(f))
  BY DEF Surjection, Range
<1>. QED  BY <1>1, FS_Surjection

\* One of finitely many things has the greatest value: otherwise "the next greater
\* value" would map the values one to one to those that are not the least.
LEMMA GreatestOfFinite ==
    ASSUME NEW S, S # {}, IsFiniteSet(S), NEW f \in [S -> Nat]
    PROVE  \E x \in S : \A y \in S : f[y] <= f[x]
<1>. DEFINE V == Range(f)
<1>1. V \subseteq Nat /\ V # {} /\ V = {f[x] : x \in S}
  BY DEF Range
<1>2. IsFiniteSet(V)
  BY RangeFinite
<1>. HIDE DEF V
<1>3. \A U \in SUBSET V : U # {} => \E u \in U : \A w \in U : u <= w
  <2>. SUFFICES ASSUME NEW U \in SUBSET V, U # {} PROVE \E u \in U : \A w \in U : u <= w
    OBVIOUS
  <2>. DEFINE g == [u \in U |-> u]
  <2>1. g \in [U -> Nat]
    BY <1>1
  <2>. HIDE DEF g
  <2>2. PICK u \in U : \A w \in U : g[u] <= g[w]
    BY <2>1, LeastExists
  <2>. QED  BY <2>2 DEF g
<1>4. SUFFICES ASSUME \A v \in V : \E w \in V : v < w PROVE FALSE
  <2>1. CASE \A v \in V : \E w \in V : v < w
    BY <1>4, <2>1
  <2>2. CASE \E v \in V : \A w \in V : ~ (v < w)
    BY <1>1, <2>2
  <2>. QED  BY <2>1, <2>2
<1>. DEFINE Follows(v, w) == v < w /\ \A u \in V : v < u => w <= u
            next == [v \in V |-> CHOOSE w \in V : Follows(v, w)]
<1>5. \A v \in V : next[v] \in V /\ Follows(v, next[v])
  <2>. SUFFICES ASSUME NEW v \in V PROVE next[v] \in V /\ Follows(v, next[v])
    OBVIOUS
  <2>. DEFINE U == {u \in V : v < u}
  <2>1. U # {} /\ U \in SUBSET V
    BY <1>4
  <2>2. PICK w \in U : \A u \in U : w <= u
    BY <1>3, <2>1
  <2>3. w \in V /\ Follows(v, w)
    BY <2>2
  <2>. QED  BY <2>3
<1>6. PICK m \in V : \A v \in V : m <= v
  BY <1>1, <1>3
<1>7. next \in [V -> V \ {m}]
  <2>. SUFFICES ASSUME NEW v \in V PROVE next[v] \in V \ {m}
    OBVIOUS
  <2>1. next[v] \in V /\ v < next[v]
    BY <1>5
  <2>2. m <= v /\ m \in Nat /\ v \in Nat
    BY <1>1, <1>6
  <2>. HIDE DEF next
  <2>. QED  BY <2>1, <2>2
<1>8. \A v, w \in V : next[v] = next[w] => v = w
  <2>. SUFFICES ASSUME NEW v \in V, NEW w \in V, next[v] = next[w] PROVE v = w
    OBVIOUS
  <2>1. /\ v < next[v] /\ (v < w => next[v] <= w) /\ next[v] \in V
        /\ w < next[w] /\ (w < v => next[w] <= v)
    BY <1>5
  <2>2. v \in Nat /\ w \in Nat /\ next[v] \in Nat
    BY <1>1, <2>1
  <2>. HIDE DEF next
  <2>. QED  BY <2>1, <2>2
<1>. HIDE DEF next, Follows
<1>9. next \in Injection(V, V \ {m})
  BY <1>7, <1>8 DEF Injection, IsInjective
<1>10. IsFiniteSet(V \ {m}) /\ Cardinality(V \ {m}) = Cardinality(V) - 1
  BY <1>2, <1>6, FS_RemoveElement
<1>11. Cardinality(V) <= Cardinality(V \ {m})
  BY <1>9, <1>10, FS_Injection
<1>. QED  BY <1>2, <1>10, <1>11, FS_CardinalityType

-----------------------------------------------------------------------------
(* Transcripts *)

\* The surfaces of a transcript, and how many of them are of some kind.
LEMMA TranscriptFacts ==
    ASSUME NEW t \in Transcripts, NEW S
    PROVE  /\ Content(t) \in Seq(Surfaces) /\ AnchorSeq(t) \in Seq(Surfaces)
           /\ SurfacesIn(t) \subseteq Surfaces /\ IsFiniteSet(SurfacesIn(t))
           /\ CountIn(t, S) \in 0 .. Len(Content(t))
<1>1. t \in Transcript
  BY TranscriptAssumption DEF Transcripts
<1>2. t.system \in Seq(Surfaces) /\ t.talk \in Seq(Surfaces)
  BY <1>1, SurfaceAssumption DEF Transcript
<1>3. Content(t) \in Seq(Surfaces) /\ AnchorSeq(t) \in Seq(Surfaces)
  BY <1>2 DEF Content, AnchorSeq
<1>. DEFINE c == Content(t)
            n == Len(c)
<1>4. n \in Nat /\ DOMAIN c = 1 .. n /\ c \in [1 .. n -> Surfaces]
  BY <1>3
<1>5. IsFiniteSet(1 .. n) /\ Cardinality(1 .. n) = n
  BY <1>4, FS_Interval
<1>6. SurfacesIn(t) \subseteq Surfaces
  BY <1>4 DEF SurfacesIn, Range
<1>7. IsFiniteSet(SurfacesIn(t))
  BY <1>4, <1>5, RangeFinite DEF SurfacesIn
<1>8. CountIn(t, S) \in 0 .. n
  <2>. DEFINE hits == {i \in DOMAIN c : c[i] \in S}
  <2>1. hits \in SUBSET (1 .. n)
    BY <1>4
  <2>2. IsFiniteSet(hits) /\ Cardinality(hits) <= n
    BY <2>1, <1>5, FS_Subset
  <2>3. Cardinality(hits) \in Nat
    BY <2>2, FS_CardinalityType
  <2>. QED  BY <2>2, <2>3, <1>4 DEF CountIn
<1>. QED  BY <1>3, <1>6, <1>7, <1>8

\* A request masks finitely many values.
LEMMA TokensFinite == ASSUME NEW t \in Transcripts PROVE IsFiniteSet(Tokens(t))
<1>1. SurfacesIn(t) \subseteq Surfaces /\ IsFiniteSet(SurfacesIn(t))
  BY TranscriptFacts
<1>. DEFINE f == [s \in SurfacesIn(t) |-> TokensOf[s]]
<1>2. f \in [SurfacesIn(t) -> {TokensOf[s] : s \in SurfacesIn(t)}]
  OBVIOUS
<1>3. IsFiniteSet(Range(f))
  BY <1>1, <1>2, RangeFinite
<1>4. Range(f) = {TokensOf[s] : s \in SurfacesIn(t)}
  BY DEF Range
<1>5. \A T \in {TokensOf[s] : s \in SurfacesIn(t)} : IsFiniteSet(T)
  BY <1>1, RankAssumption
<1>. QED  BY <1>3, <1>4, <1>5, FS_UNION DEF Tokens

\* The lane of a token is that of a surface it is in, and of none it is above.
LEMMA LaneFacts ==
    ASSUME NEW t \in Transcripts, NEW k \in Tokens(t)
    PROVE  /\ LaneIn(t, k) \in 1 .. 6
           /\ \A s \in SurfacesIn(t) : k \in TokensOf[s] => LaneOf[s] <= LaneIn(t, k)
<1>. DEFINE holders == {x \in SurfacesIn(t) : k \in TokensOf[x]}
            lanes   == {LaneOf[s] : s \in holders}
            Top(n)  == \A s \in holders : LaneOf[s] <= n
<1>1. SurfacesIn(t) \subseteq Surfaces
  BY TranscriptFacts
<1>2. holders # {} /\ holders \subseteq Surfaces
  BY <1>1 DEF Tokens
<1>3. \A s \in holders : LaneOf[s] \in 1 .. 6
  BY <1>2, RankAssumption
<1>. DEFINE f == [s \in holders |-> LaneOf[s]]
<1>4. f \in [holders -> Nat] /\ \A s \in holders : f[s] <= 6
  BY <1>3
<1>. HIDE DEF holders
<1>5. PICK s \in holders : \A u \in holders : f[u] <= f[s]
  BY <1>2, <1>4, GreatestExists
<1>6. LaneOf[s] \in lanes /\ Top(LaneOf[s])
  BY <1>5
<1>7. LaneIn(t, k) = CHOOSE n \in lanes : Top(n)
  BY DEF LaneIn, holders
<1>8. LaneIn(t, k) \in lanes /\ Top(LaneIn(t, k))
  BY <1>6, <1>7
<1>. QED  BY <1>3, <1>8 DEF holders

-----------------------------------------------------------------------------
(* Where a request belongs *)

\* Prefixes are transitive, and two prefixes of one sequence are comparable.
LEMMA PrefixFacts ==
    ASSUME NEW r \in Seq(Surfaces), NEW s \in Seq(Surfaces), NEW u \in Seq(Surfaces)
    PROVE  /\ IsPrefix(s, s)
           /\ IsPrefix(r, s) /\ IsPrefix(s, u) => IsPrefix(r, u)
           /\ IsPrefix(r, u) /\ IsPrefix(s, u) => IsPrefix(r, s) \/ IsPrefix(s, r)
<1>1. IsPrefix(s, s)
  BY DEF IsPrefix
<1>2. IsPrefix(r, s) /\ IsPrefix(s, u) => IsPrefix(r, u)
  BY DEF IsPrefix
<1>3. IsPrefix(r, u) /\ IsPrefix(s, u) => IsPrefix(r, s) \/ IsPrefix(s, r)
  BY DEF IsPrefix
<1>. QED  BY <1>1, <1>2, <1>3

\* A transcript that continues a lineage joins one, and its anchor is the longest.
LEMMA JoinedFacts ==
    ASSUME MapsInv, NEW seq \in Seq(Surfaces), Lineages(seq) # {}
    PROVE  Joined(seq) \in Lineages(seq)
<1>. DEFINE f == [id \in Lineages(seq) |-> Len(anchors[id])]
<1>1. f \in [Lineages(seq) -> Nat] /\ Len(seq) \in Nat
  BY DEF Lineages, MapsInv
<1>2. \A id \in Lineages(seq) : f[id] <= Len(seq)
  BY DEF Lineages, IsPrefix
<1>3. PICK id \in Lineages(seq) : \A other \in Lineages(seq) : f[other] <= f[id]
  BY <1>1, <1>2, GreatestExists
<1>4. \A other \in Lineages(seq) : Len(anchors[other]) <= Len(anchors[id])
  BY <1>3
<1>. QED  BY <1>4 DEF Joined

\* The id is one of the program's, and it is the one of a lineage or a new one.
LEMMA ConversationFacts ==
    ASSUME MapsInv, DOMAIN anchors \subseteq Ids,
           NEW a \in Agents, NEW t \in SentBy[a]
    PROVE  /\ t \in Transcripts /\ ConversationOf(a, t) \in Ids
           /\ a \notin Named /\ AnchorSeq(t) # <<>> /\ Lineages(AnchorSeq(t)) # {}
                 => ConversationOf(a, t) \in Lineages(AnchorSeq(t))
<1>. DEFINE seq == AnchorSeq(t)
<1>1. t \in Transcripts
  BY DEF Transcripts
<1>2. seq \in Seq(Surfaces)
  BY <1>1, TranscriptFacts
<1>3. CASE a \in Named
  BY <1>1, <1>3 DEF ConversationOf, Ids
<1>4. CASE a \notin Named /\ seq = <<>>
  BY <1>1, <1>4 DEF ConversationOf, Ids
<1>5. CASE a \notin Named /\ seq # <<>> /\ Lineages(seq) # {}
  <2>1. ConversationOf(a, t) = Joined(seq)
    BY <1>5 DEF ConversationOf
  <2>2. Joined(seq) \in Lineages(seq)
    BY <1>2, <1>5, JoinedFacts
  <2>3. Lineages(seq) \subseteq Ids
    BY DEF Lineages
  <2>. QED  BY <1>1, <2>1, <2>2, <2>3
<1>6. CASE a \notin Named /\ seq # <<>> /\ Lineages(seq) = {}
  <2>1. ConversationOf(a, t) = Minted(seq)
    BY <1>6 DEF ConversationOf
  <2>2. Minted(seq) \in {BaseId(seq), DigestId(seq)}
    BY DEF Minted
  <2>3. {BaseId(seq), DigestId(seq)} \subseteq Ids
    BY <1>1, <1>6 DEF Ids
  <2>. QED  BY <1>1, <1>6, <2>1, <2>2, <2>3
<1>. QED  BY <1>3, <1>4, <1>5, <1>6

-----------------------------------------------------------------------------
(* What is tracked *)

\* What is tracked of a conversation.
TrackedType == [turns : 1 .. MaxRequests, human : 0 .. MaxRequests,
                inputs : Nat, seen : 1 .. MaxRequests]

\* What is tracked before the eviction.
All(a, t) == LET id == ConversationOf(a, t) IN Put(tracked, id, After(id, t, arrived[a].now))

\* The counters of the conversation that a request is put into.
LEMMA AfterFacts ==
    ASSUME TypeInv, NEW a \in DOMAIN arrived, NEW t \in Transcripts, NEW id,
           NEW after, after = After(id, t, arrived[a].now)
    PROVE  /\ after \in TrackedType /\ after.seen = arrived[a].now
           /\ after.turns = Before(id).turns + 1 /\ after.human >= Before(id).human
           /\ after.turns + Cardinality(DOMAIN arrived) <= clock + 1 /\ after.human <= after.turns
           /\ Before(id).turns \in Nat /\ Before(id).human \in Nat
<1>1. /\ arrived[a].now \in 1 .. MaxRequests /\ clock \in 0 .. MaxRequests
      /\ Cardinality(DOMAIN arrived) \in Nat \ {0} /\ MaxRequests \in Nat
  <2>1. IsFiniteSet(DOMAIN arrived) /\ DOMAIN arrived # {}
    BY DEF TypeInv, MapsInv
  <2>2. Cardinality(DOMAIN arrived) \in Nat \ {0}
    BY <2>1, FS_CardinalityType, FS_EmptySet
  <2>. QED  BY <2>2, SizeAssumption DEF TypeInv, TypeOK
<1>2. /\ Before(id).turns \in Nat /\ Before(id).human \in Nat /\ Before(id).inputs \in Nat
      /\ Before(id).turns + Cardinality(DOMAIN arrived) <= clock
      /\ Before(id).human <= Before(id).turns
  <2>1. CASE id \in DOMAIN tracked
    <3>1. Before(id) = tracked[id] /\ tracked[id] \in TrackedType
      BY <2>1 DEF Before, TypeInv, MapsInv, TrackedType
    <3>. QED  BY <2>1, <3>1 DEF TypeInv, TurnsInv, TrackedType
  <2>2. CASE id \notin DOMAIN tracked
    <3>1. Before(id) = [turns |-> 0, human |-> 0, inputs |-> 0, seen |-> 0]
      BY <2>2 DEF Before
    <3>. QED  BY <1>1, <3>1 DEF TypeInv, TurnsInv
  <2>. QED  BY <2>1, <2>2
<1>3. PromptsIn(t) \in Nat
  BY TranscriptFacts DEF PromptsIn
<1>4. /\ after.turns = Before(id).turns + 1 /\ after.seen = arrived[a].now
      /\ after.inputs = PromptsIn(t)
      /\ after.human \in {Before(id).human, Before(id).human + 1}
      /\ after = [turns |-> after.turns, human |-> after.human,
                  inputs |-> after.inputs, seen |-> after.seen]
  BY DEF After
<1>5. after.turns \in 1 .. MaxRequests /\ after.human \in 0 .. MaxRequests
  BY <1>1, <1>2, <1>4
<1>6. after \in TrackedType
  BY <1>1, <1>3, <1>4, <1>5 DEF TrackedType
<1>. QED  BY <1>1, <1>2, <1>4, <1>6

\* Only the conversation of the request changes, and it is the one that is new.
LEMMA AllFacts ==
    ASSUME TypeInv, NEW a \in DOMAIN arrived, NEW t \in SentBy[a]
    PROVE  LET id  == ConversationOf(a, t)
               all == All(a, t)
           IN
           /\ a \in Agents /\ t \in Transcripts /\ id \in Ids
           /\ DOMAIN all = DOMAIN tracked \cup {id} /\ all \in [DOMAIN all -> TrackedType]
           /\ all[id] = After(id, t, arrived[a].now)
           /\ \A x \in DOMAIN tracked \ {id} : all[x] = tracked[x]
           /\ IsFiniteSet(DOMAIN all) /\ Cardinality(DOMAIN all) <= MaxTracked + 1
<1>. DEFINE id  == ConversationOf(a, t)
            all == All(a, t)
<1>1. a \in Agents /\ DOMAIN anchors \subseteq Ids
  BY DEF TypeInv, TypeOK
<1>2. t \in Transcripts /\ id \in Ids
  BY <1>1, ConversationFacts DEF TypeInv
<1>3. all = [x \in DOMAIN tracked \cup {id} |->
               IF x = id THEN After(id, t, arrived[a].now) ELSE tracked[x]]
  BY DEF All, Put
<1>. HIDE DEF id, all
<1>4. After(id, t, arrived[a].now) \in TrackedType
  BY <1>2, AfterFacts DEF id
<1>5. \A x \in DOMAIN tracked : tracked[x] \in TrackedType
  BY DEF TypeInv, MapsInv, TrackedType
<1>6. DOMAIN all = DOMAIN tracked \cup {id} /\ all \in [DOMAIN all -> TrackedType]
  BY <1>3, <1>4, <1>5
<1>7. IsFiniteSet(DOMAIN tracked) /\ Cardinality(DOMAIN tracked) \in Nat
      /\ Cardinality(DOMAIN tracked) <= MaxTracked
  BY FS_CardinalityType DEF TypeInv, TypeOK, MapsInv
<1>8. IsFiniteSet(DOMAIN all) /\ Cardinality(DOMAIN all) <= MaxTracked + 1
  <2>1. /\ IsFiniteSet(DOMAIN tracked \cup {id})
        /\ Cardinality(DOMAIN tracked \cup {id}) \in
              {Cardinality(DOMAIN tracked), Cardinality(DOMAIN tracked) + 1}
    BY <1>7, FS_AddElement
  <2>. QED  BY <1>6, <1>7, <2>1, SizeAssumption
<1>. QED  BY <1>1, <1>2, <1>3, <1>6, <1>8 DEF id, all

\* The eviction takes the one conversation that is stalest, when there is one too
\* many of them.
LEMMA EvictFacts ==
    ASSUME NEW all, all \in [DOMAIN all -> TrackedType], IsFiniteSet(DOMAIN all),
           Cardinality(DOMAIN all) <= MaxTracked + 1
    PROVE  /\ Evict(all) \subseteq DOMAIN all
           /\ Cardinality(DOMAIN all \ Evict(all)) <= MaxTracked
           /\ \A v \in Evict(all) :
                 /\ Cardinality(DOMAIN all) = MaxTracked + 1
                 /\ \A other \in DOMAIN all : all[v].seen <= all[other].seen
<1>1. Cardinality(DOMAIN all) \in Nat /\ MaxTracked \in Nat
  BY FS_CardinalityType, SizeAssumption
<1>2. CASE Cardinality(DOMAIN all) <= MaxTracked
  <2>1. Evict(all) = {} /\ DOMAIN all \ {} = DOMAIN all
    BY <1>2 DEF Evict
  <2>. QED  BY <1>2, <2>1
<1>3. CASE ~ (Cardinality(DOMAIN all) <= MaxTracked)
  <2>. DEFINE Stalest(id) == \A other \in DOMAIN all : all[id].seen <= all[other].seen
              v == CHOOSE id \in DOMAIN all : Stalest(id)
              f == [id \in DOMAIN all |-> all[id].seen]
  <2>1. Cardinality(DOMAIN all) = MaxTracked + 1 /\ DOMAIN all # {}
    BY <1>1, <1>3, FS_EmptySet
  <2>2. f \in [DOMAIN all -> Nat]
    BY DEF TrackedType
  <2>3. \E id \in DOMAIN all : \A other \in DOMAIN all : f[id] <= f[other]
    BY <2>1, <2>2, LeastExists
  <2>4. \E id \in DOMAIN all : Stalest(id)
    BY <2>3
  <2>5. v \in DOMAIN all /\ Stalest(v)
    BY <2>4
  <2>6. Evict(all) = {v}
    BY <1>3 DEF Evict
  <2>. HIDE DEF v
  <2>7. Cardinality(DOMAIN all \ {v}) = Cardinality(DOMAIN all) - 1
    BY <2>5, FS_RemoveElement
  <2>. QED  BY <1>1, <2>1, <2>5, <2>6, <2>7
<1>. QED  BY <1>2, <1>3

-----------------------------------------------------------------------------
(* The ledger *)

\* The size of what is kept: all of it, or as much as there is room for.
Room(all) == IF Cardinality(DOMAIN all) > MaxTokens THEN MaxTokens ELSE Cardinality(DOMAIN all)

\* What is known after a request is what was known and what is in it, the time
\* and the lane only ever raised.
LEMMA SightedFacts ==
    ASSUME TypeInv, NEW lanes, lanes \in [DOMAIN lanes -> 0 .. 6], IsFiniteSet(DOMAIN lanes),
           NEW now \in 1 .. MaxRequests, NEW all, all = Sighted(lanes, now)
    PROVE  /\ DOMAIN all = DOMAIN ledger \cup DOMAIN lanes /\ IsFiniteSet(DOMAIN all)
           /\ all \in [DOMAIN all -> [lane : 0 .. 6, seen : 1 .. MaxRequests]]
           /\ \A k \in DOMAIN lanes : all[k].lane >= lanes[k]
           /\ \A k \in DOMAIN ledger : all[k].lane >= ledger[k].lane
<1>1. ledger \in [DOMAIN ledger -> [lane : 0 .. 6, seen : 1 .. MaxRequests]]
      /\ IsFiniteSet(DOMAIN ledger)
  BY DEF TypeInv, MapsInv
<1>2. DOMAIN all = DOMAIN ledger \cup DOMAIN lanes
  BY DEF Sighted
<1>3. IsFiniteSet(DOMAIN all)
  <2>1. IsFiniteSet(DOMAIN ledger \cup DOMAIN lanes)
    BY <1>1, FS_Union
  <2>. QED  BY <1>2, <2>1
<1>4. ASSUME NEW k \in DOMAIN all
      PROVE  /\ all[k] \in [lane : 0 .. 6, seen : 1 .. MaxRequests]
             /\ k \in DOMAIN lanes => all[k].lane >= lanes[k]
             /\ k \in DOMAIN ledger => all[k].lane >= ledger[k].lane
  <2>1. CASE k \notin DOMAIN lanes
    <3>1. all[k] = ledger[k] /\ k \in DOMAIN ledger
      BY <1>2, <1>4, <2>1 DEF Sighted
    <3>. QED  BY <1>1, <2>1, <3>1
  <2>2. CASE k \in DOMAIN lanes \ DOMAIN ledger
    <3>1. all[k] = [lane |-> lanes[k], seen |-> now]
      BY <1>2, <1>4, <2>2 DEF Sighted
    <3>. QED  BY <2>2, <3>1
  <2>3. CASE k \in DOMAIN lanes /\ k \in DOMAIN ledger
    <3>1. all[k] = [lane |-> IF lanes[k] > ledger[k].lane THEN lanes[k] ELSE ledger[k].lane,
                    seen |-> now]
      BY <1>2, <1>4, <2>3 DEF Sighted
    <3>. QED  BY <1>1, <2>3, <3>1
  <2>. QED  BY <2>1, <2>2, <2>3, <1>2
<1>5. all \in [DOMAIN all -> [lane : 0 .. 6, seen : 1 .. MaxRequests]]
  <2>1. all = [k \in DOMAIN all |-> all[k]]
    BY <1>2 DEF Sighted
  <2>. QED  BY <2>1, <1>4
<1>. QED  BY <1>2, <1>3, <1>4, <1>5

\* What stays in the ledger: as much as there is room for.
LEMMA IngestFacts ==
    ASSUME TypeInv, NEW lanes, lanes \in [DOMAIN lanes -> 0 .. 6], IsFiniteSet(DOMAIN lanes),
           NEW now \in 1 .. MaxRequests, NEW all, all = Sighted(lanes, now), Ingest(lanes, now)
    PROVE  \E keep \in Kept(all, DOMAIN lanes) :
              /\ keep \subseteq DOMAIN all /\ IsFiniteSet(keep)
              /\ Cardinality(keep) = Room(all) /\ Cardinality(keep) <= MaxTokens
              /\ DOMAIN ledger' = keep /\ \A k \in keep : ledger'[k] = all[k]
              /\ ledger' \in [keep -> [lane : 0 .. 6, seen : 1 .. MaxRequests]]
<1>1. /\ IsFiniteSet(DOMAIN all)
      /\ all \in [DOMAIN all -> [lane : 0 .. 6, seen : 1 .. MaxRequests]]
  BY SightedFacts
<1>2. PICK keep \in Kept(all, DOMAIN lanes) : ledger' = Restrict(all, keep)
  BY DEF Ingest
<1>3. keep \subseteq DOMAIN all /\ Cardinality(keep) = Room(all)
  BY DEF Kept, Room
<1>4. IsFiniteSet(keep)
  BY <1>1, <1>3, FS_Subset
<1>5. Room(all) <= MaxTokens
  BY <1>1, FS_CardinalityType, SizeAssumption DEF Room
<1>6. ledger' = [k \in keep |-> all[k]]
  BY <1>2 DEF Restrict
<1>. QED  BY <1>1, <1>3, <1>4, <1>5, <1>6

-----------------------------------------------------------------------------
(* The record *)

\* The record that a request becomes.
NewRecord(a, t) ==
    LET id == ConversationOf(a, t) IN
    [conversation |-> id, turn |-> Before(id).turns + 1, human |-> All(a, t)[id].human,
     request |-> t, reply |-> {}, delta |-> Delta(id, Before(id).turns + 1, t)]

\* The newest record comes first, the others move by one.
LEMMA PushedFacts ==
    ASSUME records \in Seq(Record), Len(records) <= MaxRecords, NEW r, NEW ring, ring = Pushed(r)
    PROVE  /\ ring[1] = r /\ 1 \in DOMAIN ring /\ Len(ring) <= MaxRecords
           /\ DOMAIN ring = 1 .. Len(ring) /\ Len(ring) \in Nat
           /\ r \in Record => ring \in Seq(Record)
           /\ \A i \in DOMAIN ring : i # 1 => i - 1 \in DOMAIN records /\ ring[i] = records[i - 1]
<1>. DEFINE rest == IF Len(records) < MaxRecords THEN records ELSE Front(records)
<1>1. MaxRecords \in Nat \ {0}
  BY SizeAssumption
<1>2. /\ rest \in Seq(Record) /\ Len(rest) < MaxRecords
      /\ \A i \in DOMAIN rest : i \in DOMAIN records /\ rest[i] = records[i]
  <2>1. CASE Len(records) < MaxRecords
    BY <2>1
  <2>2. CASE ~ (Len(records) < MaxRecords)
    <3>1. rest = SubSeq(records, 1, Len(records) - 1)
      BY <2>2 DEF Front
    <3>. QED  BY <1>1, <2>2, <3>1
  <2>. QED  BY <2>1, <2>2
<1>3. ring = <<r>> \o rest
  BY DEF Pushed
<1>. HIDE DEF rest
<1>4. rest \in Seq(Record \cup {r}) /\ <<r>> \in Seq(Record \cup {r})
  BY <1>2
<1>5. /\ ring \in Seq(Record \cup {r}) /\ Len(ring) = Len(rest) + 1 /\ ring[1] = r
      /\ \A i \in DOMAIN ring : i # 1 => i - 1 \in DOMAIN rest /\ ring[i] = rest[i - 1]
  BY <1>3, <1>4
<1>6. r \in Record => ring \in Seq(Record)
  BY <1>5
<1>. QED  BY <1>1, <1>2, <1>5, <1>6

\* What a recorded request leaves behind, map by map.
LEMMA RecordFacts ==
    ASSUME TypeInv, NEW a, NEW t \in SentBy[a], RecordRequest(a, t)
    PROVE  LET id    == ConversationOf(a, t)
               all   == All(a, t)
               gone  == Evict(all)
               moved == AnchorsWith(a, t, id)
           IN
           /\ a \in DOMAIN arrived /\ arrived' = Overtaken(a) /\ clock' = clock
           /\ \A b \in DOMAIN arrived \ {a} : arrived[b].late < MaxOvertaken
           /\ Ingest(Lanes(t), arrived[a].now)
           /\ records' = Pushed(NewRecord(a, t))
           /\ tracked' = Restrict(all, DOMAIN all \ gone)
           /\ anchors' = Restrict(moved, DOMAIN moved \ gone)
           /\ shown' = [shown EXCEPT ![id] = shown[id] \cup SurfacesIn(t)]
  BY DEF RecordRequest, All, NewRecord

-----------------------------------------------------------------------------
(* Types *)

\* The lanes of a request's tokens.
LEMMA LanesFacts ==
    ASSUME NEW t \in Transcripts
    PROVE  /\ DOMAIN Lanes(t) = Tokens(t) /\ IsFiniteSet(DOMAIN Lanes(t))
           /\ Lanes(t) \in [DOMAIN Lanes(t) -> 0 .. 6]
           /\ \A k \in Tokens(t) : Lanes(t)[k] = LaneIn(t, k)
<1>1. Lanes(t) = [k \in Tokens(t) |-> LaneIn(t, k)]
  BY DEF Lanes
<1>2. \A k \in Tokens(t) : LaneIn(t, k) \in 0 .. 6
  BY LaneFacts
<1>. QED  BY <1>1, <1>2, TokensFinite

\* What overtook is counted, and one request fewer is on its way.
LEMMA OvertakenFacts ==
    ASSUME TypeInv, NEW a \in DOMAIN arrived,
           \A b \in DOMAIN arrived \ {a} : arrived[b].late < MaxOvertaken
    PROVE  /\ DOMAIN Overtaken(a) = DOMAIN arrived \ {a}
           /\ Overtaken(a) \in [DOMAIN Overtaken(a) -> [now : 1 .. MaxRequests, late : 0 .. MaxOvertaken]]
           /\ \A b \in DOMAIN Overtaken(a) :
                 /\ Overtaken(a)[b].now = arrived[b].now
                 /\ Overtaken(a)[b].late = arrived[b].late + 1
           /\ IsFiniteSet(DOMAIN Overtaken(a))
           /\ Cardinality(DOMAIN Overtaken(a)) + 1 = Cardinality(DOMAIN arrived)
           /\ Cardinality(DOMAIN Overtaken(a)) \in Nat
<1>1. Overtaken(a) = [b \in DOMAIN arrived \ {a} |-> [arrived[b] EXCEPT !.late = @ + 1]]
  BY DEF Overtaken
<1>2. arrived \in [DOMAIN arrived -> [now : 1 .. MaxRequests, late : 0 .. MaxOvertaken]]
      /\ IsFiniteSet(DOMAIN arrived)
  BY DEF TypeInv, MapsInv
<1>3. ASSUME NEW b \in DOMAIN arrived \ {a}
      PROVE  /\ Overtaken(a)[b] \in [now : 1 .. MaxRequests, late : 0 .. MaxOvertaken]
             /\ Overtaken(a)[b].now = arrived[b].now
             /\ Overtaken(a)[b].late = arrived[b].late + 1
  <2>1. Overtaken(a)[b] = [arrived[b] EXCEPT !.late = @ + 1]
    BY <1>1
  <2>2. arrived[b] \in [now : 1 .. MaxRequests, late : 0 .. MaxOvertaken]
        /\ arrived[b].late < MaxOvertaken
    BY <1>2
  <2>. QED  BY <2>1, <2>2, SizeAssumption
<1>4. DOMAIN Overtaken(a) = DOMAIN arrived \ {a}
  BY <1>1
<1>5. Overtaken(a) \in [DOMAIN Overtaken(a) -> [now : 1 .. MaxRequests, late : 0 .. MaxOvertaken]]
  <2>1. Overtaken(a) = [b \in DOMAIN arrived \ {a} |-> Overtaken(a)[b]]
    BY <1>1
  <2>. QED  BY <1>3, <1>4, <2>1
<1>6. /\ IsFiniteSet(DOMAIN arrived \ {a}) /\ Cardinality(DOMAIN arrived) \in Nat
      /\ Cardinality(DOMAIN arrived \ {a}) = Cardinality(DOMAIN arrived) - 1
      /\ Cardinality(DOMAIN arrived \ {a}) \in Nat
  BY <1>2, FS_RemoveElement, FS_CardinalityType
<1>. QED  BY <1>3, <1>4, <1>5, <1>6

\* A delta adds surfaces of the request.
LEMMA DeltaType ==
    ASSUME NEW id, NEW turn, NEW t \in Transcripts
    PROVE  Delta(id, turn, t) \in [kind : {"first", "unavailable", "against"}, added : SUBSET Surfaces]
<1>1. CASE Predecessors(id, turn) # {}
  <2>. DEFINE added == SurfacesIn(t) \ (SurfacesIn(Predecessor(id, turn, t).request)
                                        \cup Predecessor(id, turn, t).reply)
  <2>1. Delta(id, turn, t) = [kind |-> "against", added |-> added]
    BY <1>1 DEF Delta
  <2>2. added \subseteq Surfaces
    BY TranscriptFacts
  <2>. QED  BY <2>1, <2>2
<1>2. CASE Predecessors(id, turn) = {} /\ turn = 1
  BY <1>2 DEF Delta
<1>3. CASE Predecessors(id, turn) = {} /\ turn # 1
  BY <1>3 DEF Delta
<1>. QED  BY <1>1, <1>2, <1>3

\* What a request becomes is a record.
LEMMA NewRecordFacts ==
    ASSUME TypeInv, NEW a \in DOMAIN arrived, NEW t \in SentBy[a],
           NEW id, id = ConversationOf(a, t), NEW r, r = NewRecord(a, t)
    PROVE  /\ r \in Record /\ r.conversation = id /\ r.request = t /\ r.reply = {}
           /\ r.turn = All(a, t)[id].turns /\ r.human = All(a, t)[id].human
           /\ r.turn = Before(id).turns + 1 /\ r.human >= Before(id).human
           /\ r.delta = Delta(id, r.turn, t)
<1>. DEFINE after == After(id, t, arrived[a].now)
            all   == All(a, t)
<1>. HIDE DEF all
<1>1. t \in Transcripts /\ id \in Ids /\ all[id] = after
  <2>1. t \in Transcripts /\ id \in Ids
    BY AllFacts
  <2>2. all[id] = after
    BY DEF all, All, Put
  <2>. QED  BY <2>1, <2>2
<1>2. /\ after \in TrackedType /\ after.turns = Before(id).turns + 1
      /\ after.human >= Before(id).human
  BY <1>1, AfterFacts
<1>3. r = [conversation |-> id, turn |-> after.turns, human |-> after.human,
           request |-> t, reply |-> {}, delta |-> Delta(id, after.turns, t)]
  BY <1>1, <1>2 DEF NewRecord, all
<1>4. Delta(id, after.turns, t)
         \in [kind : {"first", "unavailable", "against"}, added : SUBSET Surfaces]
  BY <1>1, DeltaType
<1>5. after.turns \in 1 .. MaxRequests /\ after.human \in 0 .. MaxRequests
  BY <1>2 DEF TrackedType
<1>. HIDE DEF after
<1>6. r \in Record
  BY <1>1, <1>3, <1>4, <1>5 DEF Record
<1>. QED  BY <1>1, <1>2, <1>3, <1>6 DEF after, all

\* The eviction of a request's step, and the caps.
LEMMA GoneFacts ==
    ASSUME TypeInv, NEW a \in DOMAIN arrived, NEW t \in SentBy[a],
           NEW all, all = All(a, t), NEW gone, gone = Evict(all)
    PROVE  /\ gone \subseteq DOMAIN all /\ Cardinality(DOMAIN all \ gone) <= MaxTracked
           /\ IsFiniteSet(DOMAIN all \ gone)
           /\ \A v \in gone : /\ Cardinality(DOMAIN all) = MaxTracked + 1
                              /\ \A other \in DOMAIN all : all[v].seen <= all[other].seen
<1>1. /\ all \in [DOMAIN all -> TrackedType]
      /\ IsFiniteSet(DOMAIN all) /\ Cardinality(DOMAIN all) <= MaxTracked + 1
  BY AllFacts
<1>2. /\ gone \subseteq DOMAIN all /\ Cardinality(DOMAIN all \ gone) <= MaxTracked
      /\ \A v \in gone : /\ Cardinality(DOMAIN all) = MaxTracked + 1
                         /\ \A other \in DOMAIN all : all[v].seen <= all[other].seen
  BY <1>1, EvictFacts
<1>3. IsFiniteSet(DOMAIN all \ gone)
  BY <1>1, FS_Difference
<1>. QED  BY <1>2, <1>3

\* No anchor is empty.
Filled(map) == \A id \in DOMAIN map : map[id] # <<>>

\* The request moves no anchor.
Still(a, t) == a \in Named \/ AnchorSeq(t) = <<>>

\* A minted or advanced anchor is the transcript of the request.
LEMMA AnchorFacts ==
    ASSUME TypeInv, NEW a, NEW t \in Transcripts
    PROVE  LET id    == ConversationOf(a, t)
               moved == AnchorsWith(a, t, id)
           IN
           /\ Still(a, t) => moved = anchors
           /\ ~ Still(a, t) =>
                 DOMAIN moved = DOMAIN anchors \cup {id} /\ moved[id] = AnchorSeq(t)
           /\ DOMAIN moved \subseteq DOMAIN anchors \cup {id} /\ moved \in [DOMAIN moved -> Seq(Surfaces)]
           /\ DOMAIN anchors \subseteq DOMAIN moved
           /\ \A x \in DOMAIN anchors : x # id => moved[x] = anchors[x]
           /\ Filled(moved)
<1>. DEFINE id    == ConversationOf(a, t)
            moved == AnchorsWith(a, t, id)
<1>. HIDE DEF id
<1>1. /\ anchors \in [DOMAIN anchors -> Seq(Surfaces)] /\ Filled(anchors)
      /\ AnchorSeq(t) \in Seq(Surfaces)
  BY TranscriptFacts DEF TypeInv, TypeOK, MapsInv, Filled
<1>2. CASE Still(a, t)
  <2>1. moved = anchors
    BY <1>2 DEF AnchorsWith, Still
  <2>. QED  BY <1>1, <1>2, <2>1 DEF id
<1>3. CASE ~ Still(a, t)
  <2>1. moved = [x \in DOMAIN anchors \cup {id} |-> IF x = id THEN AnchorSeq(t) ELSE anchors[x]]
    BY <1>3 DEF AnchorsWith, Put, Still
  <2>. HIDE DEF moved
  <2>2. DOMAIN moved = DOMAIN anchors \cup {id} /\ moved[id] = AnchorSeq(t)
    BY <2>1
  <2>3. \A x \in DOMAIN anchors : x # id => moved[x] = anchors[x]
    BY <2>1
  <2>4. moved \in [DOMAIN moved -> Seq(Surfaces)]
    BY <1>1, <2>1
  <2>5. Filled(moved)
    <3>1. \A x \in DOMAIN moved : x = id \/ (x \in DOMAIN anchors /\ moved[x] = anchors[x])
      BY <2>2, <2>3
    <3>2. moved[id] # <<>>
      BY <1>3, <2>2 DEF Still
    <3>. QED  BY <1>1, <3>1, <3>2, Zenon DEF Filled
  <2>. QED  BY <1>3, <2>2, <2>3, <2>4, <2>5 DEF moved, id
<1>. HIDE DEF moved
<1>4. QED  BY <1>2, <1>3 DEF moved, id

\* Recording a request keeps the types and the counts.
LEMMA RecordTypes ==
    ASSUME TypeInv, NEW a \in Agents, NEW t \in SentBy[a], RecordRequest(a, t),
           NEW id, id = ConversationOf(a, t), NEW all, all = All(a, t), NEW gone, gone = Evict(all),
           NEW moved, moved = AnchorsWith(a, t, id)
    PROVE  TypeInv'
<1>1. a \in DOMAIN arrived
  BY RecordFacts
<1>2. /\ t \in Transcripts /\ id \in Ids /\ DOMAIN all = DOMAIN tracked \cup {id}
      /\ all \in [DOMAIN all -> TrackedType] /\ all[id] = After(id, t, arrived[a].now)
      /\ \A x \in DOMAIN tracked \ {id} : all[x] = tracked[x]
  BY <1>1, AllFacts
<1>3. gone \subseteq DOMAIN all /\ Cardinality(DOMAIN all \ gone) <= MaxTracked
      /\ IsFiniteSet(DOMAIN all \ gone)
  BY <1>1, GoneFacts
<1>4. arrived' = Overtaken(a) /\ clock' = clock /\ clock \in 0 .. MaxRequests
  BY RecordFacts DEF TypeInv, TypeOK
<1>5. /\ DOMAIN arrived' = DOMAIN arrived \ {a}
      /\ arrived' \in [DOMAIN arrived' -> [now : 1 .. MaxRequests, late : 0 .. MaxOvertaken]]
      /\ IsFiniteSet(DOMAIN arrived') /\ Cardinality(DOMAIN arrived') \in Nat
      /\ Cardinality(DOMAIN arrived') + 1 = Cardinality(DOMAIN arrived)
  BY <1>1, <1>4, OvertakenFacts, RecordFacts
<1>6. records' \in Seq(Record) /\ Len(records') <= MaxRecords
  <2>1. records' = Pushed(NewRecord(a, t))
    BY RecordFacts
  <2>2. NewRecord(a, t) \in Record
    BY <1>1, NewRecordFacts
  <2>. QED  BY <2>1, <2>2, PushedFacts DEF TypeInv, TypeOK
<1>7. /\ DOMAIN tracked' = DOMAIN all \ gone /\ tracked' \in [DOMAIN tracked' -> TrackedType]
      /\ \A x \in DOMAIN tracked' : tracked'[x] = all[x]
  <2>1. tracked' = Restrict(all, DOMAIN all \ gone)
    BY RecordFacts
  <2>2. tracked' = [x \in DOMAIN all \ gone |-> all[x]]
    BY <2>1 DEF Restrict
  <2>. QED  BY <1>2, <2>2
<1>8. /\ DOMAIN anchors' \subseteq DOMAIN tracked' /\ anchors' \in [DOMAIN anchors' -> Seq(Surfaces)]
      /\ Filled(anchors')
  <2>1. anchors' = Restrict(moved, DOMAIN moved \ gone)
    BY RecordFacts
  <2>2. anchors' = [x \in DOMAIN moved \ gone |-> moved[x]]
    BY <2>1 DEF Restrict
  <2>3. DOMAIN moved \subseteq DOMAIN anchors \cup {id} /\ DOMAIN anchors \subseteq DOMAIN tracked
    BY <1>2, AnchorFacts DEF TypeInv, TypeOK
  <2>4. moved \in [DOMAIN moved -> Seq(Surfaces)]
    BY <1>2, AnchorFacts
  <2>5. Filled(moved)
    BY <1>2, AnchorFacts
  <2>6. DOMAIN anchors' \subseteq DOMAIN tracked'
    BY <1>2, <1>7, <2>2, <2>3
  <2>7. Filled(anchors')
    BY <2>2, <2>5, Zenon DEF Filled
  <2>. QED  BY <2>2, <2>4, <2>6, <2>7
<1>9. /\ ledger' \in [DOMAIN ledger' -> [lane : 0 .. 6, seen : 1 .. MaxRequests]]
      /\ IsFiniteSet(DOMAIN ledger') /\ Cardinality(DOMAIN ledger') <= MaxTokens
  <2>1. Ingest(Lanes(t), arrived[a].now) /\ arrived[a].now \in 1 .. MaxRequests
    BY <1>1, RecordFacts DEF TypeInv, MapsInv
  <2>2. IsFiniteSet(DOMAIN Lanes(t)) /\ Lanes(t) \in [DOMAIN Lanes(t) -> 0 .. 6]
    BY <1>2, LanesFacts
  <2>. QED  BY <2>1, <2>2, IngestFacts
<1>10. shown' \in [Ids -> SUBSET Surfaces]
  <2>1. shown' = [shown EXCEPT ![id] = shown[id] \cup SurfacesIn(t)]
    BY RecordFacts
  <2>2. SurfacesIn(t) \subseteq Surfaces /\ shown \in [Ids -> SUBSET Surfaces]
    BY <1>2, TranscriptFacts DEF TypeInv, MapsInv
  <2>. QED  BY <1>2, <2>1, <2>2
<1>11. latest' \in [Anonymous -> [id : Ids, seq : Seq(Surfaces)]]
  <2>1. latest' = [b \in Anonymous |->
                     CASE b = a -> [id |-> id, seq |-> AnchorSeq(t)]
                       [] b # a /\ latest[b].id \in gone -> [id |-> Unknown, seq |-> <<>>]
                       [] OTHER -> latest[b]]
    BY DEF RecordRequest, All
  <2>2. ASSUME NEW b \in Anonymous PROVE latest'[b] \in [id : Ids, seq : Seq(Surfaces)]
    <3>1. CASE b = a
      BY <1>2, <2>1, <3>1, TranscriptFacts
    <3>2. CASE b # a /\ latest[b].id \in gone
      BY <2>1, <3>2 DEF Ids
    <3>3. CASE b # a /\ latest[b].id \notin gone
      BY <2>1, <3>3 DEF TypeInv, MapsInv
    <3>. QED  BY <3>1, <3>2, <3>3
  <2>. QED  BY <2>1, <2>2
<1>12. TurnsInv'
  <2>1. Cardinality(DOMAIN arrived) <= clock
    BY DEF TypeInv, TurnsInv
  <2>2. ASSUME NEW x \in DOMAIN tracked'
        PROVE  /\ tracked'[x].turns + Cardinality(DOMAIN arrived') <= clock
               /\ tracked'[x].human <= tracked'[x].turns
    <3>1. tracked'[x] = all[x] /\ x \in DOMAIN all /\ all[x] \in TrackedType
      BY <1>2, <1>7
    <3>2. CASE x = id
      <4>1. /\ all[id].turns + Cardinality(DOMAIN arrived) <= clock + 1
            /\ all[id].human <= all[id].turns
        BY <1>1, <1>2, AfterFacts
      <4>. QED  BY <1>4, <1>5, <3>1, <3>2, <4>1 DEF TrackedType
    <3>3. CASE x # id
      <4>1. x \in DOMAIN tracked /\ all[x] = tracked[x]
        BY <1>2, <3>1, <3>3
      <4>2. /\ tracked[x].turns + Cardinality(DOMAIN arrived) <= clock
            /\ tracked[x].human <= tracked[x].turns
        BY <4>1 DEF TypeInv, TurnsInv
      <4>. QED  BY <1>4, <1>5, <3>1, <4>1, <4>2 DEF TrackedType
    <3>. QED  BY <3>2, <3>3
  <2>3. Cardinality(DOMAIN arrived') <= clock'
    BY <1>4, <1>5, <2>1
  <2>. QED  BY <1>4, <2>2, <2>3 DEF TurnsInv
<1>13. TypeOK'
  <2>1. \A b \in DOMAIN arrived' :
           b \in Agents /\ arrived'[b] \in [now : 1 .. MaxRequests, late : 0 .. MaxOvertaken]
    BY <1>5 DEF TypeInv, TypeOK
  <2>2. DOMAIN tracked' \subseteq Ids /\ Cardinality(DOMAIN tracked') <= MaxTracked
    BY <1>2, <1>3, <1>7 DEF TypeInv, TypeOK
  <2>. QED  BY <1>4, <1>6, <1>7, <1>8, <1>9, <2>1, <2>2 DEF TypeOK, TrackedType, Filled
<1>. QED  BY <1>3, <1>5, <1>7, <1>8, <1>9, <1>10, <1>11, <1>12, <1>13
          DEF TypeInv, MapsInv, TrackedType

\* A request that reads the clock is one more that is on its way.
LEMMA ArriveFacts ==
    ASSUME TypeInv, NEW a \in Agents, Arrive(a)
    PROVE  /\ a \notin DOMAIN arrived /\ clock' = clock + 1 /\ clock < MaxRequests
           /\ DOMAIN arrived' = DOMAIN arrived \cup {a}
           /\ arrived'[a] = [now |-> clock + 1, late |-> 0]
           /\ \A b \in DOMAIN arrived : arrived'[b] = arrived[b]
           /\ arrived' \in [DOMAIN arrived' -> [now : 1 .. MaxRequests, late : 0 .. MaxOvertaken]]
           /\ IsFiniteSet(DOMAIN arrived') /\ Cardinality(DOMAIN arrived) \in Nat
           /\ Cardinality(DOMAIN arrived') = Cardinality(DOMAIN arrived) + 1
<1>1. a \notin DOMAIN arrived /\ clock' = clock + 1 /\ clock < MaxRequests
  BY DEF Arrive
<1>2. arrived' = [x \in DOMAIN arrived \cup {a} |->
                    IF x = a THEN [now |-> clock + 1, late |-> 0] ELSE arrived[x]]
  BY DEF Arrive, Put
<1>3. /\ arrived \in [DOMAIN arrived -> [now : 1 .. MaxRequests, late : 0 .. MaxOvertaken]]
      /\ IsFiniteSet(DOMAIN arrived) /\ clock \in Nat /\ MaxRequests \in Nat /\ MaxOvertaken \in Nat
  BY SizeAssumption DEF TypeInv, TypeOK, MapsInv
<1>4. [now |-> clock + 1, late |-> 0] \in [now : 1 .. MaxRequests, late : 0 .. MaxOvertaken]
  BY <1>1, <1>3
<1>5. arrived' \in [DOMAIN arrived' -> [now : 1 .. MaxRequests, late : 0 .. MaxOvertaken]]
  BY <1>2, <1>3, <1>4
<1>6. /\ IsFiniteSet(DOMAIN arrived \cup {a}) /\ Cardinality(DOMAIN arrived) \in Nat
      /\ Cardinality(DOMAIN arrived \cup {a}) = Cardinality(DOMAIN arrived) + 1
  BY <1>1, <1>3, FS_AddElement, FS_CardinalityType
<1>. QED  BY <1>1, <1>2, <1>5, <1>6

\* A captured reply is added to its record and to what the conversation has shown.
LEMMA CaptureFacts ==
    ASSUME TypeInv, NEW i \in DOMAIN records, NEW s \in Replies, Capture(i, s)
    PROVE  /\ records[i] \in Record /\ records' \in Seq(Record) /\ Len(records') = Len(records)
           /\ DOMAIN records' = DOMAIN records
           /\ records'[i] = [records[i] EXCEPT !.reply = {s}]
           /\ \A j \in DOMAIN records : j # i => records'[j] = records[j]
           /\ shown' = [shown EXCEPT ![records[i].conversation]
                           = shown[records[i].conversation] \cup {s}]
           /\ UNCHANGED <<clock, arrived, tracked, anchors, ledger, latest, reminted>>
<1>. DEFINE h == [records[i] EXCEPT !.reply = {s}]
<1>1. /\ records' = [records EXCEPT ![i] = h]
      /\ UNCHANGED <<clock, arrived, tracked, anchors, ledger, latest, reminted>>
      /\ shown' = [shown EXCEPT ![records[i].conversation] = shown[records[i].conversation] \cup {s}]
  BY DEF Capture
<1>2. records \in Seq(Record) /\ records[i] \in Record
  BY DEF TypeInv, TypeOK
<1>3. h \in Record
  BY <1>2 DEF Record
<1>. HIDE DEF h
<1>4. /\ records' \in Seq(Record) /\ Len(records') = Len(records)
      /\ DOMAIN records' = DOMAIN records /\ records'[i] = h
      /\ \A j \in DOMAIN records : j # i => records'[j] = records[j]
  BY <1>1, <1>2, <1>3
<1>. QED  BY <1>1, <1>2, <1>4 DEF h

\* A token count only touches the clock and the ledger.
LEMMA CountFacts ==
    ASSUME TypeInv, NEW t \in Transcripts, CountTokens(t)
    PROVE  /\ clock' = clock + 1 /\ clock' \in 1 .. MaxRequests
           /\ UNCHANGED <<arrived, records, tracked, anchors, latest, reminted, shown>>
           /\ \E lanes : /\ lanes = [k \in Tokens(t) |-> 0] /\ IsFiniteSet(DOMAIN lanes)
                         /\ lanes \in [DOMAIN lanes -> 0 .. 6]
                         /\ Ingest(lanes, clock')
<1>1. /\ clock' = clock + 1 /\ clock < MaxRequests
      /\ UNCHANGED <<arrived, records, tracked, anchors, latest, reminted, shown>>
      /\ Ingest([k \in Tokens(t) |-> 0], clock')
  BY DEF CountTokens, history
<1>2. clock \in 0 .. MaxRequests /\ MaxRequests \in Nat
  BY SizeAssumption DEF TypeInv, TypeOK
<1>. DEFINE lanes == [k \in Tokens(t) |-> 0]
<1>3. DOMAIN lanes = Tokens(t) /\ IsFiniteSet(Tokens(t)) /\ lanes \in [DOMAIN lanes -> 0 .. 6]
  BY TokensFinite
<1>. HIDE DEF lanes
<1>4. Ingest(lanes, clock')
  BY <1>1 DEF lanes
<1>5. lanes = [k \in Tokens(t) |-> 0]
  BY DEF lanes
<1>6. \E l : /\ l = [k \in Tokens(t) |-> 0] /\ IsFiniteSet(DOMAIN l)
             /\ l \in [DOMAIN l -> 0 .. 6] /\ Ingest(l, clock')
  BY <1>3, <1>4, <1>5
<1>. QED  BY <1>1, <1>2, <1>6

\* No map outgrows its cap, and every counter is one of the requests'.
LEMMA TypesHold == Spec => []TypeInv
<1>. USE SizeAssumption
<1>1. Init => TypeInv
  <2>. SUFFICES ASSUME Init PROVE TypeInv
    OBVIOUS
  <2>1. /\ clock = 0 /\ arrived = <<>> /\ records = <<>>
        /\ tracked = <<>> /\ anchors = <<>> /\ ledger = <<>>
        /\ latest = [a \in Anonymous |-> [id |-> Unknown, seq |-> <<>>]]
        /\ shown = [id \in Ids |-> {}]
    BY DEF Init
  <2>2. /\ DOMAIN arrived = {} /\ DOMAIN tracked = {} /\ DOMAIN anchors = {} /\ DOMAIN ledger = {}
        /\ records \in Seq(Record) /\ Len(records) = 0
    BY <2>1
  <2>3. IsFiniteSet({}) /\ Cardinality({}) = 0
    BY FS_EmptySet
  <2>4. Unknown \in Ids
    BY DEF Ids
  <2>5. TypeOK
    BY <2>1, <2>2, <2>3 DEF TypeOK
  <2>6. /\ arrived \in [{} -> [now : 1 .. MaxRequests, late : 0 .. MaxOvertaken]]
        /\ tracked \in [{} -> [turns : 1 .. MaxRequests, human : 0 .. MaxRequests,
                               inputs : Nat, seen : 1 .. MaxRequests]]
        /\ anchors \in [{} -> Seq(Surfaces)]
        /\ ledger \in [{} -> [lane : 0 .. 6, seen : 1 .. MaxRequests]]
    BY <2>1
  <2>7. /\ shown \in [Ids -> SUBSET Surfaces]
        /\ latest \in [Anonymous -> [id : Ids, seq : Seq(Surfaces)]]
    BY <2>1, <2>4
  <2>8. MapsInv
    BY <2>2, <2>3, <2>6, <2>7 DEF MapsInv
  <2>9. TurnsInv
    BY <2>1, <2>2, <2>3 DEF TurnsInv
  <2>. QED  BY <2>5, <2>8, <2>9 DEF TypeInv
<1>2. TypeInv /\ [Next]_vars => TypeInv'
  <2>. SUFFICES ASSUME TypeInv, [Next]_vars PROVE TypeInv'
    OBVIOUS
  <2>0. TypeOK /\ MapsInv /\ TurnsInv
    BY DEF TypeInv
  <2>1. ASSUME NEW a \in Agents, Arrive(a) PROVE TypeInv'
    <3>1. UNCHANGED <<records, tracked, anchors, ledger, latest, reminted, shown>>
      BY <2>1 DEF Arrive, history
    <3>2. clock' = clock + 1 /\ clock < MaxRequests /\ clock \in 0 .. MaxRequests
      BY <2>0, <2>1, ArriveFacts DEF TypeOK
    <3>3. /\ DOMAIN arrived' = DOMAIN arrived \cup {a} /\ IsFiniteSet(DOMAIN arrived')
          /\ arrived' \in [DOMAIN arrived' -> [now : 1 .. MaxRequests, late : 0 .. MaxOvertaken]]
          /\ Cardinality(DOMAIN arrived') = Cardinality(DOMAIN arrived) + 1
          /\ Cardinality(DOMAIN arrived) \in Nat
      BY <2>1, ArriveFacts
    <3>4. MapsInv'
      BY <2>0, <3>1, <3>3 DEF MapsInv
    <3>5. TurnsInv'
      <4>1. \A id \in DOMAIN tracked :
               tracked[id].turns \in Nat /\ tracked[id].human \in Nat
        BY <2>0 DEF MapsInv
      <4>2. Cardinality(DOMAIN arrived') <= clock'
        BY <2>0, <3>2, <3>3 DEF TurnsInv
      <4>3. \A id \in DOMAIN tracked : tracked[id].turns + Cardinality(DOMAIN arrived') <= clock'
        BY <2>0, <3>2, <3>3, <4>1 DEF TurnsInv
      <4>. QED  BY <2>0, <3>1, <4>2, <4>3 DEF TurnsInv
    <3>6. \A b \in DOMAIN arrived' :
             b \in Agents /\ arrived'[b] \in [now : 1 .. MaxRequests, late : 0 .. MaxOvertaken]
      BY <2>0, <3>3 DEF TypeOK
    <3>7. TypeOK'
      BY <2>0, <3>1, <3>2, <3>6 DEF TypeOK
    <3>. QED  BY <3>4, <3>5, <3>7 DEF TypeInv
  <2>2. ASSUME NEW a \in Agents, NEW t \in SentBy[a], RecordRequest(a, t) PROVE TypeInv'
    BY <2>2, RecordTypes
  <2>3. ASSUME NEW i \in DOMAIN records, NEW s \in Replies, Capture(i, s) PROVE TypeInv'
    <3>1. /\ records' \in Seq(Record) /\ Len(records') = Len(records) /\ records[i] \in Record
          /\ shown' = [shown EXCEPT ![records[i].conversation]
                          = shown[records[i].conversation] \cup {s}]
          /\ UNCHANGED <<clock, arrived, tracked, anchors, ledger, latest, reminted>>
      BY <2>3, CaptureFacts
    <3>2. shown' \in [Ids -> SUBSET Surfaces]
      BY <2>0, <3>1, SurfaceAssumption DEF MapsInv, Record
    <3>3. MapsInv'
      BY <2>0, <3>1, <3>2 DEF MapsInv
    <3>4. TypeOK' /\ TurnsInv'
      BY <2>0, <3>1 DEF TypeOK, TurnsInv
    <3>. QED  BY <3>3, <3>4 DEF TypeInv
  <2>4. ASSUME NEW t \in Transcripts, CountTokens(t) PROVE TypeInv'
    <3>1. /\ clock' = clock + 1 /\ clock' \in 1 .. MaxRequests
          /\ UNCHANGED <<arrived, records, tracked, anchors, latest, reminted, shown>>
      BY <2>4, CountFacts
    <3>2. PICK lanes : /\ IsFiniteSet(DOMAIN lanes) /\ lanes \in [DOMAIN lanes -> 0 .. 6]
                       /\ Ingest(lanes, clock')
      BY <2>4, CountFacts
    <3>3. /\ ledger' \in [DOMAIN ledger' -> [lane : 0 .. 6, seen : 1 .. MaxRequests]]
          /\ IsFiniteSet(DOMAIN ledger') /\ Cardinality(DOMAIN ledger') <= MaxTokens
      BY <3>1, <3>2, IngestFacts
    <3>4. MapsInv'
      BY <2>0, <3>1, <3>3 DEF MapsInv
    <3>5. TypeOK'
      BY <2>0, <3>1, <3>3 DEF TypeOK
    <3>6. TurnsInv'
      <4>1. Cardinality(DOMAIN arrived) \in Nat
        BY <2>0, FS_CardinalityType DEF MapsInv
      <4>. QED  BY <2>0, <3>1, <4>1 DEF TurnsInv, TypeOK, MapsInv
    <3>. QED  BY <3>4, <3>5, <3>6 DEF TypeInv
  <2>5. CASE UNCHANGED vars
    BY <2>0, <2>5 DEF TypeInv, TypeOK, MapsInv, TurnsInv, vars, history
  <2>. QED  BY <2>1, <2>2, <2>3, <2>4, <2>5 DEF Next
<1>. QED  BY <1>1, <1>2, PTL DEF Spec

-----------------------------------------------------------------------------
(* Who was seen since when *)

\* Only the conversation of the request has other counters.
LEMMA TrackedStep ==
    ASSUME TypeInv, NEW a \in Agents, NEW t \in SentBy[a], RecordRequest(a, t)
    PROVE  LET id   == ConversationOf(a, t)
               all  == All(a, t)
               gone == Evict(all)
           IN
           /\ DOMAIN tracked' = (DOMAIN tracked \cup {id}) \ gone
           /\ \A x \in DOMAIN tracked' : x # id => x \in DOMAIN tracked /\ tracked'[x] = tracked[x]
           /\ id \in DOMAIN tracked' => tracked'[id] = all[id]
           /\ all[id] \in TrackedType /\ all[id].seen = arrived[a].now
           /\ all[id].turns = Before(id).turns + 1 /\ all[id].human >= Before(id).human
<1>. DEFINE id    == ConversationOf(a, t)
            all   == All(a, t)
            gone  == Evict(all)
            after == After(id, t, arrived[a].now)
<1>. HIDE DEF id, all, gone, after
<1>1. a \in DOMAIN arrived /\ tracked' = Restrict(all, DOMAIN all \ gone)
  BY RecordFacts DEF all, gone
<1>2. tracked' = [x \in DOMAIN all \ gone |-> all[x]]
  BY <1>1 DEF Restrict
<1>3. /\ DOMAIN all = DOMAIN tracked \cup {id} /\ t \in Transcripts
      /\ \A x \in DOMAIN tracked \ {id} : all[x] = tracked[x]
  BY <1>1, AllFacts DEF id, all
<1>4. /\ after \in TrackedType /\ after.seen = arrived[a].now
      /\ after.turns = Before(id).turns + 1 /\ after.human >= Before(id).human
  BY <1>1, <1>3, AfterFacts DEF after
<1>5. all[id] = after
  BY <1>1, AllFacts DEF id, all, after
<1>. QED  BY <1>2, <1>3, <1>4, <1>5 DEF id, all, gone

\* One more conversation at most was seen after n, and none more since the request
\* arrived.
LEMMA SeenInAll ==
    ASSUME TypeInv, NEW a \in DOMAIN arrived, NEW t \in SentBy[a], NEW n \in Nat
    PROVE  LET id  == ConversationOf(a, t)
               new == SeenAfter(All(a, t), n)
               old == SeenAfter(tracked, n)
           IN
           /\ new \subseteq old \cup {id} /\ IsFiniteSet(new)
           /\ Cardinality(new) \in Nat /\ Cardinality(old) \in Nat
           /\ Cardinality(new) <= Cardinality(old) + 1
           /\ n >= arrived[a].now => Cardinality(new) <= Cardinality(old)
<1>. DEFINE id  == ConversationOf(a, t)
            all == All(a, t)
            old == SeenAfter(tracked, n)
            new == SeenAfter(all, n)
<1>1. /\ DOMAIN all = DOMAIN tracked \cup {id} /\ all[id] = After(id, t, arrived[a].now)
      /\ t \in Transcripts
  BY AllFacts
<1>2. \A x \in DOMAIN tracked \ {id} : all[x] = tracked[x]
  BY AllFacts
<1>3. all[id].seen = arrived[a].now
  BY <1>1, AfterFacts
<1>4. arrived[a].now \in Nat
  BY DEF TypeInv, MapsInv
<1>. HIDE DEF id, all
<1>5. new \subseteq old \cup {id}
  BY <1>1, <1>2 DEF SeenAfter
<1>6. n >= arrived[a].now => new \subseteq old
  BY <1>1, <1>2, <1>3, <1>4 DEF SeenAfter
<1>7. old \subseteq DOMAIN tracked /\ IsFiniteSet(DOMAIN tracked)
  BY DEF SeenAfter, TypeInv, MapsInv
<1>. HIDE DEF old, new
<1>8. IsFiniteSet(old) /\ Cardinality(old) \in Nat
  BY <1>7, FS_Subset, FS_CardinalityType
<1>9. /\ IsFiniteSet(old \cup {id}) /\ Cardinality(old \cup {id}) <= Cardinality(old) + 1
  BY <1>8, FS_AddElement
<1>10. IsFiniteSet(new) /\ Cardinality(new) <= Cardinality(old \cup {id})
  BY <1>5, <1>9, FS_Subset
<1>11. Cardinality(new) \in Nat /\ Cardinality(old \cup {id}) \in Nat
  BY <1>9, <1>10, FS_CardinalityType
<1>12. n >= arrived[a].now => Cardinality(new) <= Cardinality(old)
  BY <1>6, <1>8, FS_Subset
<1>13. Cardinality(new) <= Cardinality(old) + 1
  BY <1>8, <1>9, <1>10, <1>11
<1>. QED  BY <1>5, <1>8, <1>10, <1>11, <1>12, <1>13 DEF id, all, old, new

\* The eviction only takes away from it.
LEMMA SeenAfterGrows ==
    ASSUME TypeInv, NEW a \in Agents, NEW t \in SentBy[a], RecordRequest(a, t), NEW n \in Nat
    PROVE  LET after  == SeenAfter(tracked', n)
               before == SeenAfter(tracked, n)
           IN
           /\ Cardinality(after) \in Nat /\ Cardinality(after) <= Cardinality(SeenAfter(All(a, t), n))
           /\ Cardinality(before) \in Nat /\ Cardinality(after) <= Cardinality(before) + 1
<1>. DEFINE id  == ConversationOf(a, t)
            all == All(a, t)
            new == SeenAfter(all, n)
<1>1. a \in DOMAIN arrived
  BY RecordFacts
<1>2. /\ DOMAIN all = DOMAIN tracked \cup {id}
      /\ \A x \in DOMAIN tracked \ {id} : all[x] = tracked[x]
  BY <1>1, AllFacts
<1>3. /\ DOMAIN tracked' \subseteq DOMAIN tracked \cup {id}
      /\ \A x \in DOMAIN tracked' : x # id => x \in DOMAIN tracked /\ tracked'[x] = tracked[x]
      /\ id \in DOMAIN tracked' => tracked'[id] = all[id]
  BY TrackedStep
<1>4. /\ IsFiniteSet(new) /\ Cardinality(new) \in Nat /\ Cardinality(SeenAfter(tracked, n)) \in Nat
      /\ Cardinality(new) <= Cardinality(SeenAfter(tracked, n)) + 1
  BY <1>1, SeenInAll
<1>. HIDE DEF id, all
<1>5. SeenAfter(tracked', n) \subseteq new
  BY <1>2, <1>3 DEF SeenAfter
<1>. HIDE DEF new
<1>6. IsFiniteSet(SeenAfter(tracked', n)) /\ Cardinality(SeenAfter(tracked', n)) <= Cardinality(new)
  BY <1>4, <1>5, FS_Subset
<1>7. Cardinality(SeenAfter(tracked', n)) \in Nat
  BY <1>6, FS_CardinalityType
<1>. QED  BY <1>4, <1>6, <1>7 DEF new, all

\* Recording a request: it was overtaken by what was seen since it arrived.
LEMMA RecordSeen ==
    ASSUME TypeInv, TypeInv', SeenInv, NEW a \in Agents, NEW t \in SentBy[a], RecordRequest(a, t),
           NEW id, id = ConversationOf(a, t)
    PROVE  SeenInv'
<1>1. /\ a \in DOMAIN arrived /\ arrived' = Overtaken(a) /\ clock' = clock
      /\ \A b \in DOMAIN arrived \ {a} : arrived[b].late < MaxOvertaken
  BY RecordFacts
<1>2. /\ DOMAIN arrived' = DOMAIN arrived \ {a}
      /\ \A b \in DOMAIN arrived' : /\ arrived'[b].now = arrived[b].now
                                    /\ arrived'[b].late = arrived[b].late + 1
  BY <1>1, OvertakenFacts
<1>3. \A x \in DOMAIN tracked' : x # id => x \in DOMAIN tracked /\ tracked'[x] = tracked[x]
  BY TrackedStep
<1>4. id \in DOMAIN tracked' => tracked'[id].seen = arrived[a].now
  <2>1. PICK all : all = All(a, t)
    OBVIOUS
  <2>2. id \in DOMAIN tracked' => tracked'[id] = all[id]
    BY <2>1, TrackedStep
  <2>3. all[id].seen = arrived[a].now
    BY <2>1, TrackedStep
  <2>. QED  BY <2>2, <2>3
<1>5. /\ \A b \in DOMAIN arrived : arrived[b].now \in Nat /\ arrived[b].late \in Nat
      /\ \A x \in DOMAIN tracked : tracked[x].seen \in Nat
  BY DEF TypeInv, MapsInv
<1>6. ASSUME NEW b \in DOMAIN arrived'
      PROVE  /\ arrived'[b].now <= clock'
             /\ Cardinality(SeenAfter(tracked', arrived'[b].now)) <= arrived'[b].late
             /\ \A c \in DOMAIN arrived' \ {b} : arrived'[b].now # arrived'[c].now
             /\ \A x \in DOMAIN tracked' : tracked'[x].seen # arrived'[b].now
  <2>1. b \in DOMAIN arrived /\ b # a
    BY <1>2
  <2>2. Cardinality(SeenAfter(tracked', arrived'[b].now)) <= arrived'[b].late
    <3>1. Cardinality(SeenAfter(tracked, arrived[b].now)) <= arrived[b].late
      BY <2>1 DEF SeenInv
    <3>2. /\ Cardinality(SeenAfter(tracked', arrived[b].now))
                <= Cardinality(SeenAfter(tracked, arrived[b].now)) + 1
          /\ Cardinality(SeenAfter(tracked', arrived[b].now)) \in Nat
          /\ Cardinality(SeenAfter(tracked, arrived[b].now)) \in Nat
      BY <1>5, <2>1, SeenAfterGrows
    <3>. QED  BY <1>2, <1>5, <2>1, <3>1, <3>2
  <2>3. arrived'[b].now <= clock' /\ \A c \in DOMAIN arrived' \ {b} : arrived'[b].now # arrived'[c].now
    BY <1>1, <1>2, <2>1 DEF SeenInv
  <2>4. \A x \in DOMAIN tracked' : tracked'[x].seen # arrived'[b].now
    BY <1>1, <1>2, <1>3, <1>4, <2>1 DEF SeenInv
  <2>. QED  BY <2>2, <2>3, <2>4
<1>7. ASSUME NEW x \in DOMAIN tracked'
      PROVE  /\ tracked'[x].seen <= clock'
             /\ \A y \in DOMAIN tracked' \ {x} : tracked'[x].seen # tracked'[y].seen
  BY <1>1, <1>3, <1>4 DEF SeenInv
<1>. QED  BY <1>6, <1>7 DEF SeenInv

\* Nothing was seen after the time that an arriving request reads.
LEMMA ArriveSeen == ASSUME TypeInv, SeenInv, NEW a \in Agents, Arrive(a) PROVE SeenInv'
<1>1. tracked' = tracked
  BY DEF Arrive
<1>2. /\ a \notin DOMAIN arrived /\ clock' = clock + 1 /\ DOMAIN arrived' = DOMAIN arrived \cup {a}
      /\ arrived'[a] = [now |-> clock + 1, late |-> 0]
      /\ \A b \in DOMAIN arrived : arrived'[b] = arrived[b]
  BY ArriveFacts
<1>3. /\ clock \in Nat /\ \A b \in DOMAIN arrived : arrived[b].now \in Nat /\ arrived[b].now <= clock
      /\ \A x \in DOMAIN tracked : tracked[x].seen \in Nat /\ tracked[x].seen <= clock
  BY DEF TypeInv, TypeOK, MapsInv, SeenInv
<1>4. SeenAfter(tracked', clock + 1) = {}
  BY <1>1, <1>3 DEF SeenAfter
<1>5. Cardinality(SeenAfter(tracked', clock + 1)) <= 0
  BY <1>4, FS_EmptySet
<1>6. ASSUME NEW b \in DOMAIN arrived'
      PROVE  /\ arrived'[b].now <= clock'
             /\ Cardinality(SeenAfter(tracked', arrived'[b].now)) <= arrived'[b].late
             /\ \A c \in DOMAIN arrived' \ {b} : arrived'[b].now # arrived'[c].now
             /\ \A x \in DOMAIN tracked' : tracked'[x].seen # arrived'[b].now
  <2>1. CASE b = a
    <3>1. arrived'[b].now = clock + 1 /\ arrived'[b].late = 0
      BY <1>2, <2>1
    <3>2. \A c \in DOMAIN arrived' \ {b} : arrived'[c].now <= clock /\ arrived'[c].now \in Nat
      BY <1>2, <1>3, <2>1
    <3>3. \A x \in DOMAIN tracked' : tracked'[x].seen # clock + 1
      BY <1>1, <1>3
    <3>. QED  BY <1>2, <1>3, <1>5, <3>1, <3>2, <3>3
  <2>2. CASE b # a
    <3>1. b \in DOMAIN arrived /\ arrived'[b] = arrived[b]
      BY <1>2, <2>2
    <3>2. /\ Cardinality(SeenAfter(tracked', arrived'[b].now)) <= arrived'[b].late
          /\ \A x \in DOMAIN tracked' : tracked'[x].seen # arrived'[b].now
      BY <1>1, <3>1 DEF SeenInv
    <3>3. arrived'[b].now <= clock' /\ arrived'[b].now # clock + 1
      BY <1>2, <1>3, <3>1
    <3>4. \A c \in DOMAIN arrived \ {b} : arrived'[b].now # arrived'[c].now
      BY <1>2, <3>1 DEF SeenInv
    <3>. QED  BY <1>2, <3>2, <3>3, <3>4
  <2>. QED  BY <2>1, <2>2
<1>7. ASSUME NEW x \in DOMAIN tracked'
      PROVE  /\ tracked'[x].seen <= clock'
             /\ \A y \in DOMAIN tracked' \ {x} : tracked'[x].seen # tracked'[y].seen
  BY <1>1, <1>2, <1>3 DEF SeenInv
<1>. QED  BY <1>6, <1>7 DEF SeenInv

\* No two requests share a time, and a conversation that was seen since a request
\* arrived has overtaken it.
LEMMA SeenHolds == Spec => []SeenInv
<1>1. Init => SeenInv
  BY DEF Init, SeenInv
<1>2. TypeInv /\ TypeInv' /\ SeenInv /\ [Next]_vars => SeenInv'
  <2>. SUFFICES ASSUME TypeInv, TypeInv', SeenInv, [Next]_vars PROVE SeenInv'
    OBVIOUS
  <2>1. ASSUME NEW a \in Agents, Arrive(a) PROVE SeenInv'
    BY <2>1, ArriveSeen
  <2>2. ASSUME NEW a \in Agents, NEW t \in SentBy[a], RecordRequest(a, t) PROVE SeenInv'
    BY <2>2, RecordSeen
  <2>3. ASSUME UNCHANGED <<arrived, tracked>>, clock <= clock', clock' \in Nat PROVE SeenInv'
    <3>1. /\ clock \in Nat /\ \A b \in DOMAIN arrived : arrived[b].now \in Nat
          /\ \A x \in DOMAIN tracked : tracked[x].seen \in Nat
      BY DEF TypeInv, TypeOK, MapsInv
    <3>. QED  BY <2>3, <3>1 DEF SeenInv
  <2>4. ASSUME NEW i \in DOMAIN records, NEW s \in Replies, Capture(i, s) PROVE SeenInv'
    <3>1. UNCHANGED <<clock, arrived, tracked>> /\ clock \in Nat
      BY <2>4 DEF Capture, TypeInv, TypeOK
    <3>. QED  BY <2>3, <3>1
  <2>5. ASSUME NEW t \in Transcripts, CountTokens(t) PROVE SeenInv'
    <3>1. UNCHANGED <<arrived, tracked>> /\ clock' = clock + 1 /\ clock \in Nat
      BY <2>5, CountFacts DEF TypeInv, TypeOK
    <3>. QED  BY <2>3, <3>1
  <2>6. CASE UNCHANGED vars
    <3>1. UNCHANGED <<clock, arrived, tracked>> /\ clock \in Nat
      BY <2>6 DEF vars, TypeInv, TypeOK
    <3>. QED  BY <2>3, <3>1
  <2>. QED  BY <2>1, <2>2, <2>4, <2>5, <2>6 DEF Next
<1>. QED  BY <1>1, <1>2, TypesHold, PTL DEF Spec

-----------------------------------------------------------------------------
(* What the ring shows *)

\* Times are distinct before the eviction, too.
LEMMA AllDistinct ==
    ASSUME TypeInv, SeenInv, NEW a \in DOMAIN arrived, NEW t \in SentBy[a]
    PROVE  LET all == All(a, t) IN
           /\ \A x, y \in DOMAIN all : x # y => all[x].seen # all[y].seen
           /\ \A x \in DOMAIN all : all[x].seen \in Nat
<1>. DEFINE id  == ConversationOf(a, t)
            all == All(a, t)
<1>1. /\ DOMAIN all = DOMAIN tracked \cup {id} /\ all[id] = After(id, t, arrived[a].now)
      /\ t \in Transcripts
  BY AllFacts
<1>2. \A x \in DOMAIN tracked \ {id} : all[x] = tracked[x]
  BY AllFacts
<1>3. all[id].seen = arrived[a].now
  BY <1>1, AfterFacts
<1>4. arrived[a].now \in Nat /\ \A x \in DOMAIN tracked : tracked[x].seen \in Nat
  BY DEF TypeInv, MapsInv
<1>5. /\ \A x \in DOMAIN tracked : tracked[x].seen # arrived[a].now
      /\ \A x, y \in DOMAIN tracked : x # y => tracked[x].seen # tracked[y].seen
  BY DEF SeenInv
<1>. HIDE DEF id, all
<1>6. \A x, y \in DOMAIN all : x # y => all[x].seen # all[y].seen
  BY <1>1, <1>2, <1>3, <1>5
<1>7. \A x \in DOMAIN all : all[x].seen \in Nat
  BY <1>1, <1>2, <1>3, <1>4
<1>. QED  BY <1>6, <1>7 DEF all

\* A conversation after which few were seen is not the stalest one of too many.
LEMMA RecentStays ==
    ASSUME TypeInv, SeenInv, NEW a \in DOMAIN arrived, NEW t \in SentBy[a],
           NEW c \in DOMAIN All(a, t),
           Cardinality(SeenAfter(All(a, t), All(a, t)[c].seen)) < MaxTracked
    PROVE  c \notin Evict(All(a, t))
<1>. DEFINE all   == All(a, t)
            newer == SeenAfter(all, all[c].seen)
<1>1. /\ \A x, y \in DOMAIN all : x # y => all[x].seen # all[y].seen
      /\ \A x \in DOMAIN all : all[x].seen \in Nat
  BY AllDistinct
<1>2. IsFiniteSet(DOMAIN all)
  BY AllFacts
<1>3. SUFFICES ASSUME c \in Evict(all) PROVE FALSE
  OBVIOUS
<1>4. /\ Cardinality(DOMAIN all) = MaxTracked + 1
      /\ \A other \in DOMAIN all : all[c].seen <= all[other].seen
  BY <1>3, GoneFacts
<1>. HIDE DEF all
<1>5. newer = DOMAIN all \ {c}
  BY <1>1, <1>4 DEF SeenAfter, all
<1>6. Cardinality(DOMAIN all \ {c}) = Cardinality(DOMAIN all) - 1
  BY <1>2, FS_RemoveElement DEF all
<1>7. Cardinality(newer) = MaxTracked /\ Cardinality(newer) < MaxTracked
  BY <1>4, <1>5, <1>6, SizeAssumption DEF all
<1>. QED  BY <1>7, SizeAssumption

\* It stays tracked, and no more are seen after it than before the eviction.
LEMMA StaysTracked ==
    ASSUME TypeInv, SeenInv, NEW a \in Agents, NEW t \in SentBy[a], RecordRequest(a, t),
           NEW m \in Nat, m <= MaxTracked, NEW c \in DOMAIN All(a, t),
           Cardinality(SeenAfter(All(a, t), All(a, t)[c].seen)) < m
    PROVE  /\ c \notin Evict(All(a, t)) /\ c \in DOMAIN tracked' /\ tracked'[c] = All(a, t)[c]
           /\ Cardinality(SeenAfter(tracked', tracked'[c].seen)) < m
<1>. DEFINE all == All(a, t)
            n   == all[c].seen
<1>1. a \in DOMAIN arrived
  BY RecordFacts
<1>2. n \in Nat
  BY <1>1, AllDistinct
<1>3. Cardinality(SeenAfter(all, n)) \in Nat
  BY <1>1, <1>2, SeenInAll
<1>4. Cardinality(SeenAfter(all, n)) < MaxTracked
  BY <1>3, SizeAssumption
<1>5. c \notin Evict(all)
  BY <1>1, <1>4, RecentStays
<1>6. DOMAIN all = DOMAIN tracked \cup {ConversationOf(a, t)}
  BY <1>1, AllFacts
<1>7. DOMAIN tracked' = DOMAIN all \ Evict(all)
  BY <1>6, TrackedStep
<1>8. tracked' = Restrict(all, DOMAIN all \ Evict(all))
  BY RecordFacts
<1>. HIDE DEF all
<1>9. c \in DOMAIN tracked' /\ tracked'[c] = all[c]
  BY <1>5, <1>7, <1>8 DEF Restrict, all
<1>10. /\ Cardinality(SeenAfter(tracked', n)) \in Nat
       /\ Cardinality(SeenAfter(tracked', n)) <= Cardinality(SeenAfter(all, n))
  BY <1>2, SeenAfterGrows DEF all
<1>11. Cardinality(SeenAfter(tracked', n)) < m
  BY <1>3, <1>10 DEF all
<1>. QED  BY <1>5, <1>9, <1>11 DEF all

\* The conversation of the request is among the most recent ones.
LEMMA IdRecent ==
    ASSUME TypeInv, SeenInv, NEW a \in DOMAIN arrived, NEW t \in SentBy[a]
    PROVE  LET id  == ConversationOf(a, t)
               all == All(a, t)
           IN
           /\ id \in DOMAIN all /\ all[id].seen = arrived[a].now
           /\ Cardinality(SeenAfter(all, all[id].seen)) <= MaxOvertaken
<1>. DEFINE id  == ConversationOf(a, t)
            all == All(a, t)
            n   == arrived[a].now
<1>1. /\ id \in DOMAIN all /\ all[id] = After(id, t, n) /\ t \in Transcripts
  BY AllFacts
<1>2. all[id].seen = n
  BY <1>1, AfterFacts
<1>3. n \in Nat /\ n <= n /\ arrived[a].late \in 0 .. MaxOvertaken
  BY DEF TypeInv, MapsInv
<1>4. Cardinality(SeenAfter(tracked, n)) <= arrived[a].late
  BY DEF SeenInv
<1>5. /\ Cardinality(SeenAfter(all, n)) \in Nat /\ Cardinality(SeenAfter(tracked, n)) \in Nat
      /\ Cardinality(SeenAfter(all, n)) <= Cardinality(SeenAfter(tracked, n))
  BY <1>3, SeenInAll
<1>6. Cardinality(SeenAfter(all, n)) <= MaxOvertaken
  BY <1>3, <1>4, <1>5, SizeAssumption
<1>. QED  BY <1>1, <1>2, <1>6

\* The counters of a conversation never go back.
LEMMA CountersGrow ==
    ASSUME TypeInv, NEW a \in DOMAIN arrived, NEW t \in SentBy[a], NEW c \in DOMAIN tracked
    PROVE  LET id  == ConversationOf(a, t)
               all == All(a, t)
           IN
           /\ c \in DOMAIN all /\ tracked[c].turns \in Nat /\ tracked[c].human \in Nat
           /\ c = id => all[c].turns = tracked[c].turns + 1 /\ all[c].human >= tracked[c].human
           /\ c # id => all[c] = tracked[c]
<1>. DEFINE id  == ConversationOf(a, t)
            all == All(a, t)
<1>1. /\ DOMAIN all = DOMAIN tracked \cup {id} /\ t \in Transcripts
      /\ all[id] = After(id, t, arrived[a].now)
  BY AllFacts
<1>2. \A x \in DOMAIN tracked \ {id} : all[x] = tracked[x]
  BY AllFacts
<1>3. all[id].turns = Before(id).turns + 1 /\ all[id].human >= Before(id).human
  BY <1>1, AfterFacts
<1>4. c = id => Before(id) = tracked[c]
  BY DEF Before
<1>5. tracked[c].turns \in Nat /\ tracked[c].human \in Nat
  BY DEF TypeInv, MapsInv
<1>. HIDE DEF id, all
<1>. QED  BY <1>1, <1>2, <1>3, <1>4, <1>5 DEF id, all

\* The numbers of a record.
LEMMA PositiveCounters == ASSUME NEW r \in Record PROVE r.turn \in Nat /\ r.human \in Nat
  BY DEF Record

\* Recording a request keeps what the ring shows tracked and numbered.
LEMMA RecordRing ==
    ASSUME TypeInv, SeenInv, RingInv, NEW a \in Agents, NEW t \in SentBy[a], RecordRequest(a, t)
    PROVE  RingInv'
<1>. DEFINE id  == ConversationOf(a, t)
            all == All(a, t)
            r   == NewRecord(a, t)
<1>1. a \in DOMAIN arrived /\ records' = Pushed(r)
  BY RecordFacts
<1>2. /\ r.conversation = id /\ r.turn = all[id].turns /\ r.human = all[id].human
      /\ r.turn = Before(id).turns + 1 /\ r \in Record
  BY <1>1, NewRecordFacts
<1>3. records \in Seq(Record) /\ Len(records) <= MaxRecords
  BY DEF TypeInv, TypeOK
<1>4. /\ records'[1] = r /\ Len(records') <= MaxRecords /\ Len(records') \in Nat
      /\ DOMAIN records' = 1 .. Len(records')
      /\ \A i \in DOMAIN records' : i # 1 => i - 1 \in DOMAIN records /\ records'[i] = records[i - 1]
  BY <1>1, <1>3, PushedFacts
<1>5. /\ id \in DOMAIN all /\ all[id].seen = arrived[a].now
      /\ Cardinality(SeenAfter(all, all[id].seen)) <= MaxOvertaken
  BY <1>1, IdRecent
<1>6. arrived[a].now \in Nat
  BY <1>1 DEF TypeInv, MapsInv
<1>. HIDE DEF id, all, r
<1>7. r.turn \in Nat /\ r.human \in Nat
  BY <1>2, PositiveCounters
<1>8. ASSUME NEW i \in DOMAIN records'
      PROVE  LET c == records'[i].conversation IN
             /\ c \in DOMAIN all /\ records'[i].turn \in Nat /\ records'[i].human \in Nat
             /\ Cardinality(SeenAfter(all, all[c].seen)) < MaxOvertaken + i
             /\ records'[i].turn <= all[c].turns /\ records'[i].human <= all[c].human
  <2>1. i \in Nat /\ i >= 1 /\ Cardinality(SeenAfter(all, all[id].seen)) \in Nat
    <3>1. Cardinality(SeenAfter(all, arrived[a].now)) \in Nat
      BY <1>1, <1>6, SeenInAll DEF all
    <3>. QED  BY <1>4, <1>5, <3>1
  <2>2. CASE i = 1
    <3>1. records'[i] = r
      BY <1>4, <2>2
    <3>2. Cardinality(SeenAfter(all, all[id].seen)) < MaxOvertaken + i
      BY <1>5, <2>1, <2>2, SizeAssumption
    <3>3. r.turn <= all[id].turns /\ r.human <= all[id].human
      BY <1>2, <1>7
    <3>. QED  BY <1>2, <1>5, <1>7, <3>1, <3>2, <3>3
  <2>3. CASE i # 1
    <3>. DEFINE j == i - 1
                c == records[j].conversation
    <3>1. j \in DOMAIN records /\ records'[i] = records[j] /\ records[j] \in Record
      BY <1>3, <1>4, <2>3
    <3>2. /\ c \in DOMAIN tracked
          /\ Cardinality(SeenAfter(tracked, tracked[c].seen)) < MaxOvertaken + j
          /\ records[j].turn <= tracked[c].turns /\ records[j].human <= tracked[c].human
      BY <3>1 DEF RingInv
    <3>3. records[j].turn \in Nat /\ records[j].human \in Nat /\ tracked[c].seen \in Nat
      BY <3>1, <3>2 DEF Record, TypeInv, MapsInv
    <3>. HIDE DEF j, c
    <3>4. /\ c \in DOMAIN all /\ tracked[c].turns \in Nat /\ tracked[c].human \in Nat
          /\ c = id => all[c].turns = tracked[c].turns + 1 /\ all[c].human >= tracked[c].human
          /\ c # id => all[c] = tracked[c]
      BY <1>1, <3>2, CountersGrow DEF id, all
    <3>5. all[c].turns >= tracked[c].turns /\ all[c].human >= tracked[c].human
          /\ all[c].turns \in Nat /\ all[c].human \in Nat
      <4>1. all[c] \in TrackedType
        BY <1>1, <3>4, AllFacts DEF all
      <4>. QED  BY <3>4, <4>1 DEF TrackedType
    <3>6. Cardinality(SeenAfter(all, all[c].seen)) < MaxOvertaken + i
      <4>1. CASE c = id
        BY <1>5, <2>1, <4>1, SizeAssumption
      <4>2. CASE c # id
        <5>1. /\ Cardinality(SeenAfter(all, tracked[c].seen))
                    <= Cardinality(SeenAfter(tracked, tracked[c].seen)) + 1
              /\ Cardinality(SeenAfter(all, tracked[c].seen)) \in Nat
              /\ Cardinality(SeenAfter(tracked, tracked[c].seen)) \in Nat
          BY <1>1, <3>3, SeenInAll DEF all
        <5>2. all[c].seen = tracked[c].seen
          BY <3>4, <4>2
        <5>3. i = j + 1 /\ j \in Nat
          BY <2>1 DEF j
        <5>. QED  BY <3>2, <5>1, <5>2, <5>3, SizeAssumption
      <4>. QED  BY <4>1, <4>2
    <3>7. records'[i].turn <= all[c].turns /\ records'[i].human <= all[c].human
      BY <3>1, <3>2, <3>3, <3>4, <3>5 DEF j
    <3>. QED  BY <3>1, <3>3, <3>4, <3>6, <3>7 DEF j, c
  <2>. QED  BY <2>2, <2>3
<1>9. ASSUME NEW i \in DOMAIN records'
      PROVE  LET c == records'[i].conversation IN
             /\ c \in DOMAIN tracked' /\ tracked'[c] = all[c]
             /\ Cardinality(SeenAfter(tracked', tracked'[c].seen)) < MaxOvertaken + i
  <2>. DEFINE c == records'[i].conversation
              m == MaxOvertaken + i
  <2>1. m \in Nat /\ m <= MaxTracked
    BY <1>4, SizeAssumption, OvertakeAssumption
  <2>2. c \in DOMAIN all /\ Cardinality(SeenAfter(all, all[c].seen)) < m
    BY <1>8
  <2>. HIDE DEF m, c
  <2>3. /\ c \in DOMAIN tracked' /\ tracked'[c] = all[c]
        /\ Cardinality(SeenAfter(tracked', tracked'[c].seen)) < m
    BY <2>1, <2>2, StaysTracked DEF all
  <2>. QED  BY <2>3 DEF m, c
<1>10. ASSUME NEW i \in DOMAIN records', NEW j \in DOMAIN records',
             i < j, records'[j].conversation = records'[i].conversation
      PROVE  records'[i].turn > records'[j].turn /\ records'[i].human >= records'[j].human
  <2>1. /\ i \in Nat /\ j \in Nat /\ j # 1 /\ j - 1 \in DOMAIN records
        /\ records'[j] = records[j - 1] /\ records[j - 1] \in Record
    BY <1>3, <1>4, <1>10
  <2>2. CASE i = 1
    <3>1. records'[i] = r /\ records[j - 1].conversation = id
      BY <1>2, <1>4, <1>10, <2>1, <2>2
    <3>2. /\ id \in DOMAIN tracked /\ records[j - 1].turn <= tracked[id].turns
          /\ records[j - 1].human <= tracked[id].human
      BY <2>1, <3>1 DEF RingInv
    <3>3. /\ all[id].turns = tracked[id].turns + 1 /\ all[id].human >= tracked[id].human
          /\ tracked[id].turns \in Nat /\ tracked[id].human \in Nat
      BY <1>1, <3>2, CountersGrow DEF id, all
    <3>4. records[j - 1].turn \in Nat /\ records[j - 1].human \in Nat
      BY <2>1, PositiveCounters
    <3>5. r.turn > records[j - 1].turn
      <4>1. r.turn = tracked[id].turns + 1
        BY <1>2, <3>3
      <4>. QED  BY <3>2, <3>3, <3>4, <4>1
    <3>6. r.human >= records[j - 1].human
      BY <1>2, <1>7, <3>2, <3>3, <3>4
    <3>. QED  BY <2>1, <3>1, <3>5, <3>6
  <2>3. CASE i # 1
    <3>1. i - 1 \in DOMAIN records /\ records'[i] = records[i - 1] /\ i - 1 < j - 1
      BY <1>4, <1>10, <2>1, <2>3
    <3>. QED  BY <1>10, <2>1, <3>1 DEF RingInv
  <2>. QED  BY <2>2, <2>3
<1>. QED  BY <1>8, <1>9, <1>10 DEF RingInv

\* A conversation in the ring is tracked, its turns are in order, and few were seen
\* after it.
LEMMA RingHolds == Spec => []RingInv
<1>1. Init => RingInv
  BY DEF Init, RingInv
<1>2. TypeInv /\ SeenInv /\ RingInv /\ [Next]_vars => RingInv'
  <2>. SUFFICES ASSUME TypeInv, SeenInv, RingInv, [Next]_vars PROVE RingInv'
    OBVIOUS
  <2>1. ASSUME UNCHANGED <<records, tracked>> PROVE RingInv'
    BY <2>1 DEF RingInv
  <2>2. ASSUME NEW a \in Agents, NEW t \in SentBy[a], RecordRequest(a, t) PROVE RingInv'
    BY <2>2, RecordRing
  <2>3. ASSUME NEW i \in DOMAIN records, NEW s \in Replies, Capture(i, s) PROVE RingInv'
    <3>1. DOMAIN records' = DOMAIN records /\ tracked' = tracked
      BY <2>3, CaptureFacts
    <3>2. \A j \in DOMAIN records : /\ records'[j].conversation = records[j].conversation
                                    /\ records'[j].turn = records[j].turn
                                    /\ records'[j].human = records[j].human
      <4>1. records'[i] = [records[i] EXCEPT !.reply = {s}] /\ records[i] \in Record
        BY <2>3, CaptureFacts
      <4>2. \A j \in DOMAIN records : j # i => records'[j] = records[j]
        BY <2>3, CaptureFacts
      <4>. QED  BY <4>1, <4>2 DEF Record
    <3>. QED  BY <3>1, <3>2 DEF RingInv
  <2>4. ASSUME NEW a \in Agents, Arrive(a) PROVE RingInv'
    BY <2>1, <2>4 DEF Arrive
  <2>5. ASSUME NEW t \in Transcripts, CountTokens(t) PROVE RingInv'
    BY <2>1, <2>5 DEF CountTokens
  <2>6. CASE UNCHANGED vars
    BY <2>1, <2>6 DEF vars
  <2>. QED  BY <2>2, <2>3, <2>4, <2>5, <2>6 DEF Next
<1>. QED  BY <1>1, <1>2, TypesHold, SeenHolds, PTL DEF Spec

-----------------------------------------------------------------------------
(* Lineages *)

\* The conversation of a request is not evicted.
LEMMA IdStays ==
    ASSUME TypeInv, SeenInv, NEW a \in Agents, NEW t \in SentBy[a], RecordRequest(a, t)
    PROVE  ConversationOf(a, t) \notin Evict(All(a, t))
<1>. DEFINE id  == ConversationOf(a, t)
            all == All(a, t)
            m   == MaxOvertaken + 1
<1>1. a \in DOMAIN arrived
  BY RecordFacts
<1>2. /\ id \in DOMAIN all /\ all[id].seen = arrived[a].now
      /\ Cardinality(SeenAfter(all, all[id].seen)) <= MaxOvertaken
  BY <1>1, IdRecent
<1>3. arrived[a].now \in Nat
  BY <1>1 DEF TypeInv, MapsInv
<1>4. Cardinality(SeenAfter(all, arrived[a].now)) \in Nat
  BY <1>1, <1>3, SeenInAll
<1>5. Cardinality(SeenAfter(all, all[id].seen)) < m
  BY <1>2, <1>4, SizeAssumption
<1>6. m \in Nat /\ m <= MaxTracked
  BY SizeAssumption, OvertakeAssumption
<1>. HIDE DEF m, id
<1>. QED  BY <1>2, <1>5, <1>6, StaysTracked DEF id

\* The anchors that stay, and the one that advances or is minted.
LEMMA AnchorsStep ==
    ASSUME TypeInv, SeenInv, NEW a \in Agents, NEW t \in SentBy[a], RecordRequest(a, t)
    PROVE  LET id    == ConversationOf(a, t)
               gone  == Evict(All(a, t))
               still == Still(a, t)
           IN
           /\ \A x \in DOMAIN anchors \ gone :
                 x \in DOMAIN anchors' /\ (still \/ x # id => anchors'[x] = anchors[x])
           /\ ~ still => id \in DOMAIN anchors' /\ anchors'[id] = AnchorSeq(t)
<1>. DEFINE id    == ConversationOf(a, t)
            gone  == Evict(All(a, t))
            moved == AnchorsWith(a, t, id)
            still == Still(a, t)
<1>1. t \in Transcripts
  BY DEF Transcripts
<1>2. anchors' = Restrict(moved, DOMAIN moved \ gone)
  BY RecordFacts
<1>3. id \notin gone
  BY IdStays
<1>4. still => moved = anchors
  BY <1>1, AnchorFacts
<1>5. ~ still => DOMAIN moved = DOMAIN anchors \cup {id} /\ moved[id] = AnchorSeq(t)
  BY <1>1, AnchorFacts
<1>6. DOMAIN anchors \subseteq DOMAIN moved /\ \A x \in DOMAIN anchors : x # id => moved[x] = anchors[x]
  BY <1>1, AnchorFacts
<1>. HIDE DEF id, gone, moved, still
<1>7. anchors' = [x \in DOMAIN moved \ gone |-> moved[x]]
  BY <1>2 DEF Restrict
<1>8. \A x \in DOMAIN anchors \ gone :
         x \in DOMAIN anchors' /\ (still \/ x # id => anchors'[x] = anchors[x])
  BY <1>4, <1>6, <1>7
<1>9. ~ still => id \in DOMAIN anchors' /\ anchors'[id] = AnchorSeq(t)
  BY <1>3, <1>5, <1>7
<1>. QED  BY <1>8, <1>9 DEF id, gone, still

\* Recording a request keeps what each agent sent last within its lineage.
LEMMA RecordLineage ==
    ASSUME TypeInv, SeenInv, LineageInv, NEW a \in Agents, NEW t \in SentBy[a], RecordRequest(a, t)
    PROVE  LineageInv'
<1>. DEFINE id   == ConversationOf(a, t)
            gone == Evict(All(a, t))
            seq  == AnchorSeq(t)
            still == Still(a, t)
            taken == a \in Anonymous /\ seq # <<>> /\ Lineages(seq) = {} /\ id \in DOMAIN anchors
<1>1. \A x \in DOMAIN anchors \ gone :
         x \in DOMAIN anchors' /\ (still \/ x # id => anchors'[x] = anchors[x])
  BY AnchorsStep
<1>2. ~ still => id \in DOMAIN anchors' /\ anchors'[id] = seq
  BY AnchorsStep
<1>3. reminted' = IF taken THEN reminted \cup {id} ELSE reminted \ gone
  BY DEF RecordRequest, All
<1>4. latest' = [b \in Anonymous |->
                   CASE b = a -> [id |-> id, seq |-> seq]
                     [] b # a /\ latest[b].id \in gone -> [id |-> Unknown, seq |-> <<>>]
                     [] OTHER -> latest[b]]
  BY DEF RecordRequest, All
<1>5. ~ still /\ Lineages(seq) # {} => id \in Lineages(seq)
  <2>1. DOMAIN anchors \subseteq Ids /\ MapsInv
    BY DEF TypeInv, TypeOK
  <2>. QED  BY <2>1, ConversationFacts DEF Still
<1>6. seq \in Seq(Surfaces)
  <2>1. t \in Transcripts
    BY DEF Transcripts
  <2>. QED  BY <2>1, TranscriptFacts
<1>7. /\ \A b \in Anonymous : latest[b].seq \in Seq(Surfaces)
      /\ \A x \in DOMAIN anchors : anchors[x] \in Seq(Surfaces)
  BY DEF TypeInv, MapsInv
<1>. HIDE DEF id, gone, seq
<1>8. ASSUME NEW b \in Anonymous, latest'[b].seq # <<>>
      PROVE  /\ latest'[b].id \in DOMAIN anchors'
             /\ latest'[b].id \notin reminted' => IsPrefix(latest'[b].seq, anchors'[latest'[b].id])
  <2>1. CASE b = a
    <3>1. latest'[b].id = id /\ latest'[b].seq = seq
      BY <1>4, <2>1
    <3>2. ~ still
      BY <1>8, <2>1, <3>1, AgentAssumption DEF Still, seq
    <3>. QED  BY <1>2, <1>6, <3>1, <3>2, PrefixFacts
  <2>2. CASE b # a
    <3>. DEFINE x == latest[b].id
    <3>1. x \notin gone
      <4>1. x \in gone => latest'[b].seq = <<>>
        BY <1>4, <2>2
      <4>. QED  BY <1>8, <4>1
    <3>2. latest'[b] = latest[b]
      BY <1>4, <2>2, <3>1
    <3>3. x \in DOMAIN anchors /\ (x \notin reminted => IsPrefix(latest[b].seq, anchors[x]))
      BY <1>8, <3>2 DEF LineageInv
    <3>4. x \notin reminted' => x \notin reminted /\ (x = id => ~ taken)
      BY <1>3, <3>1
    <3>. HIDE DEF x
    <3>5. x \in DOMAIN anchors'
      BY <1>1, <3>1, <3>3
    <3>6. ASSUME x \notin reminted' PROVE IsPrefix(latest[b].seq, anchors'[x])
      <4>1. CASE still \/ x # id
        BY <1>1, <3>1, <3>3, <3>4, <3>6, <4>1
      <4>2. CASE ~ still /\ x = id
        <5>1. Lineages(seq) # {}
          BY <3>3, <3>4, <3>6, <4>2 DEF Agents, Still, seq
        <5>2. IsPrefix(anchors[x], seq) /\ anchors'[x] = seq
          BY <1>2, <1>5, <4>2, <5>1 DEF Lineages
        <5>3. IsPrefix(latest[b].seq, anchors[x])
          BY <3>3, <3>4, <3>6
        <5>. QED  BY <1>6, <1>7, <3>3, <5>2, <5>3, PrefixFacts
      <4>. QED  BY <4>1, <4>2
    <3>. QED  BY <3>2, <3>5, <3>6 DEF x
  <2>. QED  BY <2>1, <2>2
<1>. QED  BY <1>8 DEF LineageInv

\* What an agent without an id sent last continues its conversation's anchor.
LEMMA LineageHolds == Spec => []LineageInv
<1>1. Init => LineageInv
  <2>. SUFFICES ASSUME Init, NEW a \in Anonymous PROVE latest[a].seq = <<>>
    BY DEF LineageInv
  <2>1. latest = [b \in Anonymous |-> [id |-> Unknown, seq |-> <<>>]]
    BY DEF Init
  <2>. QED  BY <2>1
<1>2. TypeInv /\ SeenInv /\ LineageInv /\ [Next]_vars => LineageInv'
  <2>. SUFFICES ASSUME TypeInv, SeenInv, LineageInv, [Next]_vars PROVE LineageInv'
    OBVIOUS
  <2>1. ASSUME UNCHANGED <<anchors, latest, reminted>> PROVE LineageInv'
    BY <2>1 DEF LineageInv
  <2>2. ASSUME NEW a \in Agents, NEW t \in SentBy[a], RecordRequest(a, t) PROVE LineageInv'
    BY <2>2, RecordLineage
  <2>3. ASSUME NEW i \in DOMAIN records, NEW s \in Replies, Capture(i, s) PROVE LineageInv'
    BY <2>1, <2>3 DEF Capture
  <2>4. ASSUME NEW a \in Agents, Arrive(a) PROVE LineageInv'
    BY <2>1, <2>4 DEF Arrive, history
  <2>5. ASSUME NEW t \in Transcripts, CountTokens(t) PROVE LineageInv'
    BY <2>1, <2>5 DEF CountTokens, history
  <2>6. CASE UNCHANGED vars
    BY <2>1, <2>6 DEF vars, history
  <2>. QED  BY <2>2, <2>3, <2>4, <2>5, <2>6 DEF Next
<1>. QED  BY <1>1, <1>2, TypesHold, SeenHolds, PTL DEF Spec

\* Transcripts that have diverged do not both continue one anchor.
LEMMA DivergedApart ==
    ASSUME TypeInv, LineageInv, NEW a \in Anonymous, NEW b \in Anonymous,
           Diverged(latest[a].seq, latest[b].seq), latest[a].id \notin reminted
    PROVE  latest[a].id # latest[b].id
<1>1. /\ latest[a].seq \in Seq(Surfaces) /\ latest[b].seq \in Seq(Surfaces)
      /\ \A x \in DOMAIN anchors : anchors[x] \in Seq(Surfaces)
  BY DEF TypeInv, MapsInv
<1>2. \A s \in Seq(Surfaces) : IsPrefix(<<>>, s)
  BY DEF IsPrefix
<1>3. latest[a].seq # <<>> /\ latest[b].seq # <<>>
  <2>1. latest[a].seq = <<>> => IsPrefix(latest[a].seq, latest[b].seq)
    BY <1>1, <1>2
  <2>2. latest[b].seq = <<>> => IsPrefix(latest[b].seq, latest[a].seq)
    BY <1>1, <1>2
  <2>. QED  BY <2>1, <2>2 DEF Diverged
<1>. DEFINE x == latest[a].id
<1>4. x \in DOMAIN anchors /\ IsPrefix(latest[a].seq, anchors[x])
  BY <1>3 DEF LineageInv
<1>5. latest[b].id = x => IsPrefix(latest[b].seq, anchors[x])
  BY <1>3 DEF LineageInv
<1>. HIDE DEF x
<1>6. latest[b].id # x
  BY <1>1, <1>4, <1>5, PrefixFacts DEF Diverged
<1>. QED  BY <1>6 DEF x

\* Caps, order of turns, and diverged transcripts apart: the maps of the index
\* agree with each other, however requests overtake each other on their way to the
\* lock, whatever is evicted and whichever lineages are joined.
THEOREM Conversations == Spec => []ConversationsHold
<1>1. TypeInv /\ RingInv /\ LineageInv => ConversationsHold
  <2>. SUFFICES ASSUME TypeInv, RingInv, LineageInv PROVE ConversationsHold
    OBVIOUS
  <2>1. TypeOK
    BY DEF TypeInv
  <2>2. \A i \in DOMAIN records : records[i].conversation \in DOMAIN tracked
    BY DEF RingInv
  <2>3. \A i, j \in DOMAIN records :
           (i < j /\ records[i].conversation = records[j].conversation) =>
               records[i].turn > records[j].turn /\ records[i].human >= records[j].human
    BY DEF RingInv
  <2>4. \A a, b \in Anonymous :
           (Diverged(latest[a].seq, latest[b].seq) /\ latest[a].id \notin reminted)
               => latest[a].id # latest[b].id
    BY DivergedApart
  <2>. QED  BY <2>1, <2>2, <2>3, <2>4 DEF ConversationsHold
<1>. QED  BY <1>1, TypesHold, RingHolds, LineageHolds, PTL

-----------------------------------------------------------------------------
(* What was shown *)

\* What a conversation has shown stays shown, and the request adds its surfaces.
LEMMA ShownGrows ==
    ASSUME TypeInv, NEW a \in Agents, NEW t \in SentBy[a], RecordRequest(a, t)
    PROVE  /\ \A c \in Ids : shown[c] \subseteq shown'[c]
           /\ SurfacesIn(t) \subseteq shown'[ConversationOf(a, t)]
<1>. DEFINE id == ConversationOf(a, t)
<1>1. shown' = [shown EXCEPT ![id] = shown[id] \cup SurfacesIn(t)]
  BY RecordFacts
<1>2. a \in DOMAIN arrived
  BY RecordFacts
<1>3. id \in Ids /\ shown \in [Ids -> SUBSET Surfaces]
  BY <1>2, AllFacts DEF TypeInv, MapsInv
<1>. HIDE DEF id
<1>. QED  BY <1>1, <1>3 DEF id

\* Every record is in one of the conversations.
LEMMA RingIds == ASSUME TypeInv PROVE \A i \in DOMAIN records : records[i].conversation \in Ids
<1>1. \A i \in DOMAIN records : records[i] \in Record
  BY DEF TypeInv, TypeOK
<1>2. \A r \in Record : r.conversation \in Ids
  BY DEF Record
<1>. QED  BY <1>1, <1>2

\* What the ring holds was shown in its conversation.
LEMMA ShownHolds == Spec => []ShownInv
<1>1. Init => ShownInv
  BY DEF Init, ShownInv
<1>2. TypeInv /\ ShownInv /\ [Next]_vars => ShownInv'
  <2>. SUFFICES ASSUME TypeInv, ShownInv, [Next]_vars PROVE ShownInv'
    OBVIOUS
  <2>1. ASSUME UNCHANGED <<records, shown>> PROVE ShownInv'
    BY <2>1 DEF ShownInv
  <2>2. ASSUME NEW a \in Agents, NEW t \in SentBy[a], RecordRequest(a, t) PROVE ShownInv'
    <3>. DEFINE r == NewRecord(a, t)
    <3>1. a \in DOMAIN arrived /\ records' = Pushed(r)
      BY <2>2, RecordFacts
    <3>2. r.conversation = ConversationOf(a, t) /\ r.request = t /\ r.reply = {}
      BY <3>1, NewRecordFacts
    <3>3. records \in Seq(Record) /\ Len(records) <= MaxRecords
      BY DEF TypeInv, TypeOK
    <3>. HIDE DEF r
    <3>4. /\ records'[1] = r
          /\ \A i \in DOMAIN records' :
                i # 1 => i - 1 \in DOMAIN records /\ records'[i] = records[i - 1]
      BY <3>1, <3>3, PushedFacts
    <3>5. /\ \A c \in Ids : shown[c] \subseteq shown'[c]
          /\ SurfacesIn(t) \subseteq shown'[ConversationOf(a, t)]
      BY <2>2, ShownGrows
    <3>6. \A i \in DOMAIN records : records[i].conversation \in Ids
      BY RingIds
    <3>7. ASSUME NEW i \in DOMAIN records'
          PROVE  SurfacesIn(records'[i].request) \cup records'[i].reply
                    \subseteq shown'[records'[i].conversation]
      <4>1. CASE i = 1
        BY <3>2, <3>4, <3>5, <4>1
      <4>2. CASE i # 1
        <5>1. i - 1 \in DOMAIN records /\ records'[i] = records[i - 1]
          BY <3>4, <4>2
        <5>2. SurfacesIn(records[i - 1].request) \cup records[i - 1].reply
                 \subseteq shown[records[i - 1].conversation]
          BY <5>1 DEF ShownInv
        <5>. QED  BY <3>5, <3>6, <5>1, <5>2
      <4>. QED  BY <4>1, <4>2
    <3>. QED  BY <3>7 DEF ShownInv
  <2>3. ASSUME NEW i \in DOMAIN records, NEW s \in Replies, Capture(i, s) PROVE ShownInv'
    <3>. DEFINE c == records[i].conversation
    <3>1. /\ records[i] \in Record /\ DOMAIN records' = DOMAIN records
          /\ \A j \in DOMAIN records : j # i => records'[j] = records[j]
      BY <2>3, CaptureFacts
    <3>2. records'[i] = [records[i] EXCEPT !.reply = {s}]
      BY <2>3, CaptureFacts
    <3>3. shown' = [shown EXCEPT ![c] = shown[c] \cup {s}]
      BY <2>3, CaptureFacts
    <3>4. records'[i].request = records[i].request /\ records'[i].reply = {s}
          /\ records'[i].conversation = c
      BY <3>1, <3>2 DEF Record
    <3>5. c \in Ids /\ shown \in [Ids -> SUBSET Surfaces]
      BY <3>1 DEF Record, TypeInv, MapsInv
    <3>6. \A j \in DOMAIN records : records[j].conversation \in Ids
      BY RingIds
    <3>. HIDE DEF c
    <3>7. s \in shown'[c] /\ \A d \in Ids : shown[d] \subseteq shown'[d]
      BY <3>3, <3>5
    <3>8. ASSUME NEW j \in DOMAIN records'
          PROVE  SurfacesIn(records'[j].request) \cup records'[j].reply
                    \subseteq shown'[records'[j].conversation]
      <4>1. SurfacesIn(records[j].request) \cup records[j].reply \subseteq shown[records[j].conversation]
        BY <3>1 DEF ShownInv
      <4>2. CASE j = i
        BY <3>4, <3>5, <3>7, <4>1, <4>2 DEF c
      <4>3. CASE j # i
        BY <3>1, <3>6, <3>7, <4>1, <4>3
      <4>. QED  BY <4>2, <4>3
    <3>. QED  BY <3>8 DEF ShownInv
  <2>4. ASSUME NEW a \in Agents, Arrive(a) PROVE ShownInv'
    BY <2>1, <2>4 DEF Arrive, history
  <2>5. ASSUME NEW t \in Transcripts, CountTokens(t) PROVE ShownInv'
    BY <2>1, <2>5 DEF CountTokens, history
  <2>6. CASE UNCHANGED vars
    BY <2>1, <2>6 DEF vars, history
  <2>. QED  BY <2>2, <2>3, <2>4, <2>5, <2>6 DEF Next
<1>. QED  BY <1>1, <1>2, TypesHold, PTL DEF Spec

\* The baseline of a delta is one of the earlier records of the conversation: the
\* most overlap, then the latest turn, is attained.
LEMMA PredecessorFacts ==
    ASSUME TypeInv, NEW id, NEW turn, NEW t \in Transcripts, Predecessors(id, turn) # {}
    PROVE  \E i \in Predecessors(id, turn) : Predecessor(id, turn, t) = records[i]
<1>. DEFINE P == Predecessors(id, turn)
            Best(i) == \A j \in P :
                          \/ Overlap(records[i], t) > Overlap(records[j], t)
                          \/ /\ Overlap(records[i], t) = Overlap(records[j], t)
                             /\ records[i].turn >= records[j].turn
            shared == [i \in P |-> Overlap(records[i], t)]
<1>1. records \in Seq(Record) /\ P \subseteq DOMAIN records
  BY DEF TypeInv, TypeOK, Predecessors
<1>2. IsFiniteSet(P)
  <2>1. DOMAIN records = 1 .. Len(records) /\ Len(records) \in Nat
    BY <1>1
  <2>2. IsFiniteSet(1 .. Len(records))
    BY <2>1, FS_Interval
  <2>. QED  BY <1>1, <2>1, <2>2, FS_Subset
<1>3. \A i \in P : Overlap(records[i], t) \in Nat /\ records[i].turn \in Nat
  <2>. SUFFICES ASSUME NEW i \in P PROVE Overlap(records[i], t) \in Nat /\ records[i].turn \in Nat
    OBVIOUS
  <2>1. records[i] \in Record
    BY <1>1
  <2>2. records[i].request \in Transcripts /\ records[i].turn \in Nat
    BY <2>1 DEF Record
  <2>3. CountIn(records[i].request, SurfacesIn(t)) \in Nat
    BY <2>2, TranscriptFacts
  <2>. QED  BY <2>2, <2>3 DEF Overlap
<1>. HIDE DEF P
<1>4. shared \in [P -> Nat]
  BY <1>3
<1>5. PICK m \in P : \A j \in P : shared[j] <= shared[m]
  BY <1>2, <1>4, GreatestOfFinite DEF P
<1>. DEFINE Q == {i \in P : shared[i] = shared[m]}
            turns == [i \in Q |-> records[i].turn]
<1>6. Q # {} /\ turns \in [Q -> Nat]
  BY <1>3, <1>5
<1>7. IsFiniteSet(Q)
  BY <1>2, FS_Subset
<1>8. PICK i \in Q : \A j \in Q : turns[j] <= turns[i]
  BY <1>6, <1>7, GreatestOfFinite
<1>9. i \in P /\ Best(i)
  <2>1. i \in P /\ shared[i] = shared[m] /\ \A j \in Q : records[j].turn <= records[i].turn
    BY <1>8
  <2>2. ASSUME NEW j \in P
        PROVE  \/ Overlap(records[i], t) > Overlap(records[j], t)
               \/ /\ Overlap(records[i], t) = Overlap(records[j], t)
                  /\ records[i].turn >= records[j].turn
    <3>1. CASE shared[j] = shared[m]
      <4>1. Overlap(records[i], t) = Overlap(records[j], t)
        BY <2>1, <3>1
      <4>2. records[j].turn <= records[i].turn
        BY <2>1, <3>1
      <4>. QED  BY <1>3, <2>1, <4>1, <4>2
    <3>2. CASE shared[j] # shared[m]
      <4>1. shared[j] <= shared[i] /\ shared[j] # shared[i]
        BY <1>5, <2>1, <3>2
      <4>2. Overlap(records[j], t) <= Overlap(records[i], t)
            /\ Overlap(records[j], t) # Overlap(records[i], t)
        BY <2>1, <4>1
      <4>. QED  BY <1>3, <2>1, <4>2
    <3>. QED  BY <3>1, <3>2
  <2>. QED  BY <2>1, <2>2
<1>. DEFINE chosen == CHOOSE k \in P : Best(k)
<1>10. chosen \in P
  BY <1>9
<1>11. Predecessor(id, turn, t) = records[chosen]
  BY DEF Predecessor, P
<1>. HIDE DEF chosen
<1>. QED  BY <1>10, <1>11 DEF P

\* The new record leaves out nothing that its conversation has not shown.
LEMMA DeltaFacts ==
    ASSUME TypeInv, ShownInv, NEW a \in DOMAIN arrived, NEW t \in SentBy[a],
           NEW r, r = NewRecord(a, t), r.delta.kind = "against"
    PROVE  SurfacesIn(r.request) \ r.delta.added \subseteq shown[r.conversation]
<1>. DEFINE id   == ConversationOf(a, t)
            turn == r.turn
            prev == Predecessor(id, turn, t)
<1>1. /\ r.conversation = id /\ r.request = t /\ r.delta = Delta(id, turn, t)
      /\ t \in Transcripts
  <2>1. r.conversation = id /\ r.request = t /\ r.delta = Delta(id, turn, t)
    BY NewRecordFacts
  <2>2. t \in Transcripts
    BY AllFacts
  <2>. QED  BY <2>1, <2>2
<1>. HIDE DEF id, turn
<1>2. Predecessors(id, turn) # {}
  BY <1>1 DEF Delta
<1>3. r.delta = [kind |-> "against", added |-> SurfacesIn(t) \ (SurfacesIn(prev.request) \cup prev.reply)]
  BY <1>1, <1>2 DEF Delta
<1>4. PICK i \in Predecessors(id, turn) : prev = records[i]
  BY <1>1, <1>2, PredecessorFacts
<1>5. i \in DOMAIN records /\ records[i].conversation = id
  BY DEF Predecessors
<1>6. SurfacesIn(prev.request) \cup prev.reply \subseteq shown[id]
  BY <1>4, <1>5 DEF ShownInv
<1>. HIDE DEF prev
<1>7. r.delta.added = SurfacesIn(t) \ (SurfacesIn(prev.request) \cup prev.reply)
  BY <1>3
<1>. QED  BY <1>1, <1>6, <1>7

\* "Over-show, never hide": what the reviewer is not shown as new was in an earlier
\* record of the same conversation, whatever was interleaved with it or evicted.
THEOREM NeverHides == Spec => DeltaNeverHides
<1>1. TypeInv /\ ShownInv /\ [Next]_vars =>
         [\A a \in DOMAIN arrived :
             LET r == records'[1] IN
             (a \notin DOMAIN arrived' /\ r.delta.kind = "against") =>
                 SurfacesIn(r.request) \ r.delta.added \subseteq shown[r.conversation]]_vars
  <2>. DEFINE Covered(a) ==
                LET r == records'[1] IN
                (a \notin DOMAIN arrived' /\ r.delta.kind = "against") =>
                    SurfacesIn(r.request) \ r.delta.added \subseteq shown[r.conversation]
  <2>. SUFFICES ASSUME TypeInv, ShownInv, Next, NEW a \in DOMAIN arrived PROVE Covered(a)
    BY Zenon
  <2>1. ASSUME UNCHANGED arrived PROVE Covered(a)
    BY <2>1
  <2>2. ASSUME NEW b \in Agents, NEW t \in SentBy[b], RecordRequest(b, t) PROVE Covered(a)
    <3>. DEFINE r == NewRecord(b, t)
    <3>1. b \in DOMAIN arrived /\ arrived' = Overtaken(b) /\ records' = Pushed(r)
      BY <2>2, RecordFacts
    <3>2. DOMAIN arrived' = DOMAIN arrived \ {b}
      BY <3>1 DEF Overtaken
    <3>3. records \in Seq(Record) /\ Len(records) <= MaxRecords
      BY DEF TypeInv, TypeOK
    <3>4. records'[1] = r
      BY <3>1, <3>3, PushedFacts
    <3>5. r.delta.kind = "against" =>
             SurfacesIn(r.request) \ r.delta.added \subseteq shown[r.conversation]
      BY <3>1, DeltaFacts
    <3>. HIDE DEF r
    <3>. QED  BY <3>4, <3>5
  <2>3. ASSUME NEW i \in DOMAIN records, NEW s \in Replies, Capture(i, s) PROVE Covered(a)
    BY <2>1, <2>3 DEF Capture
  <2>4. ASSUME NEW b \in Agents, Arrive(b) PROVE Covered(a)
    <3>1. DOMAIN arrived' = DOMAIN arrived \cup {b}
      BY <2>4, ArriveFacts
    <3>. QED  BY <3>1
  <2>5. ASSUME NEW t \in Transcripts, CountTokens(t) PROVE Covered(a)
    BY <2>1, <2>5 DEF CountTokens
  <2>. QED  BY <2>2, <2>3, <2>4, <2>5 DEF Next
<1>. QED  BY <1>1, TypesHold, ShownHolds, PTL DEF Spec, DeltaNeverHides

-----------------------------------------------------------------------------
(* What the ledger keeps *)

\* A token of the request only goes when there is no room for all of them: before
\* it does, every token that is not the request's is gone.
LEMMA CurrentKept ==
    ASSUME NEW all, IsFiniteSet(DOMAIN all), NEW current, current \subseteq DOMAIN all,
           Cardinality(current) <= MaxTokens,
           NEW keep \in Kept(all, current), Cardinality(keep) = Room(all)
    PROVE  current \subseteq keep
<1>1. SUFFICES ASSUME NEW j \in current, j \notin keep PROVE FALSE
  OBVIOUS
<1>2. \A k \in keep : ~ GoesFirst(all, current, k, j)
  BY <1>1 DEF Kept
<1>3. keep \subseteq current \ {j}
  BY <1>1, <1>2 DEF GoesFirst
<1>4. /\ IsFiniteSet(current) /\ Cardinality(current) \in Nat
      /\ Cardinality(DOMAIN all) \in Nat /\ Cardinality(current) <= Cardinality(DOMAIN all)
  BY FS_Subset, FS_CardinalityType
<1>5. IsFiniteSet(current \ {j}) /\ Cardinality(current \ {j}) = Cardinality(current) - 1
  BY <1>1, <1>4, FS_RemoveElement
<1>6. IsFiniteSet(keep) /\ Cardinality(keep) <= Cardinality(current) - 1
  BY <1>3, <1>5, FS_Subset
<1>7. Cardinality(keep) \in Nat
  BY <1>6, FS_CardinalityType
<1>8. Cardinality(current) <= Room(all)
  BY <1>4, SizeAssumption DEF Room
<1>. QED  BY <1>4, <1>6, <1>7, <1>8

\* After tokens are ingested, those of the request are there, in the lanes of the
\* request or higher, and no lane went down.
LEMMA IngestKeeps ==
    ASSUME TypeInv, NEW lanes, lanes \in [DOMAIN lanes -> 0 .. 6], IsFiniteSet(DOMAIN lanes),
           NEW now \in 1 .. MaxRequests, Ingest(lanes, now)
    PROVE  /\ Cardinality(DOMAIN lanes) <= MaxTokens => DOMAIN lanes \subseteq DOMAIN ledger'
           /\ \A k \in DOMAIN lanes \cap DOMAIN ledger' : ledger'[k].lane >= lanes[k]
           /\ \A k \in DOMAIN ledger \cap DOMAIN ledger' : ledger'[k].lane >= ledger[k].lane
<1>. DEFINE all == Sighted(lanes, now)
<1>. HIDE DEF all
<1>1. all = Sighted(lanes, now)
  BY DEF all
<1>2. /\ DOMAIN all = DOMAIN ledger \cup DOMAIN lanes /\ IsFiniteSet(DOMAIN all)
      /\ \A k \in DOMAIN lanes : all[k].lane >= lanes[k]
      /\ \A k \in DOMAIN ledger : all[k].lane >= ledger[k].lane
  BY <1>1, SightedFacts
<1>3. PICK keep \in Kept(all, DOMAIN lanes) :
         /\ Cardinality(keep) = Room(all) /\ DOMAIN ledger' = keep
         /\ \A k \in keep : ledger'[k] = all[k]
  BY <1>1, IngestFacts
<1>4. Cardinality(DOMAIN lanes) <= MaxTokens => DOMAIN lanes \subseteq keep
  BY <1>2, <1>3, CurrentKept
<1>. QED  BY <1>2, <1>3, <1>4

\* The values of a request that is being recorded are in the ledger, in the lanes they
\* have in it or higher, and no lane is demoted by a token count or by a request that
\* comes late.
THEOREM KeepsLive == Spec => LedgerKeepsLive
<1>. DEFINE Live(a) ==
              LET t == records'[1].request IN
              a \notin DOMAIN arrived' =>
                  /\ Cardinality(Tokens(t)) <= MaxTokens => Tokens(t) \subseteq DOMAIN ledger'
                  /\ \A k \in Tokens(t) \cap DOMAIN ledger' : ledger'[k].lane >= LaneIn(t, k)
            Promoted == \A k \in DOMAIN ledger \cap DOMAIN ledger' : ledger'[k].lane >= ledger[k].lane
<1>1. TypeInv /\ Next => (\A a \in DOMAIN arrived : Live(a)) /\ Promoted
  <2>. SUFFICES ASSUME TypeInv, Next PROVE (\A a \in DOMAIN arrived : Live(a)) /\ Promoted
    OBVIOUS
  <2>1. ASSUME ledger' = ledger PROVE Promoted
    <3>1. \A k \in DOMAIN ledger : ledger[k].lane \in Nat
      <4>1. \A k \in DOMAIN ledger : ledger[k] \in [lane : 0 .. 6, seen : 1 .. MaxRequests]
        BY DEF TypeInv, TypeOK
      <4>. QED  BY <4>1
    <3>. QED  BY <2>1, <3>1
  <2>2. ASSUME DOMAIN arrived \subseteq DOMAIN arrived', NEW a \in DOMAIN arrived PROVE Live(a)
    BY <2>2
  <2>3. ASSUME NEW b \in Agents, NEW t \in SentBy[b], RecordRequest(b, t)
        PROVE  (\A a \in DOMAIN arrived : Live(a)) /\ Promoted
    <3>1. /\ b \in DOMAIN arrived /\ arrived' = Overtaken(b) /\ records' = Pushed(NewRecord(b, t))
          /\ Ingest(Lanes(t), arrived[b].now)
      BY <2>3, RecordFacts
    <3>2. t \in Transcripts /\ arrived[b].now \in 1 .. MaxRequests
      BY <3>1 DEF Transcripts, TypeInv, MapsInv
    <3>3. records'[1].request = t
      <4>1. records \in Seq(Record) /\ Len(records) <= MaxRecords
        BY DEF TypeInv, TypeOK
      <4>2. records'[1] = NewRecord(b, t)
        BY <3>1, <4>1, PushedFacts
      <4>3. NewRecord(b, t).request = t
        BY <3>1, NewRecordFacts
      <4>. QED  BY <4>2, <4>3
    <3>4. /\ DOMAIN Lanes(t) = Tokens(t) /\ IsFiniteSet(DOMAIN Lanes(t))
          /\ Lanes(t) \in [DOMAIN Lanes(t) -> 0 .. 6]
          /\ \A k \in Tokens(t) : Lanes(t)[k] = LaneIn(t, k)
      BY <3>2, LanesFacts
    <3>. DEFINE lanes == Lanes(t)
    <3>. HIDE DEF lanes
    <3>5. /\ Cardinality(DOMAIN lanes) <= MaxTokens => DOMAIN lanes \subseteq DOMAIN ledger'
          /\ \A k \in DOMAIN lanes \cap DOMAIN ledger' : ledger'[k].lane >= lanes[k]
          /\ \A k \in DOMAIN ledger \cap DOMAIN ledger' : ledger'[k].lane >= ledger[k].lane
      BY <3>1, <3>2, <3>4, IngestKeeps DEF lanes
    <3>6. Promoted
      BY <3>5
    <3>7. ASSUME NEW a \in DOMAIN arrived PROVE Live(a)
      BY <3>3, <3>4, <3>5 DEF lanes
    <3>. QED  BY <3>6, <3>7
  <2>4. ASSUME NEW i \in DOMAIN records, NEW s \in Replies, Capture(i, s)
        PROVE  (\A a \in DOMAIN arrived : Live(a)) /\ Promoted
    BY <2>1, <2>2, <2>4 DEF Capture
  <2>5. ASSUME NEW b \in Agents, Arrive(b) PROVE (\A a \in DOMAIN arrived : Live(a)) /\ Promoted
    <3>1. ledger' = ledger
      BY <2>5 DEF Arrive
    <3>2. DOMAIN arrived' = DOMAIN arrived \cup {b}
      BY <2>5, ArriveFacts
    <3>. QED  BY <2>1, <2>2, <3>1, <3>2
  <2>6. ASSUME NEW t \in Transcripts, CountTokens(t)
        PROVE  (\A a \in DOMAIN arrived : Live(a)) /\ Promoted
    <3>1. arrived' = arrived /\ clock' \in 1 .. MaxRequests
      BY <2>6, CountFacts
    <3>2. PICK lanes : /\ IsFiniteSet(DOMAIN lanes) /\ lanes \in [DOMAIN lanes -> 0 .. 6]
                       /\ Ingest(lanes, clock')
      BY <2>6, CountFacts
    <3>3. Promoted
      BY <3>1, <3>2, IngestKeeps
    <3>. QED  BY <2>2, <3>1, <3>3
  <2>. QED  BY <2>3, <2>4, <2>5, <2>6 DEF Next
<1>2. TypeInv /\ [Next]_vars => [(\A a \in DOMAIN arrived : Live(a)) /\ Promoted]_vars
  BY <1>1, Zenon
<1>. QED  BY <1>2, TypesHold, PTL DEF Spec, LedgerKeepsLive
=============================================================================

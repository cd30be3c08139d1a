------------------------ MODULE RevealBoundaryProofs ------------------------
(***************************************************************************)
(* Where values may go, for any values, turns and processes. A handle can  *)
(* only stand for a value it was minted for, of the class that the rules   *)
(* prescribe (Placed); store and manifests hold such tokens only           *)
(* (EntriesInv), and what is shown, released or recorded is looked up in   *)
(* them (OutputInv, ReleaseInv, RecordInv).  What leaves in plaintext      *)
(* depends on the rules in force alone (RulesInv, PlainInv).  The first    *)
(* part is about the first position of a sequence that hits, which the     *)
(* engine's searches return.                                               *)
(***************************************************************************)
EXTENDS RevealBoundary, WellFoundedInduction, TLAPS

-----------------------------------------------------------------------------
(* The first hit *)

\* A set of positions that is not empty has a first one.
LEMMA FirstHit ==
    ASSUME NEW hits, hits \subseteq Nat, hits # {}
    PROVE  (CHOOSE i \in hits : \A j \in hits : i <= j) \in hits
<1>1. PICK i \in hits : \A j \in hits : ~ (<<j, i>> \in OpToRel(<, Nat))
  BY NatLessThanWellFounded, WFMin
<1>2. \A j \in hits : ~ (j < i)
  BY <1>1, Zenon DEF OpToRel
<1>3. \A j \in hits : i <= j
  BY <1>2
<1>. QED  BY <1>3

\* manifest.entries.find gives an entry of the token asked for.
LEMMA FirstEntryHits ==
    ASSUME NEW t \in Turns, NEW h, turn[t].manifest \in Seq(ManifestEntry), InManifest(t, h)
    PROVE  FirstEntry(t, h) \in ManifestOf(t) /\ FirstEntry(t, h).handle = h
<1>. DEFINE m == turn[t].manifest
            hits == {i \in DOMAIN m : m[i].handle = h}
            i == CHOOSE i \in hits : \A j \in hits : i <= j
<1>1. hits \subseteq Nat /\ hits # {}
  BY DEF InManifest, ManifestOf, Range
<1>2. i \in hits
  BY <1>1, FirstHit
<1>3. FirstEntry(t, h) = m[i]
  BY DEF FirstEntry
<1>. QED  BY <1>2, <1>3 DEF ManifestOf, Range

-----------------------------------------------------------------------------
(* Tokens, rules and types *)

\* What make_token gives: the class of the operator, of the value or of its literal.
LEMMA HandleFacts ==
    ASSUME NEW v \in AllValues, NEW op \in Reversible
    PROVE  /\ HandleOf(v, op) \in Handles /\ Kind(op) \in TokenKinds
           /\ HandleOf(v, op).kind = IF op = "Token" THEN "Pii" ELSE op
           /\ op # "Literal" => HandleOf(v, op).of = v
           /\ Kind(op) = IF op = "Literal" THEN "Pii" ELSE HandleOf(v, op).kind
<1>1. CASE op = "Literal"
  <2>1. LiteralOf[v] \in Range(LiteralOf)
    BY PolicyAssumption DEF Range
  <2>2. HandleOf(v, op) = [kind |-> "Literal", of |-> LiteralOf[v]]
    BY <1>1 DEF HandleOf
  <2>. QED  BY <1>1, <2>1, <2>2 DEF Handles, Kind, TokenKinds
<1>2. CASE op = "Token"
  <2>1. HandleOf(v, op) = [kind |-> "Pii", of |-> v]
    BY <1>2 DEF HandleOf
  <2>. QED  BY <1>2, <2>1 DEF Handles, Kind, TokenKinds
<1>3. CASE op \in {"Local", "Broker"}
  <2>1. HandleOf(v, op) = [kind |-> op, of |-> v]
    BY <1>3 DEF HandleOf
  <2>. QED  BY <1>3, <2>1 DEF Handles, Kind, TokenKinds
<1>. QED  BY <1>1, <1>2, <1>3 DEF Reversible

\* The running process has a key.
LEMMA KeyFacts ==
    ASSUME process \in Processes
    PROVE  AdminKey \in AllValues /\ AdminKey \notin Values /\ AdminKey # NoValue
  BY KeyAssumption, ValueAssumption DEF AdminKey, AllValues, Processes, Range

\* The rules a process installs: its own key as Local, the resolved secrets with
\* their operators.
LEMMA RuleFacts ==
    ASSUME process \in Processes, NEW resolved \in SUBSET DOMAIN SecretOps
    PROVE  /\ DOMAIN RulesOf(resolved) = {AdminKey} \cup resolved
           /\ RulesOf(resolved)[AdminKey] = "Local"
           /\ \A v \in resolved : RulesOf(resolved)[v] = SecretOps[v]
           /\ \A v \in resolved : SecretOps[v] \in {"Broker", "Erase"}
           /\ LocalSecrets(RulesOf(resolved)) = {AdminKey}
           /\ DOMAIN RulesOf(resolved) \subseteq AllValues
           /\ Range(RulesOf(resolved)) \subseteq {"Local", "Broker", "Erase"}
<1>1. \A v \in resolved : v \in Values /\ v # AdminKey /\ SecretOps[v] \in {"Broker", "Erase"}
  BY KeyFacts, SecretAssumption DEF Range
<1>2. /\ DOMAIN RulesOf(resolved) = {AdminKey} \cup resolved
      /\ RulesOf(resolved)[AdminKey] = "Local"
      /\ \A v \in resolved : RulesOf(resolved)[v] = SecretOps[v]
  BY <1>1 DEF RulesOf
<1>3. LocalSecrets(RulesOf(resolved)) = {AdminKey}
  BY <1>1, <1>2 DEF LocalSecrets
<1>4. DOMAIN RulesOf(resolved) \subseteq AllValues
  BY <1>1, <1>2, KeyFacts DEF AllValues
<1>5. Range(RulesOf(resolved)) \subseteq {"Local", "Broker", "Erase"}
  BY <1>1, <1>2 DEF Range
<1>. QED  BY <1>1, <1>2, <1>3, <1>4, <1>5

\* The reserved rule alone.
LEMMA ReservedFacts ==
    ASSUME process \in Processes
    PROVE  /\ DOMAIN ReservedRules = {AdminKey} /\ ReservedRules[AdminKey] = "Local"
           /\ LocalSecrets(ReservedRules) = {AdminKey}
           /\ DOMAIN ReservedRules \subseteq AllValues
           /\ Range(ReservedRules) \subseteq {"Local", "Broker", "Erase"}
<1>1. DOMAIN ReservedRules = {AdminKey} /\ ReservedRules[AdminKey] = "Local"
  BY DEF ReservedRules
<1>. QED  BY <1>1, KeyFacts DEF LocalSecrets, Range

\* The entry of a process's own key.
KeyEntry == [handle |-> HandleOf(AdminKey, "Local"), kind |-> "Local", value |-> AdminKey]

\* Installing rules whose only Local secret is the key adds at most its entry.
LEMMA LocalsAdded ==
    ASSUME process \in Processes, NEW rules, LocalSecrets(rules) = {AdminKey}
    PROVE  /\ WithLocals(rules) \subseteq store \cup {KeyEntry} /\ store \subseteq WithLocals(rules)
           /\ Known(HandleOf(AdminKey, "Local")) \/ KeyEntry \in WithLocals(rules)
           /\ KeyEntry \in StoreEntry
<1>1. KeyEntry \in StoreEntry
  BY KeyFacts, HandleFacts DEF KeyEntry, StoreEntry, Reversible, TokenKinds
<1>2. WithLocals(rules) = store \cup (IF Known(HandleOf(AdminKey, "Local")) THEN {} ELSE {KeyEntry})
  BY DEF WithLocals, KeyEntry
<1>. QED  BY <1>1, <1>2

\* An entry that is found is one of the store, with that token.
LEMMA EntryFound ==
    ASSUME NEW h, Known(h)
    PROVE  EntryOf(h) \in store /\ EntryOf(h).handle = h
  BY DEF Known, EntryOf

TypeInv == TypeOK /\ turn \in [Turns -> Turn]

\* Appending adds one element.
LEMMA RangeAppend ==
    ASSUME NEW S, NEW m \in Seq(S), NEW x \in S
    PROVE  Append(m, x) \in Seq(S) /\ Range(Append(m, x)) = Range(m) \cup {x}
<1>1. /\ Append(m, x) \in Seq(S) /\ Len(Append(m, x)) = Len(m) + 1
      /\ \A i \in 1 .. Len(m) : Append(m, x)[i] = m[i]
      /\ Append(m, x)[Len(m) + 1] = x
  OBVIOUS
<1>2. DOMAIN m = 1 .. Len(m) /\ DOMAIN Append(m, x) = 1 .. (Len(m) + 1) /\ Len(m) \in Nat
  BY <1>1
<1>3. ASSUME NEW y \in Range(Append(m, x))
      PROVE  y \in Range(m) \cup {x}
  <2>1. PICK i \in 1 .. (Len(m) + 1) : y = Append(m, x)[i]
    BY <1>2 DEF Range
  <2>2. i \in 1 .. Len(m) \/ i = Len(m) + 1
    BY <1>2
  <2>. QED  BY <1>1, <1>2, <2>1, <2>2 DEF Range
<1>4. ASSUME NEW y \in Range(m) \cup {x}
      PROVE  y \in Range(Append(m, x))
  <2>1. CASE y \in Range(m)
    <3>1. PICK i \in 1 .. Len(m) : y = m[i]
      BY <1>2, <2>1 DEF Range
    <3>2. i \in 1 .. (Len(m) + 1) /\ y = Append(m, x)[i]
      BY <1>1, <1>2, <3>1
    <3>. QED  BY <1>2, <3>2 DEF Range
  <2>2. CASE y = x
    <3>1. Len(m) + 1 \in 1 .. (Len(m) + 1)
      BY <1>2
    <3>. QED  BY <1>1, <1>2, <2>2, <3>1 DEF Range
  <2>. QED  BY <2>1, <2>2
<1>. QED  BY <1>1, <1>3, <1>4

\* A step that is about turn t leaves the other turns alone.
OtherTurns(t) == \A u \in Turns \ {t} : turn'[u] = turn[u]

\* Writing one turn.
LEMMA TurnWrite ==
    ASSUME turn \in [Turns -> Turn], NEW t \in Turns, NEW r \in Turn,
           turn' = [turn EXCEPT ![t] = r]
    PROVE  turn' \in [Turns -> Turn] /\ turn'[t] = r /\ OtherTurns(t)
  BY DEF OtherTurns

\* A request enters with its values.
LEMMA BeginStep ==
    ASSUME TypeInv, NEW t \in Turns, NEW values \in SUBSET AllValues, Begin(t, values)
    PROVE  /\ turn' \in [Turns -> Turn] /\ OtherTurns(t)
           /\ turn'[t].at = "masking" /\ turn'[t].todo = values
           /\ turn'[t].plain = turn[t].plain /\ turn'[t].manifest = turn[t].manifest
<1>. DEFINE r == [turn[t] EXCEPT !.at = "masking", !.todo = values]
<1>1. turn[t] \in Turn
  BY DEF TypeInv
<1>2. /\ r \in Turn /\ r.at = "masking" /\ r.todo = values /\ r.plain = turn[t].plain
      /\ r.manifest = turn[t].manifest
  BY <1>1 DEF Turn
<1>3. turn' = [turn EXCEPT ![t] = r]
  BY DEF Begin, TypeInv
<1>. HIDE DEF r
<1>. QED  BY <1>2, <1>3, TurnWrite DEF TypeInv

\* The request leaves; what it carries stays.
LEMMA SendStep ==
    ASSUME TypeInv, NEW t \in Turns, SendUpstream(t)
    PROVE  /\ turn' \in [Turns -> Turn] /\ OtherTurns(t)
           /\ turn'[t].at = "reply" /\ turn'[t].todo = turn[t].todo
           /\ turn'[t].plain = turn[t].plain /\ turn'[t].manifest = turn[t].manifest
<1>. DEFINE r == [turn[t] EXCEPT !.at = "reply"]
<1>1. turn[t] \in Turn
  BY DEF TypeInv
<1>2. /\ r \in Turn /\ r.at = "reply" /\ r.todo = turn[t].todo /\ r.plain = turn[t].plain
      /\ r.manifest = turn[t].manifest
  BY <1>1 DEF Turn
<1>3. turn' = [turn EXCEPT ![t] = r]
  BY DEF SendUpstream, TypeInv
<1>. HIDE DEF r
<1>. QED  BY <1>2, <1>3, TurnWrite DEF TypeInv

\* apply, for one value: a token, a removal, or the value as it is.
LEMMA MaskStep ==
    ASSUME TypeInv, NEW t \in Turns, NEW v \in AllValues, NEW bypassed \in BOOLEAN,
           MaskValue(t, v, bypassed)
    PROVE  /\ turn' \in [Turns -> Turn] /\ OtherTurns(t)
           /\ turn'[t].at = "masking" /\ turn'[t].todo = turn[t].todo \ {v}
           /\ \/ \E op \in Reversible :
                    /\ op = OperatorFor(v, bypassed)
                    /\ turn'[t].plain = turn[t].plain
                    /\ store' = WithToken(HandleOf(v, op), Kind(op), v)
                    /\ Range(turn'[t].manifest)
                          = ManifestOf(t) \cup {[handle |-> HandleOf(v, op), value |-> v]}
              \/ /\ UNCHANGED store
                 /\ turn'[t].manifest = turn[t].manifest
                 /\ \/ turn'[t].plain = turn[t].plain
                    \/ turn'[t].plain = turn[t].plain \cup {v} /\ OperatorFor(v, bypassed) = "Keep"
<1>. DEFINE op == OperatorFor(v, bypassed)
            m == [handle |-> HandleOf(v, op), value |-> v]
            r1 == [turn[t] EXCEPT !.todo = @ \ {v}, !.manifest = Append(@, m)]
            kept == IF op = "Keep" THEN turn[t].plain \cup {v} ELSE turn[t].plain
            r2 == [turn[t] EXCEPT !.todo = @ \ {v}, !.plain = kept]
<1>1. /\ turn[t] \in Turn /\ turn[t].at = "masking" /\ turn[t].manifest \in Seq(ManifestEntry)
      /\ turn[t].todo \in SUBSET AllValues /\ turn[t].plain \in SUBSET AllValues
  BY DEF TypeInv, Turn, MaskValue
<1>2. CASE op \in Reversible
  <2>1. turn' = [turn EXCEPT ![t] = r1] /\ store' = WithToken(HandleOf(v, op), Kind(op), v)
    BY <1>2 DEF MaskValue, TypeInv
  <2>2. m \in ManifestEntry
    BY <1>2, HandleFacts DEF ManifestEntry
  <2>. HIDE DEF op, m
  <2>3. /\ Append(turn[t].manifest, m) \in Seq(ManifestEntry)
        /\ Range(Append(turn[t].manifest, m)) = ManifestOf(t) \cup {m}
    BY <1>1, <2>2, RangeAppend DEF ManifestOf
  <2>. DEFINE ms == Append(turn[t].manifest, m)
  <2>. HIDE DEF ms
  <2>4. /\ r1 \in Turn /\ r1.at = "masking" /\ r1.todo = turn[t].todo \ {v}
        /\ r1.plain = turn[t].plain /\ r1.manifest = ms
    BY <1>1, <2>3 DEF Turn, ms
  <2>. HIDE DEF r1
  <2>5. turn' \in [Turns -> Turn] /\ turn'[t] = r1 /\ OtherTurns(t)
    BY <2>1, <2>4, TurnWrite DEF TypeInv
  <2>. QED  BY <1>2, <2>1, <2>3, <2>4, <2>5 DEF ms, m, op
<1>3. CASE op \notin Reversible
  <2>1. turn' = [turn EXCEPT ![t] = r2] /\ UNCHANGED store
    BY <1>3 DEF MaskValue, TypeInv
  <2>2. kept \in SUBSET AllValues
    BY <1>1
  <2>3. kept = turn[t].plain \/ (kept = turn[t].plain \cup {v} /\ op = "Keep")
    OBVIOUS
  <2>. HIDE DEF kept
  <2>4. /\ r2 \in Turn /\ r2.at = "masking" /\ r2.todo = turn[t].todo \ {v}
        /\ r2.plain = kept /\ r2.manifest = turn[t].manifest
    BY <1>1, <2>2 DEF Turn
  <2>. HIDE DEF r2
  <2>5. turn' \in [Turns -> Turn] /\ turn'[t] = r2 /\ OtherTurns(t)
    BY <2>1, <2>4, TurnWrite DEF TypeInv
  <2>. QED  BY <2>1, <2>3, <2>4, <2>5
<1>. QED  BY <1>2, <1>3

\* A turn that has not begun, or was lost.
LEMMA BlankTurns ==
    /\ NewTurn \in Turn /\ [NewTurn EXCEPT !.at = "lost"] \in Turn
    /\ NewTurn.at = "new" /\ [NewTurn EXCEPT !.at = "lost"].at = "lost"
    /\ \A r \in {NewTurn, [NewTurn EXCEPT !.at = "lost"]} :
          r.todo = {} /\ r.plain = {} /\ r.manifest = <<>> /\ Range(r.manifest) = {}
<1>1. <<>> \in Seq(ManifestEntry)
  OBVIOUS
<1>2. Range(<<>>) = {}
  BY DEF Range
<1>. DEFINE new == NewTurn
            lost == [NewTurn EXCEPT !.at = "lost"]
<1>3. new \in Turn /\ lost \in Turn /\ new.at = "new" /\ lost.at = "lost"
  BY <1>1 DEF NewTurn, Turn
<1>4. new.todo = {} /\ new.plain = {} /\ new.manifest = <<>>
  BY DEF NewTurn
<1>5. lost.todo = {} /\ lost.plain = {} /\ lost.manifest = <<>>
  BY DEF NewTurn
<1>. HIDE DEF new, lost
<1>6. \A r \in {new, lost} :
         r.todo = {} /\ r.plain = {} /\ r.manifest = <<>> /\ Range(r.manifest) = {}
  BY <1>2, <1>4, <1>5
<1>. QED  BY <1>3, <1>6 DEF new, lost

\* unmask_inner gives a value or leaves the token.
LEMMA ResolveType ==
    ASSUME TypeInv, NEW t \in Turns, NEW h, NEW reveal \in BOOLEAN
    PROVE  Resolve(t, h, reveal) \in AllValues \cup {NoValue}
<1>1. turn[t].manifest \in Seq(ManifestEntry)
  BY DEF TypeInv, Turn
<1>2. InManifest(t, h) => FirstEntry(t, h).value \in AllValues
  <2>1. ManifestOf(t) \subseteq ManifestEntry
    BY <1>1 DEF ManifestOf, Range
  <2>2. InManifest(t, h) => FirstEntry(t, h) \in ManifestEntry
    BY <1>1, <2>1, FirstEntryHits
  <2>. QED  BY <2>2 DEF ManifestEntry
<1>3. Known(h) => EntryOf(h).value \in AllValues
  BY EntryFound DEF TypeInv, TypeOK, StoreEntry
<1>4. Reveal(h) \in AllValues \cup {NoValue}
  BY <1>3 DEF Reveal, KindOf
<1>. QED  BY <1>2, <1>4 DEF Resolve

\* What is handed out is well formed.
LEMMA HandOutType ==
    ASSUME NEW channel \in Channels, NEW h \in Handles, NEW v \in AllValues \cup {NoValue},
           NEW own \in BOOLEAN, NEW tool \in Tools \cup BoundaryTools \cup {NoValue},
           NEW host \in Hosts \cup {NoValue}, HandOut(channel, h, v, own, tool, host)
    PROVE  /\ output' \in Output
           /\ output'.channel = channel /\ output'.handle = h /\ output'.value = v
           /\ output'.minted = Known(h) /\ output'.tool = tool /\ output'.host = host
<1>1. Known(h) \in BOOLEAN
  BY DEF Known
<1>. QED  BY <1>1 DEF HandOut, Output

\* The state of the proxy stays well formed.
LEMMA TypesHold == Spec => []TypeInv
<1>1. ASSUME Init
      PROVE  TypeInv
  <2>1. process \in Processes /\ ops \in 0 .. MaxOps
    BY <1>1, BoundAssumption DEF Init, Processes
  <2>2. turn \in [Turns -> Turn] /\ \A t \in Turns : turn[t].at \in {"new", "masking", "reply", "lost"}
    BY <1>1, BlankTurns DEF Init
  <2>3. AdminKeys[1] \in AllValues
    BY KeyAssumption, BoundAssumption DEF AllValues, Range
  <2>4. Nothing \in Output
    <3>1. HandleOf(AdminKeys[1], "Local") \in Handles
      BY <2>3, HandleFacts DEF Reversible
    <3>. QED  BY <3>1 DEF Nothing, Output, Channels
  <2>5. DOMAIN secrets = {} /\ Range(secrets) = {}
    BY <1>1 DEF Init, Range
  <2>6. policy \in Policies /\ broker \in BrokerPolicies \cup {<<>>} /\ ready \in BOOLEAN
    BY <1>1, PolicyAssumption, SecretAssumption DEF Init
  <2>. QED  BY <1>1, <2>1, <2>2, <2>4, <2>5, <2>6 DEF Init, TypeInv, TypeOK
<1>2. ASSUME TypeInv, [Next]_vars
      PROVE  TypeInv'
  <2>0. TypeOK /\ turn \in [Turns -> Turn]
    BY <1>2 DEF TypeInv
  <2>. USE DEF configVars, secretVars, processVars, monitorVars
  <2>1. ASSUME NEW t \in Turns, NEW values \in SUBSET AllValues, Begin(t, values)
        PROVE  TypeInv'
    <3>1. turn' \in [Turns -> Turn]
      BY <1>2, <2>1, BeginStep
    <3>2. \A u \in Turns : turn'[u].at \in {"new", "masking", "reply", "lost"}
      BY <3>1 DEF Turn
    <3>. QED  BY <2>0, <2>1, <3>1, <3>2 DEF Begin, TypeInv, TypeOK
  <2>2. ASSUME NEW t \in Turns, NEW v \in AllValues, NEW bypassed \in BOOLEAN,
               MaskValue(t, v, bypassed)
        PROVE  TypeInv'
    <3>1. turn' \in [Turns -> Turn]
      BY <1>2, <2>2, MaskStep
    <3>2. \A u \in Turns : turn'[u].at \in {"new", "masking", "reply", "lost"}
      BY <3>1 DEF Turn
    <3>3. store' \subseteq StoreEntry
      <4>1. \/ UNCHANGED store
            \/ \E op \in Reversible : store' = WithToken(HandleOf(v, op), Kind(op), v)
        BY <1>2, <2>2, MaskStep
      <4>2. ASSUME NEW op \in Reversible, store' = WithToken(HandleOf(v, op), Kind(op), v)
            PROVE  store' \subseteq StoreEntry
        <5>1. [handle |-> HandleOf(v, op), kind |-> Kind(op), value |-> v] \in StoreEntry
          BY HandleFacts DEF StoreEntry
        <5>. QED  BY <2>0, <4>2, <5>1 DEF WithToken, TypeOK
      <4>. QED  BY <2>0, <4>1, <4>2 DEF TypeOK
    <3>. QED  BY <2>0, <2>2, <3>1, <3>2, <3>3 DEF MaskValue, TypeInv, TypeOK
  <2>3. ASSUME NEW t \in Turns, SendUpstream(t)
        PROVE  TypeInv'
    <3>1. turn' \in [Turns -> Turn]
      BY <1>2, <2>3, SendStep
    <3>2. \A u \in Turns : turn'[u].at \in {"new", "masking", "reply", "lost"}
      BY <3>1 DEF Turn
    <3>3. ManifestOf(t) \subseteq ManifestEntry /\ turn[t].plain \subseteq AllValues
      BY <2>0 DEF Turn, ManifestOf, Range
    <3>4. \A m \in ManifestOf(t) : m.handle \in Handles /\ m.value \in AllValues
      BY <3>3 DEF ManifestEntry
    <3>5. seen' \subseteq Handles /\ recorded' \subseteq AllValues /\ egressed' \subseteq AllValues
      BY <2>0, <2>3, <3>3, <3>4 DEF SendUpstream, TypeOK
    <3>. QED  BY <2>0, <2>3, <3>1, <3>2, <3>5 DEF SendUpstream, TypeInv, TypeOK
  <2>4. ASSUME NEW t \in Turns, NEW h \in seen, NEW channel \in {"display", "tool"},
               Unmask(t, h, channel)
        PROVE  TypeInv'
    <3>. DEFINE v == Resolve(t, h, channel = "display")
    <3>1. v \in AllValues \cup {NoValue} /\ h \in Handles /\ InManifest(t, h) \in BOOLEAN
      BY <1>2, <2>0, ResolveType DEF TypeOK, InManifest
    <3>2. HandOut(channel, h, v, InManifest(t, h), NoValue, NoValue)
      BY <2>4 DEF Unmask
    <3>3. recorded' = IF v = NoValue THEN recorded ELSE recorded \cup ({v} \ Scrubbed(t))
      BY <2>4 DEF Unmask
    <3>. HIDE DEF v
    <3>4. output' \in Output
      BY <3>1, <3>2, HandOutType DEF Channels
    <3>5. recorded' \subseteq AllValues
      BY <2>0, <3>1, <3>3 DEF TypeOK
    <3>. QED  BY <2>0, <2>4, <3>4, <3>5 DEF Unmask, TypeInv, TypeOK
  <2>5. ASSUME NEW h \in seen, Audit(h)
        PROVE  TypeInv'
    <3>. DEFINE v == IF KindOf(h) \in {"Pii", "Local"} THEN EntryOf(h).value ELSE NoValue
    <3>1. v \in AllValues \cup {NoValue} /\ h \in Handles
      BY <2>0, EntryFound DEF TypeOK, KindOf, StoreEntry
    <3>2. HandOut("audit", h, v, FALSE, NoValue, NoValue)
      BY <2>5 DEF Audit
    <3>. HIDE DEF v
    <3>3. output' \in Output
      BY <3>1, <3>2, HandOutType DEF Channels
    <3>. QED  BY <2>0, <2>5, <3>3 DEF Audit, TypeInv, TypeOK
  <2>6. ASSUME NEW h \in seen, NEW tool \in Tools \cup BoundaryTools,
               NEW host \in Hosts \cup {NoValue}, ResolveBroker(h, tool, host)
        PROVE  TypeInv'
    <3>. DEFINE v == IF KindOf(h) = "Broker" /\ Allows(EntryOf(h).value, tool, host)
                     THEN EntryOf(h).value ELSE NoValue
    <3>1. v \in AllValues \cup {NoValue} /\ h \in Handles
      BY <2>0, EntryFound DEF TypeOK, KindOf, StoreEntry
    <3>2. HandOut("broker", h, v, FALSE, tool, host)
      BY <2>6 DEF ResolveBroker
    <3>. HIDE DEF v
    <3>3. output' \in Output
      BY <3>1, <3>2, HandOutType DEF Channels
    <3>. QED  BY <2>0, <2>6, <3>3 DEF ResolveBroker, TypeInv, TypeOK
  <2>7. CASE InstallReserved
    <3>1. store' \subseteq StoreEntry
      BY <2>0, <2>7, ReservedFacts, LocalsAdded DEF InstallReserved, TypeOK
    <3>2. DOMAIN secrets' \subseteq AllValues /\ Range(secrets') \subseteq {"Local", "Broker", "Erase"}
      BY <2>0, <2>7, ReservedFacts DEF InstallReserved, TypeOK
    <3>. QED  BY <2>0, <2>7, <3>1, <3>2 DEF InstallReserved, TypeInv, TypeOK
  <2>8. CASE SeedMonitor \/ OpenIntake
    <3>1. LocalPairs \subseteq AllValues
      BY <2>0 DEF LocalPairs, TypeOK, StoreEntry
    <3>. QED  BY <2>0, <2>8, <3>1 DEF SeedMonitor, OpenIntake, TypeInv, TypeOK
  <2>9. ASSUME NEW resolved \in SUBSET DOMAIN SecretOps, InstallSecrets(resolved)
        PROVE  TypeInv'
    <3>0. process \in Processes /\ store' = WithLocals(RulesOf(resolved))
      BY <2>0, <2>9 DEF InstallSecrets, TypeOK
    <3>1. store' \subseteq StoreEntry
      <4>1. LocalSecrets(RulesOf(resolved)) = {AdminKey}
        BY <3>0, RuleFacts
      <4>2. WithLocals(RulesOf(resolved)) \subseteq store \cup {KeyEntry} /\ KeyEntry \in StoreEntry
        BY <3>0, <4>1, LocalsAdded
      <4>. QED  BY <2>0, <3>0, <4>2 DEF TypeOK
    <3>2. DOMAIN secrets' \subseteq AllValues /\ Range(secrets') \subseteq {"Local", "Broker", "Erase"}
      BY <2>0, <2>9, RuleFacts DEF InstallSecrets, TypeOK
    <3>. QED  BY <2>0, <2>9, <3>1, <3>2 DEF InstallSecrets, TypeInv, TypeOK
  <2>10. CASE RejectSecrets
    BY <2>0, <2>10 DEF RejectSecrets, TypeInv, TypeOK
  <2>11. ASSUME ops < MaxOps, ops' = ops + 1
         PROVE  ops' \in 0 .. MaxOps
    BY <2>0, <2>11, BoundAssumption DEF TypeOK
  <2>12. ASSUME NEW p \in Policies, PutPolicy(p)
         PROVE  TypeInv'
    BY <2>0, <2>11, <2>12 DEF PutPolicy, Live, TypeInv, TypeOK
  <2>13. CASE ToggleEnabled
    BY <2>0, <2>11, <2>13 DEF ToggleEnabled, Live, TypeInv, TypeOK
  <2>14. ASSUME NEW p \in Policies, NEW rules \in BrokerPolicies \cup {<<>>}, Reload(p, rules)
         PROVE  TypeInv'
    BY <2>0, <2>11, <2>14 DEF Reload, Live, TypeInv, TypeOK
  <2>15. CASE Restart
    <3>1. turn' \in [Turns -> Turn]
      BY <2>15, BlankTurns DEF Restart
    <3>2. \A u \in Turns : turn'[u].at \in {"new", "masking", "reply", "lost"}
      BY <3>1 DEF Turn
    <3>3. DOMAIN secrets' = {} /\ Range(secrets') = {}
      BY <2>15 DEF Restart, Range
    <3>4. ready' \in BOOLEAN /\ policy' \in Policies
      BY <2>15, PolicyAssumption, SecretAssumption DEF Restart
    <3>. QED  BY <2>0, <2>11, <2>15, <3>1, <3>2, <3>3, <3>4 DEF Restart, TypeInv, TypeOK
  <2>16. CASE UNCHANGED vars
    BY <2>0, <2>16 DEF vars, TypeInv, TypeOK
  <2>. QED  BY <1>2, <2>1, <2>2, <2>3, <2>4, <2>5, <2>6, <2>7, <2>8, <2>9, <2>10, <2>12, <2>13,
            <2>14, <2>15, <2>16 DEF Next
<1>. QED  BY <1>1, <1>2, PTL DEF Spec

-----------------------------------------------------------------------------
(* Required secrets *)

\* The rules in force.  A process that serves has its key among them, and a gate
\* that is open, for required secrets, has all of them: so no turn that masks was
\* let in without.
RulesInv ==
    /\ boot # "rules" => AdminKey \in DOMAIN secrets /\ secrets[AdminKey] = "Local"
    /\ boot # "serving" =>
          install = "resolving" /\ \A t \in Turns : turn[t].at \in {"new", "lost"}
    /\ \A v \in DOMAIN secrets : v \in DOMAIN SecretOps => secrets[v] = SecretOps[v]
    /\ Required /\ ready => install = "done"
    /\ Required /\ (ready \/ install = "installed") => DOMAIN SecretOps \subseteq DOMAIN secrets
    /\ \A t \in Turns : turn[t].at = "masking" => ready

\* No request holds a required secret in plaintext.
PlainInv ==
    Required =>
        /\ \A t \in Turns : turn[t].plain \cap DOMAIN SecretOps = {}
        /\ egressed \cap DOMAIN SecretOps = {}

\* The operator a value gets while a turn masks: the rule of the key, and the
\* rule of a required secret, whatever was bypassed or switched off.
LEMMA OperatorFacts ==
    ASSUME RulesInv, NEW t \in Turns, turn[t].at = "masking", NEW v, NEW bypassed
    PROVE  /\ v = AdminKey => OperatorFor(v, bypassed) = "Local"
           /\ Required /\ v \in DOMAIN SecretOps => OperatorFor(v, bypassed) = SecretOps[v]
<1>1. boot = "serving" /\ ready
  BY DEF RulesInv
<1>2. AdminKey \in DOMAIN secrets /\ secrets[AdminKey] = "Local"
  BY <1>1 DEF RulesInv
<1>3. Required /\ v \in DOMAIN SecretOps => v \in DOMAIN secrets /\ secrets[v] = SecretOps[v]
  BY <1>1 DEF RulesInv
<1>. QED  BY <1>2, <1>3 DEF OperatorFor

\* The rules stay in force.
LEMMA RulesHold == Spec => []RulesInv
<1>. USE DEF configVars, secretVars, processVars, monitorVars
<1>1. ASSUME Init
      PROVE  RulesInv
  <2>1. DOMAIN secrets = {}
    BY <1>1 DEF Init
  <2>2. \A t \in Turns : turn[t].at = "new"
    BY <1>1, BlankTurns DEF Init
  <2>. QED  BY <1>1, <2>1, <2>2 DEF Init, RulesInv
<1>2. ASSUME TypeInv, RulesInv, [Next]_vars
      PROVE  RulesInv'
  <2>0. process \in Processes
    BY <1>2 DEF TypeInv, TypeOK
  <2>1. ASSUME NEW t \in Turns, NEW values \in SUBSET AllValues, Begin(t, values)
        PROVE  RulesInv'
    <3>1. OtherTurns(t) /\ turn'[t].at = "masking"
      BY <1>2, <2>1, BeginStep
    <3>2. boot = "serving" /\ ready /\ UNCHANGED <<process, boot, secrets, install, ready>>
      BY <2>1 DEF Begin
    <3>. QED  BY <1>2, <3>1, <3>2 DEF RulesInv, OtherTurns, AdminKey
  <2>2. ASSUME NEW t \in Turns, NEW v \in AllValues, NEW bypassed \in BOOLEAN,
               MaskValue(t, v, bypassed)
        PROVE  RulesInv'
    <3>1. OtherTurns(t) /\ turn'[t].at = "masking"
      BY <1>2, <2>2, MaskStep
    <3>2. turn[t].at = "masking" /\ UNCHANGED <<process, boot, secrets, install, ready>>
      BY <2>2 DEF MaskValue
    <3>. QED  BY <1>2, <3>1, <3>2 DEF RulesInv, OtherTurns, AdminKey
  <2>3. ASSUME NEW t \in Turns, SendUpstream(t)
        PROVE  RulesInv'
    <3>1. OtherTurns(t) /\ turn'[t].at = "reply"
      BY <1>2, <2>3, SendStep
    <3>2. turn[t].at = "masking" /\ UNCHANGED <<process, boot, secrets, install, ready>>
      BY <2>3 DEF SendUpstream
    <3>. QED  BY <1>2, <3>1, <3>2 DEF RulesInv, OtherTurns, AdminKey
  <2>4. CASE UNCHANGED <<process, boot, secrets, install, ready, turn>>
    BY <1>2, <2>4 DEF RulesInv, AdminKey
  <2>5. ASSUME NEW h \in seen
        PROVE  /\ \A t \in Turns, channel \in {"display", "tool"} :
                     Unmask(t, h, channel) => UNCHANGED <<process, boot, secrets, install, ready, turn>>
               /\ Audit(h) => UNCHANGED <<process, boot, secrets, install, ready, turn>>
               /\ \A tool \in Tools \cup BoundaryTools, host \in Hosts \cup {NoValue} :
                     ResolveBroker(h, tool, host)
                        => UNCHANGED <<process, boot, secrets, install, ready, turn>>
    BY DEF Unmask, Audit, ResolveBroker
  <2>6. CASE InstallReserved
    <3>1. /\ boot = "rules" /\ boot' = "seed" /\ secrets' = ReservedRules
          /\ UNCHANGED <<process, install, ready, turn>>
      BY <2>6 DEF InstallReserved
    <3>2. AdminKey' = AdminKey /\ AdminKey \notin DOMAIN SecretOps
      BY <2>0, <3>1, KeyFacts, SecretAssumption DEF AdminKey
    <3>3. Required => ~ ready /\ install # "installed"
      BY <1>2, <3>1 DEF RulesInv
    <3>. QED  BY <1>2, <2>0, <3>1, <3>2, <3>3, ReservedFacts DEF RulesInv
  <2>7. CASE SeedMonitor
    <3>1. boot = "seed" /\ boot' = "serving" /\ UNCHANGED <<process, secrets, install, ready, turn>>
      BY <2>7 DEF SeedMonitor
    <3>. QED  BY <1>2, <3>1 DEF RulesInv, AdminKey
  <2>8. ASSUME NEW resolved \in SUBSET DOMAIN SecretOps, InstallSecrets(resolved)
        PROVE  RulesInv'
    <3>1. /\ boot = "serving" /\ install = "resolving" /\ secrets' = RulesOf(resolved)
          /\ install' = IF Required /\ resolved # DOMAIN SecretOps THEN "failed" ELSE "installed"
          /\ UNCHANGED <<process, boot, ready, turn>>
      BY <2>8 DEF InstallSecrets
    <3>2. AdminKey' = AdminKey /\ AdminKey \notin DOMAIN SecretOps
      BY <2>0, <3>1, KeyFacts, SecretAssumption DEF AdminKey
    <3>3. Required => ~ ready
      BY <1>2, <3>1 DEF RulesInv
    <3>4. /\ DOMAIN secrets' = {AdminKey} \cup resolved /\ secrets'[AdminKey] = "Local"
          /\ \A v \in resolved : secrets'[v] = SecretOps[v]
      BY <2>0, <3>1, RuleFacts
    <3>. QED  BY <1>2, <3>1, <3>2, <3>3, <3>4 DEF RulesInv
  <2>9. CASE RejectSecrets
    <3>1. /\ boot = "serving" /\ install = "resolving" /\ install' = "failed"
          /\ UNCHANGED <<process, boot, secrets, ready, turn>>
      BY <2>9 DEF RejectSecrets
    <3>. QED  BY <1>2, <3>1 DEF RulesInv, AdminKey
  <2>10. CASE OpenIntake
    <3>1. /\ boot = "serving" /\ install' = "done" /\ ready' = (ready \/ install = "installed")
          /\ UNCHANGED <<process, boot, secrets, turn>>
      BY <2>10 DEF OpenIntake
    <3>. QED  BY <1>2, <3>1 DEF RulesInv, AdminKey
  <2>11. (\E p \in Policies : PutPolicy(p)) \/ ToggleEnabled
            \/ (\E p \in Policies, rules \in BrokerPolicies \cup {<<>>} : Reload(p, rules))
            => UNCHANGED <<process, boot, secrets, install, ready, turn>>
    BY DEF PutPolicy, ToggleEnabled, Reload
  <2>12. CASE Restart
    <3>1. boot' = "rules" /\ install' = "resolving" /\ ready' = ~ Required /\ DOMAIN secrets' = {}
      BY <2>12 DEF Restart
    <3>2. \A t \in Turns : turn'[t].at \in {"new", "lost"}
      BY <2>12, BlankTurns DEF Restart
    <3>. QED  BY <3>1, <3>2 DEF RulesInv
  <2>13. CASE UNCHANGED vars
    BY <2>4, <2>13 DEF vars
  <2>. QED  BY <1>2, <2>1, <2>2, <2>3, <2>4, <2>5, <2>6, <2>7, <2>8, <2>9, <2>10, <2>11, <2>12,
            <2>13 DEF Next
<1>. QED  BY <1>1, <1>2, TypesHold, PTL DEF Spec

\* A required secret never goes upstream in plaintext, for any number of turns,
\* processes, policies and secrets.
THEOREM NeverEgresses == Spec => []RequiredSecretsNeverEgress
<1>. USE DEF configVars, secretVars, processVars, monitorVars
<1>1. ASSUME Init
      PROVE  PlainInv
  BY <1>1, BlankTurns DEF Init, PlainInv
<1>2. ASSUME TypeInv, RulesInv, PlainInv, [Next]_vars
      PROVE  PlainInv'
  <2>. SUFFICES ASSUME Required PROVE PlainInv'
    BY DEF PlainInv
  <2>0. /\ \A t \in Turns : turn[t].plain \cap DOMAIN SecretOps = {}
        /\ egressed \cap DOMAIN SecretOps = {}
    BY <1>2 DEF PlainInv
  <2>1. ASSUME NEW t \in Turns, NEW values \in SUBSET AllValues, Begin(t, values)
        PROVE  PlainInv'
    <3>1. OtherTurns(t) /\ turn'[t].plain = turn[t].plain
      BY <1>2, <2>1, BeginStep
    <3>2. UNCHANGED egressed
      BY <2>1 DEF Begin
    <3>. QED  BY <2>0, <3>1, <3>2 DEF PlainInv, OtherTurns
  <2>2. ASSUME NEW t \in Turns, NEW v \in AllValues, NEW bypassed \in BOOLEAN,
               MaskValue(t, v, bypassed)
        PROVE  PlainInv'
    <3>1. /\ OtherTurns(t)
          /\ \/ turn'[t].plain = turn[t].plain
             \/ turn'[t].plain = turn[t].plain \cup {v} /\ OperatorFor(v, bypassed) = "Keep"
      BY <1>2, <2>2, MaskStep
    <3>2. turn[t].at = "masking" /\ UNCHANGED egressed
      BY <2>2 DEF MaskValue
    <3>3. v \in DOMAIN SecretOps => OperatorFor(v, bypassed) = SecretOps[v]
      BY <1>2, <3>2, OperatorFacts
    <3>4. v \in DOMAIN SecretOps => SecretOps[v] # "Keep"
      BY SecretAssumption DEF Range
    <3>. QED  BY <2>0, <3>1, <3>2, <3>3, <3>4 DEF PlainInv, OtherTurns
  <2>3. ASSUME NEW t \in Turns, SendUpstream(t)
        PROVE  PlainInv'
    <3>1. OtherTurns(t) /\ turn'[t].plain = turn[t].plain
      BY <1>2, <2>3, SendStep
    <3>2. egressed' = egressed \cup turn[t].plain
      BY <2>3 DEF SendUpstream
    <3>. QED  BY <2>0, <3>1, <3>2 DEF PlainInv, OtherTurns
  <2>4. CASE Restart
    <3>1. UNCHANGED egressed /\ \A t \in Turns : turn'[t].plain = {}
      BY <2>4, BlankTurns DEF Restart
    <3>. QED  BY <2>0, <3>1 DEF PlainInv
  <2>5. CASE UNCHANGED <<turn, egressed>>
    BY <2>0, <2>5 DEF PlainInv
  <2>6. ASSUME NEW h \in seen
        PROVE  /\ \A t \in Turns, channel \in {"display", "tool"} :
                     Unmask(t, h, channel) => UNCHANGED <<turn, egressed>>
               /\ Audit(h) => UNCHANGED <<turn, egressed>>
               /\ \A tool \in Tools \cup BoundaryTools, host \in Hosts \cup {NoValue} :
                     ResolveBroker(h, tool, host) => UNCHANGED <<turn, egressed>>
    BY DEF Unmask, Audit, ResolveBroker
  <2>7. \/ InstallReserved \/ SeedMonitor \/ RejectSecrets \/ OpenIntake \/ ToggleEnabled
        \/ (\E resolved \in SUBSET DOMAIN SecretOps : InstallSecrets(resolved))
        \/ (\E p \in Policies : PutPolicy(p)) \/ UNCHANGED vars
        \/ (\E p \in Policies, rules \in BrokerPolicies \cup {<<>>} : Reload(p, rules))
        => UNCHANGED <<turn, egressed>>
    BY DEF InstallReserved, SeedMonitor, InstallSecrets, RejectSecrets, OpenIntake, PutPolicy,
       ToggleEnabled, Reload, vars
  <2>. QED  BY <1>2, <2>1, <2>2, <2>3, <2>4, <2>5, <2>6, <2>7 DEF Next
<1>3. PlainInv => RequiredSecretsNeverEgress
  BY DEF PlainInv, RequiredSecretsNeverEgress
<1>. QED  BY <1>1, <1>2, <1>3, TypesHold, RulesHold, PTL DEF Spec

-----------------------------------------------------------------------------
(* Where values come back *)

BrokerSecrets == {v \in DOMAIN SecretOps : SecretOps[v] = "Broker"}

\* The values this and earlier processes can have met.
KnownValues == Values \cup {AdminKeys[i] : i \in 1 .. process}

\* A token that may stand for v: minted for it, and of the class that the rules
\* prescribe for the process's key and for a required broker secret.
Placed(h, v) ==
    /\ v \in KnownValues
    /\ h \in {HandleOf(v, op) : op \in Reversible}
    /\ v = AdminKey => h.kind = "Local"
    /\ Required /\ v \in BrokerSecrets => h.kind = "Broker"

\* An entry of the store, with the kind of its token.
EntryOK(e) ==
    /\ Placed(e.handle, e.value)
    /\ e.kind = IF e.handle.kind = "Literal" THEN "Pii" ELSE e.handle.kind

\* Store and manifests hold such tokens only, and the monitor knows the key.
EntriesInv ==
    /\ \A e \in store : EntryOK(e)
    /\ \A t \in Turns : \A m \in ManifestOf(t) : Placed(m.handle, m.value)
    /\ \A t \in Turns : turn[t].todo \subseteq KnownValues
    /\ boot # "rules" => \E e \in store : e.kind = "Local" /\ e.value = AdminKey
    /\ boot = "serving" => AdminKey \in seeds

\* What was handed out last.
OutputInv ==
    /\ output.value \in KnownValues \cup {NoValue}
    /\ output.value # NoValue => output.handle \in {HandleOf(output.value, op) : op \in Reversible}
    /\ output.channel \in {"display", "tool"} /\ output.handle.kind = "Pii" /\ output.minted
            => output.value = output.handle.of
    /\ Required /\ output.channel \in {"display", "tool", "audit"} =>
            output.value \notin BrokerSecrets
    /\ ~ (output.channel = "tool" /\ output.value = AdminKey)

\* What the broker released, one rule of one policy allows.
ReleaseInv ==
    output.channel = "broker" /\ output.value # NoValue =>
        /\ output.tool \notin BoundaryTools
        /\ \E rules \in BrokerPolicies : \E i \in DOMAIN rules :
              /\ output.value \in rules[i].secrets /\ output.tool \in rules[i].tools
              /\ rules[i].anyHost \/ output.host \in rules[i].hosts

\* Placement depends on the process alone.
LEMMA PlacedStays == ASSUME UNCHANGED process, NEW h, NEW v PROVE Placed(h, v)' <=> Placed(h, v)
  BY DEF Placed, KnownValues, AdminKey

\* A known value is a value; the key of the running process is one.
LEMMA KnownFacts ==
    ASSUME process \in Processes
    PROVE  KnownValues \subseteq AllValues /\ AdminKey \in KnownValues
<1>1. process \in 1 .. process /\ \A i \in 1 .. process : i \in DOMAIN AdminKeys
  BY KeyAssumption, BoundAssumption DEF Processes
<1>. QED  BY <1>1 DEF KnownValues, AllValues, AdminKey, Range

\* The token a masking turn gives to v is one that may stand for it.
LEMMA MaskPlaces ==
    ASSUME TypeInv, RulesInv, NEW t \in Turns, turn[t].at = "masking", NEW v \in KnownValues,
           NEW bypassed, NEW op \in Reversible, op = OperatorFor(v, bypassed)
    PROVE  Placed(HandleOf(v, op), v)
<1>0. process \in Processes /\ v \in AllValues
  BY KnownFacts DEF TypeInv, TypeOK
<1>1. HandleOf(v, op).kind = IF op = "Token" THEN "Pii" ELSE op
  BY <1>0, HandleFacts
<1>2. v = AdminKey => op = "Local"
  BY OperatorFacts
<1>3. Required /\ v \in BrokerSecrets => op = "Broker"
  BY OperatorFacts DEF BrokerSecrets
<1>. QED  BY <1>1, <1>2, <1>3 DEF Placed

\* The entry of the process's key is one that may be in the store.
LEMMA KeyPlaced ==
    ASSUME process \in Processes
    PROVE  /\ Placed(KeyEntry.handle, KeyEntry.value) /\ KeyEntry.kind = "Local"
           /\ KeyEntry.handle.kind = "Local" /\ KeyEntry.value = AdminKey
<1>1. AdminKey \in AllValues /\ AdminKey \in KnownValues /\ AdminKey \notin BrokerSecrets
  BY KeyFacts, KnownFacts, SecretAssumption DEF BrokerSecrets
<1>2. "Local" \in Reversible
  BY DEF Reversible
<1>3. HandleOf(AdminKey, "Local").kind = "Local"
  BY <1>1, <1>2, HandleFacts
<1>4. KeyEntry.handle = HandleOf(AdminKey, "Local") /\ KeyEntry.value = AdminKey /\ KeyEntry.kind = "Local"
  BY DEF KeyEntry
<1>. QED  BY <1>1, <1>2, <1>3, <1>4 DEF Placed

\* A Local token that stands for the key stands for nothing else.
LEMMA PlacedLocal ==
    ASSUME process \in Processes, NEW h, NEW v, Placed(h, v), h.kind # "Literal"
    PROVE  h.of = v
<1>1. PICK op \in Reversible : h = HandleOf(v, op)
  BY DEF Placed
<1>2. v \in AllValues
  BY KnownFacts DEF Placed
<1>3. op # "Literal" /\ (op # "Literal" => h.of = v)
  BY <1>1, <1>2, HandleFacts
<1>. QED  BY <1>3

\* set_secret_rules leaves the key's own entry in the store.
LEMMA LocalsPlaced ==
    ASSUME TypeInv, EntriesInv, NEW rules, LocalSecrets(rules) = {AdminKey},
           store' = WithLocals(rules), UNCHANGED process
    PROVE  /\ \A e \in store' : EntryOK(e)'
           /\ \E e \in store' : e.kind = "Local" /\ e.value = AdminKey'
<1>0. process \in Processes /\ AdminKey' = AdminKey
  BY DEF TypeInv, TypeOK, AdminKey
<1>1. /\ store' \subseteq store \cup {KeyEntry} /\ store \subseteq store'
      /\ Known(HandleOf(AdminKey, "Local")) \/ KeyEntry \in store'
  BY <1>0, LocalsAdded
<1>2. /\ Placed(KeyEntry.handle, KeyEntry.value) /\ KeyEntry.kind = "Local"
      /\ KeyEntry.handle.kind = "Local" /\ KeyEntry.value = AdminKey
  BY <1>0, KeyPlaced
<1>3. \A e \in store' : EntryOK(e)
  BY <1>1, <1>2 DEF EntriesInv, EntryOK
<1>4. \A e \in store' : EntryOK(e)'
  BY <1>3, PlacedStays DEF EntryOK
<1>5. CASE Known(HandleOf(AdminKey, "Local"))
  <2>. DEFINE h == HandleOf(AdminKey, "Local")
              e == EntryOf(h)
  <2>1. e \in store /\ e.handle = h
    BY <1>5, EntryFound
  <2>2. h.kind = "Local" /\ h.of = AdminKey
    BY <1>0, KeyFacts, HandleFacts DEF Reversible
  <2>3. EntryOK(e)
    BY <2>1 DEF EntriesInv
  <2>. HIDE DEF e, h
  <2>4. Placed(h, e.value) /\ e.kind = "Local"
    BY <2>1, <2>2, <2>3 DEF EntryOK
  <2>5. h.of = e.value
    BY <1>0, <2>2, <2>4, PlacedLocal
  <2>. QED  BY <1>0, <1>1, <1>4, <2>1, <2>2, <2>4, <2>5
<1>. QED  BY <1>0, <1>1, <1>2, <1>4, <1>5

\* Every token stays where it was placed.
LEMMA EntriesHold == Spec => []EntriesInv
<1>. USE DEF configVars, secretVars, processVars, monitorVars
<1>1. ASSUME Init
      PROVE  EntriesInv
  <2>1. store = {} /\ boot = "rules"
    BY <1>1 DEF Init
  <2>2. \A t \in Turns : ManifestOf(t) = {} /\ turn[t].todo = {}
    BY <1>1, BlankTurns DEF Init, ManifestOf
  <2>. QED  BY <2>1, <2>2 DEF EntriesInv
<1>2. ASSUME TypeInv, RulesInv, EntriesInv, [Next]_vars
      PROVE  EntriesInv'
  <2>0. process \in Processes
    BY <1>2 DEF TypeInv, TypeOK
  <2>1. ASSUME UNCHANGED process
        PROVE  /\ \A e : EntryOK(e)' <=> EntryOK(e)
               /\ KnownValues' = KnownValues /\ AdminKey' = AdminKey
    BY <2>1, PlacedStays DEF EntryOK, KnownValues, AdminKey
  <2>2. ASSUME NEW t \in Turns, UNCHANGED <<process, boot, store, seeds>>, OtherTurns(t),
               turn'[t].manifest = turn[t].manifest, turn'[t].todo \subseteq KnownValues
        PROVE  EntriesInv'
    <3>1. \A u \in Turns : ManifestOf(u)' = ManifestOf(u)
      BY <2>2 DEF OtherTurns, ManifestOf
    <3>2. \A u \in Turns : turn'[u].todo \subseteq KnownValues
      BY <1>2, <2>2 DEF OtherTurns, EntriesInv
    <3>3. \A u \in Turns : \A m \in ManifestOf(u)' : Placed(m.handle, m.value)'
      BY <1>2, <2>2, <3>1, PlacedStays DEF EntriesInv
    <3>. QED  BY <1>2, <2>1, <2>2, <3>2, <3>3 DEF EntriesInv
  <2>3. ASSUME NEW t \in Turns, NEW values \in SUBSET AllValues, Begin(t, values)
        PROVE  EntriesInv'
    <3>1. UNCHANGED <<process, boot, store, seeds>> /\ values \subseteq KnownValues
      BY <2>3 DEF Begin, KnownValues
    <3>. QED  BY <1>2, <2>2, <2>3, <3>1, BeginStep
  <2>4. ASSUME NEW t \in Turns, SendUpstream(t)
        PROVE  EntriesInv'
    <3>1. UNCHANGED <<process, boot, store, seeds>> /\ turn[t].todo \subseteq KnownValues
      BY <1>2, <2>4 DEF SendUpstream, EntriesInv
    <3>. QED  BY <1>2, <2>2, <2>4, <3>1, SendStep
  <2>5. ASSUME NEW t \in Turns, NEW v \in AllValues, NEW bypassed \in BOOLEAN,
               MaskValue(t, v, bypassed)
        PROVE  EntriesInv'
    <3>1. UNCHANGED <<process, boot, seeds>> /\ turn[t].at = "masking" /\ v \in turn[t].todo
      BY <2>5 DEF MaskValue
    <3>2. v \in KnownValues /\ turn[t].todo \subseteq KnownValues
      BY <1>2, <3>1 DEF EntriesInv
    <3>3. /\ OtherTurns(t) /\ turn'[t].todo = turn[t].todo \ {v}
          /\ \/ \E op \in Reversible :
                   /\ op = OperatorFor(v, bypassed)
                   /\ store' = WithToken(HandleOf(v, op), Kind(op), v)
                   /\ Range(turn'[t].manifest)
                         = ManifestOf(t) \cup {[handle |-> HandleOf(v, op), value |-> v]}
             \/ UNCHANGED store /\ turn'[t].manifest = turn[t].manifest
      BY <1>2, <2>5, MaskStep
    <3>4. CASE UNCHANGED store /\ turn'[t].manifest = turn[t].manifest
      BY <2>2, <3>1, <3>2, <3>3, <3>4
    <3>5. ASSUME NEW op \in Reversible, op = OperatorFor(v, bypassed),
                 store' = WithToken(HandleOf(v, op), Kind(op), v),
                 Range(turn'[t].manifest)
                    = ManifestOf(t) \cup {[handle |-> HandleOf(v, op), value |-> v]}
          PROVE  EntriesInv'
      <4>. DEFINE h == HandleOf(v, op)
                  e == [handle |-> h, kind |-> Kind(op), value |-> v]
      <4>1. Placed(h, v)
        BY <1>2, <3>1, <3>2, <3>5, MaskPlaces
      <4>2. Kind(op) = IF h.kind = "Literal" THEN "Pii" ELSE h.kind
        BY HandleFacts
      <4>3. store' \subseteq store \cup {e} /\ store \subseteq store'
        BY <3>5 DEF WithToken
      <4>. HIDE DEF h
      <4>4. EntryOK(e)
        BY <4>1, <4>2 DEF EntryOK
      <4>5. \A x \in store' : EntryOK(x)'
        BY <1>2, <2>1, <3>1, <4>3, <4>4 DEF EntriesInv
      <4>6. ASSUME NEW u \in Turns, NEW m \in ManifestOf(u)'
            PROVE  Placed(m.handle, m.value)'
        <5>1. CASE u = t
          <6>1. m \in ManifestOf(t) \/ m = [handle |-> h, value |-> v]
            BY <3>5, <5>1, <4>6 DEF ManifestOf, h
          <6>2. Placed(m.handle, m.value)
            BY <1>2, <4>1, <6>1 DEF EntriesInv
          <6>. QED  BY <3>1, <6>2, PlacedStays
        <5>2. CASE u # t
          <6>1. m \in ManifestOf(u)
            BY <3>3, <4>6, <5>2 DEF ManifestOf, OtherTurns
          <6>2. Placed(m.handle, m.value)
            BY <1>2, <6>1 DEF EntriesInv
          <6>. QED  BY <3>1, <6>2, PlacedStays
        <5>. QED  BY <5>1, <5>2
      <4>7. \A u \in Turns : turn'[u].todo \subseteq KnownValues
        BY <1>2, <3>2, <3>3 DEF OtherTurns, EntriesInv
      <4>8. /\ boot' # "rules" => \E x \in store' : x.kind = "Local" /\ x.value = AdminKey'
            /\ boot' = "serving" => AdminKey' \in seeds'
        BY <1>2, <2>1, <3>1, <4>3 DEF EntriesInv
      <4>. QED  BY <2>1, <3>1, <4>5, <4>6, <4>7, <4>8 DEF EntriesInv
    <3>. QED  BY <3>3, <3>4, <3>5
  <2>6. ASSUME UNCHANGED <<process, turn>>, \A e \in store' : EntryOK(e)',
               boot' # "rules" => \E e \in store' : e.kind = "Local" /\ e.value = AdminKey',
               boot' = "serving" => AdminKey' \in seeds'
        PROVE  EntriesInv'
    <3>1. \A u \in Turns : \A m \in ManifestOf(u)' : Placed(m.handle, m.value)'
      BY <1>2, <2>6, PlacedStays DEF EntriesInv, ManifestOf
    <3>2. \A u \in Turns : turn'[u].todo \subseteq KnownValues'
      BY <1>2, <2>1, <2>6 DEF EntriesInv
    <3>. QED  BY <2>6, <3>1, <3>2 DEF EntriesInv
  <2>7. CASE UNCHANGED <<process, boot, store, seeds, turn>>
    BY <1>2, <2>1, <2>6, <2>7 DEF EntriesInv
  <2>8. CASE InstallReserved
    <3>1. /\ UNCHANGED <<process, turn>> /\ boot' = "seed" /\ store' = WithLocals(ReservedRules)
      BY <2>8 DEF InstallReserved
    <3>2. LocalSecrets(ReservedRules) = {AdminKey}
      BY <2>0, ReservedFacts
    <3>. QED  BY <1>2, <2>6, <3>1, <3>2, LocalsPlaced
  <2>9. ASSUME NEW resolved \in SUBSET DOMAIN SecretOps, InstallSecrets(resolved)
        PROVE  EntriesInv'
    <3>1. /\ UNCHANGED <<process, boot, seeds, turn>> /\ store' = WithLocals(RulesOf(resolved))
      BY <2>9 DEF InstallSecrets
    <3>2. LocalSecrets(RulesOf(resolved)) = {AdminKey}
      BY <2>0, RuleFacts
    <3>3. boot' = "serving" => AdminKey' \in seeds'
      BY <1>2, <2>1, <3>1 DEF EntriesInv
    <3>. QED  BY <1>2, <2>6, <3>1, <3>2, <3>3, LocalsPlaced
  <2>10. CASE SeedMonitor \/ OpenIntake
    <3>1. /\ UNCHANGED <<process, store, turn>> /\ boot \in {"seed", "serving"}
          /\ seeds' = LocalPairs
      BY <2>10 DEF SeedMonitor, OpenIntake
    <3>2. PICK e \in store : e.kind = "Local" /\ e.value = AdminKey
      BY <1>2, <3>1 DEF EntriesInv
    <3>3. AdminKey \in LocalPairs
      BY <3>2 DEF LocalPairs
    <3>. QED  BY <1>2, <2>1, <2>6, <3>1, <3>2, <3>3 DEF EntriesInv
  <2>11. CASE Restart
    <3>1. store' = {} /\ boot' = "rules"
      BY <2>11 DEF Restart
    <3>2. \A t \in Turns : ManifestOf(t)' = {} /\ turn'[t].todo = {}
      BY <2>11, BlankTurns DEF Restart, ManifestOf
    <3>. QED  BY <3>1, <3>2 DEF EntriesInv
  <2>12. ASSUME NEW h \in seen
         PROVE  /\ \A t \in Turns, channel \in {"display", "tool"} :
                      Unmask(t, h, channel) => UNCHANGED <<process, boot, store, seeds, turn>>
                /\ Audit(h) => UNCHANGED <<process, boot, store, seeds, turn>>
                /\ \A tool \in Tools \cup BoundaryTools, host \in Hosts \cup {NoValue} :
                      ResolveBroker(h, tool, host) => UNCHANGED <<process, boot, store, seeds, turn>>
    BY DEF Unmask, Audit, ResolveBroker
  <2>13. \/ RejectSecrets \/ ToggleEnabled \/ (\E p \in Policies : PutPolicy(p)) \/ UNCHANGED vars
         \/ (\E p \in Policies, rules \in BrokerPolicies \cup {<<>>} : Reload(p, rules))
         => UNCHANGED <<process, boot, store, seeds, turn>>
    BY DEF RejectSecrets, PutPolicy, ToggleEnabled, Reload, vars
  <2>. QED  BY <1>2, <2>3, <2>4, <2>5, <2>7, <2>8, <2>9, <2>10, <2>11, <2>12, <2>13 DEF Next
<1>. QED  BY <1>1, <1>2, TypesHold, RulesHold, PTL DEF Spec

\* unmask_inner: only a value the token may stand for, never for a broker token,
\* and never for a Local one in a tool input; and a PII token of this process
\* always gives one.
LEMMA ResolveFacts ==
    ASSUME TypeInv, EntriesInv, NEW t \in Turns, NEW h, NEW reveal \in BOOLEAN
    PROVE  /\ Resolve(t, h, reveal) # NoValue =>
                 /\ Placed(h, Resolve(t, h, reveal)) /\ h.kind # "Broker"
                 /\ ~ reveal => h.kind # "Local"
           /\ h.kind = "Pii" /\ Known(h) => Resolve(t, h, reveal) # NoValue
<1>0. process \in Processes /\ turn[t].manifest \in Seq(ManifestEntry)
  BY DEF TypeInv, TypeOK, Turn
<1>1. Known(h) => Placed(h, EntryOf(h).value)
                  /\ EntryOf(h).kind = IF h.kind = "Literal" THEN "Pii" ELSE h.kind
  BY EntryFound DEF EntriesInv, EntryOK
<1>2. InManifest(t, h) => Placed(h, FirstEntry(t, h).value)
  BY <1>0, FirstEntryHits DEF EntriesInv
<1>3. \A v : Placed(h, v) => v # NoValue
  BY <1>0, KnownFacts, ValueAssumption DEF Placed
<1>4. Reveal(h) # NoValue => Known(h) /\ h.kind # "Literal" /\ Reveal(h) = EntryOf(h).value
                             /\ KindOf(h) \in {"Pii", "Local"} /\ KindOf(h) = EntryOf(h).kind
  BY DEF Reveal, KindOf
<1>5. h.kind = "Pii" /\ Known(h) => Reveal(h) = EntryOf(h).value /\ KindOf(h) = "Pii"
  BY <1>1 DEF Reveal, KindOf
<1>6. CASE h.kind = "Broker"
  BY <1>6 DEF Resolve
<1>7. CASE h.kind # "Broker" /\ InManifest(t, h)
  BY <1>2, <1>3, <1>7 DEF Resolve, IsLocal
<1>8. CASE h.kind # "Broker" /\ ~ InManifest(t, h)
  <2>1. CASE KindOf(h) = "Local" /\ ~ reveal
    BY <1>5, <1>8, <2>1 DEF Resolve, IsLocal
  <2>2. CASE KindOf(h) # "Local" \/ reveal
    <3>1. Resolve(t, h, reveal) = Reveal(h)
      BY <1>8, <2>2 DEF Resolve, IsLocal
    <3>. QED  BY <1>1, <1>3, <1>4, <1>5, <1>8, <2>2, <3>1
  <2>. QED  BY <2>1, <2>2
<1>. QED  BY <1>6, <1>7, <1>8

\* What the broker allows, a rule of a policy in force allows; an MCP, sub-agent
\* or shell tool never.
LEMMA AllowsFacts ==
    ASSUME broker \in BrokerPolicies \cup {<<>>}, NEW v, NEW tool, NEW host, Allows(v, tool, host)
    PROVE  /\ tool \notin BoundaryTools
           /\ \E rules \in BrokerPolicies : \E i \in DOMAIN rules :
                 /\ v \in rules[i].secrets /\ tool \in rules[i].tools
                 /\ rules[i].anyHost \/ host \in rules[i].hosts
<1>. DEFINE hits == {i \in DOMAIN broker : Matches(broker[i], v, tool)}
            i == CHOOSE i \in hits : \A j \in hits : i <= j
<1>1. /\ tool \notin BoundaryTools /\ hits # {}
      /\ broker[i].anyHost \/ host \in broker[i].hosts
  BY DEF Allows
<1>2. broker \in Seq(Rule) /\ (broker = <<>> => hits = {})
  <2>1. <<>> \in Seq(Rule) /\ DOMAIN <<>> = {}
    OBVIOUS
  <2>2. broker \in Seq(Rule)
    BY <2>1, RuleAssumption
  <2>3. broker = <<>> => hits = {}
    BY <2>1
  <2>. QED  BY <2>2, <2>3
<1>3. hits \subseteq Nat
  BY <1>2
<1>4. i \in hits
  BY <1>1, <1>3, FirstHit
<1>5. broker \in BrokerPolicies
  BY <1>1, <1>2
<1>. HIDE DEF i
<1>6. i \in DOMAIN broker /\ v \in broker[i].secrets /\ tool \in broker[i].tools
  BY <1>4 DEF Matches
<1>. QED  BY <1>1, <1>5, <1>6

\* The promises about what was handed out last hold at every step.
LEMMA OutputHolds == Spec => [](OutputInv /\ ReleaseInv)
<1>. USE DEF configVars, secretVars, processVars, monitorVars
<1>1. ASSUME Init
      PROVE  OutputInv /\ ReleaseInv
  <2>1. output.channel = "none" /\ output.value = NoValue
    BY <1>1 DEF Init, Nothing
  <2>2. NoValue \notin BrokerSecrets
    BY SecretAssumption, ValueAssumption DEF BrokerSecrets, AllValues
  <2>. QED  BY <2>1, <2>2 DEF OutputInv, ReleaseInv
<1>2. ASSUME TypeInv, EntriesInv, OutputInv, ReleaseInv, [Next]_vars
      PROVE  OutputInv' /\ ReleaseInv'
  <2>0. /\ process \in Processes /\ seen \subseteq Handles
        /\ broker \in BrokerPolicies \cup {<<>>} /\ store \subseteq StoreEntry
    BY <1>2 DEF TypeInv, TypeOK
  <2>1. CASE UNCHANGED <<process, output>>
    BY <1>2, <2>1 DEF OutputInv, ReleaseInv, KnownValues, AdminKey
  <2>2. ASSUME UNCHANGED process, NEW h, output'.handle = h,
               output'.value # NoValue => Placed(h, output'.value),
               output'.value # NoValue /\ output'.channel # "broker" => h.kind # "Broker",
               output'.channel = "tool" /\ output'.value # NoValue => h.kind # "Local",
               output'.channel \in {"display", "tool"} /\ h.kind = "Pii" /\ output'.minted
                   => output'.value # NoValue
        PROVE  OutputInv'
    <3>1. AdminKey' = AdminKey /\ KnownValues' = KnownValues /\ AdminKey # NoValue
      BY <2>0, <2>2, KeyFacts DEF AdminKey, KnownValues
    <3>2. NoValue \notin BrokerSecrets
      BY SecretAssumption, ValueAssumption DEF BrokerSecrets, AllValues
    <3>3. CASE output'.value = NoValue
      BY <2>2, <3>1, <3>2, <3>3 DEF OutputInv
    <3>4. CASE output'.value # NoValue
      <4>1. /\ output'.value \in KnownValues
            /\ h \in {HandleOf(output'.value, op) : op \in Reversible}
            /\ output'.value = AdminKey => h.kind = "Local"
            /\ Required /\ output'.value \in BrokerSecrets => h.kind = "Broker"
        BY <2>2, <3>4 DEF Placed
      <4>2. h.kind = "Pii" => output'.value = h.of
        BY <2>0, <2>2, <3>4, PlacedLocal
      <4>. QED  BY <2>2, <3>1, <3>4, <4>1, <4>2 DEF OutputInv
    <3>. QED  BY <3>3, <3>4
  <2>3. ASSUME NEW t \in Turns, NEW h \in seen, NEW channel \in {"display", "tool"},
               Unmask(t, h, channel)
        PROVE  OutputInv' /\ ReleaseInv'
    <3>. DEFINE reveal == channel = "display"
                v == Resolve(t, h, reveal)
    <3>1. HandOut(channel, h, v, InManifest(t, h), NoValue, NoValue) /\ UNCHANGED process
      BY <2>3 DEF Unmask
    <3>2. /\ v # NoValue => Placed(h, v) /\ h.kind # "Broker" /\ (~ reveal => h.kind # "Local")
          /\ h.kind = "Pii" /\ Known(h) => v # NoValue
      BY <1>2, ResolveFacts
    <3>3. v \in AllValues \cup {NoValue} /\ h \in Handles /\ InManifest(t, h) \in BOOLEAN
      BY <1>2, <2>0, ResolveType DEF InManifest
    <3>4. channel = "tool" => ~ reveal
      OBVIOUS
    <3>. HIDE DEF v, reveal
    <3>5. /\ output'.channel = channel /\ output'.handle = h /\ output'.value = v
          /\ output'.minted = Known(h)
      <4>1. channel \in Channels
        BY DEF Channels
      <4>2. /\ NoValue \in Tools \cup BoundaryTools \cup {NoValue}
            /\ NoValue \in Hosts \cup {NoValue}
        OBVIOUS
      <4>. QED  BY <3>1, <3>3, <4>1, <4>2, HandOutType
    <3>6. OutputInv'
      BY <2>2, <3>1, <3>2, <3>4, <3>5
    <3>7. ReleaseInv'
      BY <3>5 DEF ReleaseInv
    <3>. QED  BY <3>6, <3>7
  <2>4. ASSUME NEW h, Known(h)
        PROVE  /\ Placed(h, EntryOf(h).value) /\ EntryOf(h).value \in AllValues
               /\ EntryOf(h).kind = IF h.kind = "Literal" THEN "Pii" ELSE h.kind
    BY <1>2, <2>0, <2>4, EntryFound DEF EntriesInv, EntryOK, StoreEntry
  <2>5. ASSUME NEW h \in seen, Audit(h)
        PROVE  OutputInv' /\ ReleaseInv'
    <3>. DEFINE v == IF KindOf(h) \in {"Pii", "Local"} THEN EntryOf(h).value ELSE NoValue
    <3>1. HandOut("audit", h, v, FALSE, NoValue, NoValue) /\ UNCHANGED process
      BY <2>5 DEF Audit
    <3>2. /\ v # NoValue => Placed(h, v) /\ h.kind # "Broker"
          /\ v \in AllValues \cup {NoValue} /\ h \in Handles
      BY <2>0, <2>4 DEF KindOf
    <3>. HIDE DEF v
    <3>3. output'.channel = "audit" /\ output'.handle = h /\ output'.value = v
      BY <3>1, <3>2, HandOutType DEF Channels
    <3>4. OutputInv'
      BY <2>2, <3>1, <3>2, <3>3
    <3>5. ReleaseInv'
      BY <3>3 DEF ReleaseInv
    <3>. QED  BY <3>4, <3>5
  <2>6. ASSUME NEW h \in seen, NEW tool \in Tools \cup BoundaryTools,
               NEW host \in Hosts \cup {NoValue}, ResolveBroker(h, tool, host)
        PROVE  OutputInv' /\ ReleaseInv'
    <3>. DEFINE v == IF KindOf(h) = "Broker" /\ Allows(EntryOf(h).value, tool, host)
                     THEN EntryOf(h).value ELSE NoValue
    <3>1. HandOut("broker", h, v, FALSE, tool, host) /\ UNCHANGED process
      BY <2>6 DEF ResolveBroker
    <3>2. /\ v # NoValue => Placed(h, v) /\ Allows(v, tool, host)
          /\ v \in AllValues \cup {NoValue} /\ h \in Handles
      BY <2>0, <2>4 DEF KindOf
    <3>. HIDE DEF v
    <3>3. /\ output'.channel = "broker" /\ output'.handle = h /\ output'.value = v
          /\ output'.tool = tool /\ output'.host = host
      BY <3>1, <3>2, HandOutType DEF Channels
    <3>4. OutputInv'
      BY <2>2, <3>1, <3>2, <3>3
    <3>5. v # NoValue =>
              /\ tool \notin BoundaryTools
              /\ \E rules \in BrokerPolicies : \E i \in DOMAIN rules :
                    /\ v \in rules[i].secrets /\ tool \in rules[i].tools
                    /\ rules[i].anyHost \/ host \in rules[i].hosts
      BY <2>0, <3>2, AllowsFacts
    <3>6. ReleaseInv'
      BY <3>3, <3>5 DEF ReleaseInv
    <3>. QED  BY <3>4, <3>6
  <2>7. CASE Restart
    <3>1. process' = process + 1 /\ process + 1 \in Processes /\ UNCHANGED output
      BY <2>7 DEF Restart
    <3>2. KnownValues \subseteq KnownValues'
      BY <2>0, <3>1 DEF KnownValues, Processes
    <3>3. AdminKey' \notin KnownValues /\ AdminKey' # NoValue
      <4>1. AdminKey' = AdminKeys[process + 1] /\ process + 1 \in DOMAIN AdminKeys
        BY <3>1, KeyAssumption DEF AdminKey, Processes
      <4>2. AdminKey' \in Range(AdminKeys)
        BY <4>1 DEF Range
      <4>3. \A i \in 1 .. process : i \in Processes /\ i # process + 1
        BY <2>0, <3>1, BoundAssumption DEF Processes
      <4>. QED  BY <3>1, <4>1, <4>2, <4>3, KeyAssumption, ValueAssumption DEF KnownValues, AllValues
    <3>. QED  BY <1>2, <3>1, <3>2, <3>3 DEF OutputInv, ReleaseInv
  <2>8. \/ (\E t \in Turns, values \in SUBSET AllValues : Begin(t, values))
        \/ (\E t \in Turns, v \in AllValues, bypassed \in BOOLEAN : MaskValue(t, v, bypassed))
        \/ (\E t \in Turns : SendUpstream(t)) \/ UNCHANGED vars
        => UNCHANGED <<process, output>>
    BY DEF Begin, MaskValue, SendUpstream, vars
  <2>9. \/ InstallReserved \/ SeedMonitor \/ RejectSecrets \/ OpenIntake \/ ToggleEnabled
        \/ (\E resolved \in SUBSET DOMAIN SecretOps : InstallSecrets(resolved))
        \/ (\E p \in Policies : PutPolicy(p))
        \/ (\E p \in Policies, rules \in BrokerPolicies \cup {<<>>} : Reload(p, rules))
        => UNCHANGED <<process, output>>
    BY DEF InstallReserved, SeedMonitor, InstallSecrets, RejectSecrets, OpenIntake, PutPolicy,
       ToggleEnabled, Reload
  <2>. QED  BY <1>2, <2>1, <2>3, <2>5, <2>6, <2>7, <2>8, <2>9 DEF Next
<1>. QED  BY <1>1, <1>2, TypesHold, EntriesHold, PTL DEF Spec

\* A token is only replaced by a value it was minted for, and a PII token of this
\* process is always restored, for any manifests, however many tokens share a
\* literal, and across every change of policy.
THEOREM FaithfulUnmask == Spec => []UnmaskIsFaithful
<1>1. TypeInv /\ OutputInv => UnmaskIsFaithful
  BY DEF TypeInv, OutputInv, UnmaskIsFaithful
<1>. QED  BY <1>1, TypesHold, OutputHolds, PTL

\* No record of the monitor holds the running process's key.
RecordInv == AdminKey \notin recorded

\* What a secret's operator promises holds on every way back, for any number of
\* turns, processes, secrets and broker policies.
THEOREM SecretsStay == Spec => []SecretsStayWhereAllowed
<1>. USE DEF configVars, secretVars, processVars, monitorVars
<1>1. ASSUME Init
      PROVE  RecordInv
  BY <1>1 DEF Init, RecordInv
<1>2. ASSUME TypeInv, RulesInv, EntriesInv, RecordInv, [Next]_vars
      PROVE  RecordInv'
  <2>1. CASE UNCHANGED <<process, recorded>>
    BY <1>2, <2>1 DEF RecordInv, AdminKey
  <2>2. ASSUME NEW t \in Turns, SendUpstream(t)
        PROVE  RecordInv'
    <3>1. /\ recorded' = recorded \cup {m.value : m \in {x \in ManifestOf(t) : Peekable(x)}}
          /\ UNCHANGED process
      BY <2>2 DEF SendUpstream
    <3>2. \A m \in ManifestOf(t) : m.value = AdminKey => m.handle.kind = "Local"
      BY <1>2 DEF EntriesInv, Placed
    <3>3. \A m \in ManifestOf(t) : Peekable(m) => m.value # AdminKey
      BY <3>2 DEF Peekable
    <3>. QED  BY <1>2, <3>1, <3>3 DEF RecordInv, AdminKey
  <2>3. ASSUME NEW t \in Turns, NEW h \in seen, NEW channel \in {"display", "tool"},
               Unmask(t, h, channel)
        PROVE  RecordInv'
    <3>1. turn[t].at = "reply" /\ UNCHANGED process
      BY <2>3 DEF Unmask
    <3>2. AdminKey \in seeds
      BY <1>2, <3>1 DEF RulesInv, EntriesInv
    <3>3. recorded' \subseteq recorded \cup (AllValues \ seeds)
      <4>. DEFINE v == Resolve(t, h, channel = "display")
      <4>1. v \in AllValues \cup {NoValue}
        BY <1>2, ResolveType
      <4>2. recorded' = IF v = NoValue THEN recorded ELSE recorded \cup ({v} \ Scrubbed(t))
        BY <2>3 DEF Unmask
      <4>. HIDE DEF v
      <4>. QED  BY <4>1, <4>2 DEF Scrubbed
    <3>. QED  BY <1>2, <3>1, <3>2, <3>3 DEF RecordInv, AdminKey
  <2>4. CASE Restart
    BY <2>4 DEF Restart, RecordInv
  <2>5. ASSUME NEW h \in seen
        PROVE  /\ Audit(h) => UNCHANGED <<process, recorded>>
               /\ \A tool \in Tools \cup BoundaryTools, host \in Hosts \cup {NoValue} :
                     ResolveBroker(h, tool, host) => UNCHANGED <<process, recorded>>
    BY DEF Audit, ResolveBroker
  <2>6. \/ (\E t \in Turns, values \in SUBSET AllValues : Begin(t, values))
        \/ (\E t \in Turns, v \in AllValues, bypassed \in BOOLEAN : MaskValue(t, v, bypassed))
        \/ UNCHANGED vars
        => UNCHANGED <<process, recorded>>
    BY DEF Begin, MaskValue, vars
  <2>7. \/ InstallReserved \/ SeedMonitor \/ RejectSecrets \/ OpenIntake \/ ToggleEnabled
        \/ (\E resolved \in SUBSET DOMAIN SecretOps : InstallSecrets(resolved))
        \/ (\E p \in Policies : PutPolicy(p))
        \/ (\E p \in Policies, rules \in BrokerPolicies \cup {<<>>} : Reload(p, rules))
        => UNCHANGED <<process, recorded>>
    BY DEF InstallReserved, SeedMonitor, InstallSecrets, RejectSecrets, OpenIntake, PutPolicy,
       ToggleEnabled, Reload
  <2>. QED  BY <1>2, <2>1, <2>2, <2>3, <2>4, <2>5, <2>6, <2>7 DEF Next
<1>3. OutputInv /\ ReleaseInv /\ RecordInv => SecretsStayWhereAllowed
  BY DEF OutputInv, ReleaseInv, RecordInv, BrokerSecrets, SecretsStayWhereAllowed
<1>. QED  BY <1>1, <1>2, <1>3, TypesHold, RulesHold, EntriesHold, OutputHolds, PTL DEF Spec
=============================================================================

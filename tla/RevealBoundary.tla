---------------------------- MODULE RevealBoundary ----------------------------
(***************************************************************************)
(* Where a masked value may come back.  Turns replace the values they      *)
(* carry by tokens; the reply may contain any token the model has seen;    *)
(* the proxy unmasks it for the user's display or for a tool input, the    *)
(* operator may audit a token, and the local tool boundary may resolve a   *)
(* broker token.  Registered secrets are installed in the background, the  *)
(* policies change live, and a restart forgets the store but keeps the     *)
(* salt, so the same value gets the same token again.                      *)
(*                                                                         *)
(* A token is the pair of its entity class and the value it stands for: it *)
(* is a salted hash of both, and collisions are left out.                  *)
(***************************************************************************)
EXTENDS Naturals, Sequences, FiniteSets, Functions

CONSTANTS
    Turns,       \* LLM requests with their replies
    Values,      \* values the user's text may carry
    MaxCarried,  \* bound: how many values one request carries
    AdminKeys,   \* the admin key of each proxy process, one after the other
    SecretOps,   \* registered secrets: their operator, "Broker" or "Erase"
    Required,    \* whether the registered secrets are required
    Policies,    \* detection policies: what becomes of an unregistered value
    StartPolicy,
    LiteralOf,   \* the literal_token of the custom rule of a value
    Sad,         \* values of the CVV entity (TokenClass::Sad)
    Tools,       \* structured local tools
    BoundaryTools, \* MCP, sub-agent and shell tools
    Hosts,
    BrokerPolicies, \* [[broker.allow]] lists, each a sequence of rules
    NoValue,
    MaxOps       \* bound: live changes and restarts

Operators == {"Keep", "Token", "Literal", "Redact"}
AllValues == Values \cup Range(AdminKeys)
Processes == 1 .. Len(AdminKeys)

ASSUME PolicyAssumption ==
    /\ Policies \subseteq [AllValues -> Operators] /\ StartPolicy \in Policies
    /\ LiteralOf \in [AllValues -> STRING]
ASSUME SecretAssumption ==
    /\ DOMAIN SecretOps \subseteq Values /\ Range(SecretOps) \subseteq {"Broker", "Erase"}
    /\ Required \in BOOLEAN
ASSUME ValueAssumption  == NoValue \notin AllValues /\ Sad \subseteq Values
\* Keys are random: no two processes share one, and none is a value of the text.
ASSUME KeyAssumption    ==
    /\ AdminKeys \in Seq(Range(AdminKeys)) /\ Range(AdminKeys) \cap Values = {}
    /\ \A i, j \in Processes : AdminKeys[i] = AdminKeys[j] => i = j
ASSUME BoundAssumption  == MaxOps \in Nat /\ MaxCarried \in Nat /\ Len(AdminKeys) \in Nat \ {0}

VARIABLES
    process,  \* which proxy process is running
    boot,     \* its start-up: "rules", "seed", then "serving"
    secrets,  \* MaskEngine.secrets: the operator of each installed secret
    install,  \* the background resolve: "resolving", "installed", "failed", "done"
    ready,    \* AppState.secrets_ready
    enabled,  \* the master switch
    policy,   \* what detection does to each value
    broker,   \* MaskEngine.broker_policy
    store,    \* SessionStore.token_map
    seeds,    \* Monitor.local_redactions: values scrubbed from captures
    recorded, \* plaintext values that monitor records hold
    turn,     \* the state of each turn
    seen,     \* tokens that have been sent upstream
    egressed, \* history: values sent upstream in plaintext
    output,   \* the last value or token that was handed out
    ops       \* live changes and restarts so far

configVars  == <<enabled, policy, broker, ops>>
secretVars  == <<secrets, install, ready>>
processVars == <<process, boot>>
monitorVars == <<seeds, recorded>>
vars == <<processVars, secretVars, configVars, store, monitorVars, turn, seen, egressed, output>>

-----------------------------------------------------------------------------
AdminKey == AdminKeys[process]

Handles == [kind : {"Pii", "Local", "Broker"}, of : AllValues]
           \cup [kind : {"Literal"}, of : Range(LiteralOf)]

TokenKinds == {"Pii", "Broker", "Local"}
StoreEntry == [handle : Handles, kind : TokenKinds, value : AllValues]
ManifestEntry == [handle : Handles, value : AllValues]

\* "lost" turns were in flight when the proxy restarted.
Turn == [at : {"new", "masking", "reply", "lost"},
         todo : SUBSET AllValues,
         plain : SUBSET AllValues,   \* values the masked body still holds
         manifest : Seq(ManifestEntry)]

NewTurn == [at |-> "new", todo |-> {}, plain |-> {}, manifest |-> <<>>]

Rule == [secrets : SUBSET Values, tools : SUBSET (Tools \cup BoundaryTools),
         anyHost : BOOLEAN, hosts : SUBSET Hosts]

ASSUME RuleAssumption == BrokerPolicies \subseteq Seq(Rule)

Channels == {"none", "display", "tool", "audit", "broker"}

\* What was handed out: NoValue when the token was left as it is.  The other
\* fields record the circumstances the properties refer to.
Output == [channel : Channels, handle : Handles, value : AllValues \cup {NoValue},
           minted : BOOLEAN,    \* this process minted the token
           own : BOOLEAN,       \* the turn itself minted it
           tool : Tools \cup BoundaryTools \cup {NoValue},
           host : Hosts \cup {NoValue}]

\* Types of the rules, the store, the turns and what was handed out.
TypeOK ==
    /\ process \in Processes /\ boot \in {"rules", "seed", "serving"}
    /\ DOMAIN secrets \subseteq AllValues /\ Range(secrets) \subseteq {"Local", "Broker", "Erase"}
    /\ install \in {"resolving", "installed", "failed", "done"} /\ ready \in BOOLEAN
    /\ enabled \in BOOLEAN /\ policy \in Policies
    /\ broker \in BrokerPolicies \cup {<<>>}
    /\ store \subseteq StoreEntry
    /\ seeds \subseteq AllValues /\ recorded \subseteq AllValues
    /\ \A t \in Turns : turn[t].at \in {"new", "masking", "reply", "lost"}
    /\ seen \subseteq Handles /\ egressed \subseteq AllValues
    /\ output \in Output
    /\ ops \in 0 .. MaxOps

-----------------------------------------------------------------------------
(* The session store.                                                      *)

Known(h) == \E e \in store : e.handle = h
EntryOf(h) == CHOOSE e \in store : e.handle = h
KindOf(h) == IF Known(h) THEN EntryOf(h).kind ELSE "unknown"

\* insert_if_absent: the first entry of a token stays.
WithToken(h, kind, v) ==
    IF Known(h) THEN store
    ELSE store \cup {[handle |-> h, kind |-> kind, value |-> v]}

\* make_token over the entity the operator uses, or the rule's fixed token.
HandleOf(v, op) ==
    CASE op = "Token"   -> [kind |-> "Pii", of |-> v]
      [] op = "Literal" -> [kind |-> "Literal", of |-> LiteralOf[v]]
      [] op = "Local"   -> [kind |-> "Local", of |-> v]
      [] op = "Broker"  -> [kind |-> "Broker", of |-> v]

Kind(op) == IF op \in {"Token", "Literal"} THEN "Pii" ELSE op

LocalSecrets(rules) == {v \in DOMAIN rules : rules[v] = "Local"}

\* set_secret_rules mints the tokens of the Local rules at once.
WithLocals(rules) ==
    store \cup {[handle |-> HandleOf(v, "Local"), kind |-> "Local", value |-> v] :
                v \in {w \in LocalSecrets(rules) : ~ Known(HandleOf(w, "Local"))}}

\* local_redaction_pairs
LocalPairs == {e.value : e \in {x \in store : x.kind = "Local"}}

-----------------------------------------------------------------------------
(* Masking: what apply does to one value of a turn.                        *)

\* Mutant: bypass markup also bypasses registered secrets.
OperatorBypassing(v, bypassed) ==
    IF bypassed THEN "Keep"
    ELSE IF v \in DOMAIN secrets THEN secrets[v]
    ELSE IF ~ enabled THEN "Keep"
    ELSE policy[v]

\* Registered secrets win over the user's >>bypass<<, the master switch and
\* the detection policy.
OperatorFor(v, bypassed) ==
    IF v \in DOMAIN secrets THEN secrets[v]
    ELSE IF bypassed \/ ~ enabled THEN "Keep"
    ELSE policy[v]

Reversible == {"Token", "Literal", "Local", "Broker"}

\* TokenClass::is_peekable of a manifest entry; a custom rule names its own
\* entity, so only a detected CVV is classified Sad.
Peekable(m) == m.handle.kind = "Literal" \/ (m.handle.kind = "Pii" /\ m.value \notin Sad)

ManifestOf(t) == Range(turn[t].manifest)

\* A request enters: its leaves carry these values.  The key of a process is
\* random, so no text holds it before that process runs.
Begin(t, values) ==
    /\ Cardinality(values) <= MaxCarried
    /\ values \subseteq Values \cup {AdminKeys[i] : i \in 1 .. process}
    /\ turn[t].at = "new"
    /\ boot = "serving" /\ ready
    /\ turn' = [turn EXCEPT ![t].at = "masking", ![t].todo = values]
    /\ UNCHANGED <<processVars, secretVars, configVars, store, monitorVars, seen, egressed, output>>

MaskValue(t, v, bypassed) ==
    /\ turn[t].at = "masking"
    /\ v \in turn[t].todo
    /\ LET op == OperatorFor(v, bypassed) IN
       IF op \in Reversible
       THEN /\ store' = WithToken(HandleOf(v, op), Kind(op), v)
            /\ turn' = [turn EXCEPT
                   ![t].todo = @ \ {v},
                   ![t].manifest = Append(@, [handle |-> HandleOf(v, op), value |-> v])]
       ELSE /\ turn' = [turn EXCEPT
                   ![t].todo = @ \ {v},
                   ![t].plain = IF op = "Keep" THEN @ \cup {v} ELSE @]
            /\ UNCHANGED store
    /\ UNCHANGED <<processVars, secretVars, configVars, monitorVars, seen, egressed, output>>

\* The masked request is recorded with its token previews and goes upstream.
SendUpstream(t) ==
    /\ turn[t].at = "masking" /\ turn[t].todo = {}
    /\ turn' = [turn EXCEPT ![t].at = "reply"]
    /\ recorded' = recorded \cup {m.value : m \in {x \in ManifestOf(t) : Peekable(x)}}
    /\ seen' = seen \cup {m.handle : m \in ManifestOf(t)}
    /\ egressed' = egressed \cup turn[t].plain
    /\ UNCHANGED <<processVars, secretVars, configVars, store, seeds, output>>

-----------------------------------------------------------------------------
(* Unmasking a token of the reply.                                         *)

\* Mutant: the first entry of the manifest answers for every handle.
FirstEntryOfTurn(t, h) == turn[t].manifest[1]

\* The first manifest entry of a token (manifest.entries.find).
FirstEntry(t, h) ==
    LET m == turn[t].manifest
        hits == {i \in DOMAIN m : m[i].handle = h}
    IN  m[CHOOSE i \in hits : \A j \in hits : i <= j]

InManifest(t, h) == \E m \in ManifestOf(t) : m.handle = h

\* Within the turn the manifest's flag decides, across turns the store's kind.
IsLocal(t, h) == IF InManifest(t, h) THEN h.kind = "Local" ELSE KindOf(h) = "Local"

\* SessionStore::reveal, then reveal_for(Local).  A literal token is not in the
\* token grammar, so only the turn's own manifest replaces it.
Reveal(h) ==
    IF h.kind # "Literal" /\ KindOf(h) \in {"Pii", "Local"} THEN EntryOf(h).value ELSE NoValue

\* Mutant: a broker token is looked up like any other.
ResolveByLookup(t, h, revealLocal) ==
    IF IsLocal(t, h) /\ ~ revealLocal THEN NoValue
    ELSE IF InManifest(t, h) THEN FirstEntry(t, h).value
    ELSE Reveal(h)

\* unmask_inner for one token.  No caller promotes a token for tool use, so the
\* promoted set of the store is left out.
Resolve(t, h, revealLocal) ==
    IF h.kind = "Broker" THEN NoValue
    ELSE IF IsLocal(t, h) /\ ~ revealLocal THEN NoValue
    ELSE IF InManifest(t, h) THEN FirstEntry(t, h).value
    ELSE Reveal(h)

\* The values the capture turns back into tokens.
Scrubbed(t) == {m.value : m \in {x \in ManifestOf(t) : ~ Peekable(x)}} \cup seeds

HandOut(channel, h, v, own, tool, host) ==
    output' = [channel |-> channel, handle |-> h, value |-> v, minted |-> Known(h),
               own |-> own, tool |-> tool, host |-> host]

\* The reply holds token h in prose (shown to the user) or in a tool input; the
\* monitor captures what the client receives.
Unmask(t, h, channel) ==
    /\ turn[t].at = "reply"
    /\ LET v == Resolve(t, h, channel = "display") IN
       /\ HandOut(channel, h, v, InManifest(t, h), NoValue, NoValue)
       /\ recorded' = IF v = NoValue THEN recorded ELSE recorded \cup ({v} \ Scrubbed(t))
    /\ UNCHANGED <<processVars, secretVars, configVars, store, seeds, turn, seen, egressed>>

\* GET /zlauder/reveal: reveal_audit.
Audit(h) ==
    /\ boot = "serving"
    /\ HandOut("audit", h, IF KindOf(h) \in {"Pii", "Local"} THEN EntryOf(h).value ELSE NoValue,
               FALSE, NoValue, NoValue)
    /\ UNCHANGED <<processVars, secretVars, configVars, store, monitorVars, turn, seen, egressed>>

-----------------------------------------------------------------------------
(* The broker.                                                             *)

Matches(rule, v, tool) == v \in rule.secrets /\ tool \in rule.tools

\* BrokerPolicy::decide: boundary tools first, then the first matching rule
\* decides alone; the host is NoValue when none could be parsed.
Allows(v, tool, host) ==
    LET hits == {i \in DOMAIN broker : Matches(broker[i], v, tool)} IN
    /\ tool \notin BoundaryTools
    /\ hits # {}
    /\ LET rule == broker[CHOOSE i \in hits : \A j \in hits : i <= j]
       IN  rule.anyHost \/ host \in rule.hosts

\* broker_resolve_leaf for one broker token of a tool input.
ResolveBroker(h, tool, host) ==
    /\ boot = "serving"
    /\ h.kind = "Broker"
    /\ HandOut("broker", h,
               IF KindOf(h) = "Broker" /\ Allows(EntryOf(h).value, tool, host)
               THEN EntryOf(h).value ELSE NoValue,
               FALSE, tool, host)
    /\ UNCHANGED <<processVars, secretVars, configVars, store, monitorVars, turn, seen, egressed>>

-----------------------------------------------------------------------------
(* Start-up, secrets, live changes and restarts.                           *)

ReservedRules == [v \in {AdminKey} |-> "Local"]
RulesOf(resolved) == [v \in {AdminKey} \cup resolved |->
                         IF v = AdminKey THEN "Local" ELSE SecretOps[v]]

\* set_secret_rules of the admin-key rule, before serving.
InstallReserved ==
    /\ boot = "rules"
    /\ store' = WithLocals(ReservedRules)
    /\ secrets' = ReservedRules
    /\ boot' = "seed"
    /\ UNCHANGED <<process, install, ready, configVars, monitorVars, turn, seen, egressed, output>>

\* set_local_redactions, then the listener serves.
SeedMonitor ==
    /\ boot = "seed"
    /\ seeds' = LocalPairs
    /\ boot' = "serving"
    /\ UNCHANGED <<process, secretVars, configVars, store, recorded, turn, seen, egressed, output>>

\* The end of resolve_and_install: whatever resolved replaces the set, and a
\* required secret that did not keeps the gate closed.
InstallSecrets(resolved) ==
    /\ boot = "serving" /\ install = "resolving" /\ DOMAIN SecretOps # {}
    /\ store' = WithLocals(RulesOf(resolved))
    /\ secrets' = RulesOf(resolved)
    /\ install' = IF Required /\ resolved # DOMAIN SecretOps THEN "failed" ELSE "installed"
    /\ UNCHANGED <<processVars, ready, configVars, monitorVars, turn, seen, egressed, output>>

\* set_secret_rules rejects the rules: the reserved rule stays alone.
RejectSecrets ==
    /\ boot = "serving" /\ install = "resolving" /\ DOMAIN SecretOps # {}
    /\ install' = "failed"
    /\ UNCHANGED <<processVars, secrets, ready, configVars, store, monitorVars, turn, seen, egressed, output>>

\* The rest of that task: the monitor is seeded again and, if every required
\* secret resolved, the gate opens.
OpenIntake ==
    /\ boot = "serving" /\ install \in {"installed", "failed"}
    /\ seeds' = LocalPairs
    /\ ready' = (ready \/ install = "installed")
    /\ install' = "done"
    /\ UNCHANGED <<processVars, secrets, configVars, store, recorded, turn, seen, egressed, output>>

Live == boot = "serving" /\ ops < MaxOps /\ ops' = ops + 1

\* PUT /zlauder/config, a profile, a custom mask, reveal or remask.
PutPolicy(p) ==
    /\ Live
    /\ policy' = p
    /\ UNCHANGED <<processVars, secretVars, enabled, broker, store, monitorVars, turn, seen, egressed, output>>

ToggleEnabled ==
    /\ Live
    /\ enabled' = ~ enabled
    /\ UNCHANGED <<processVars, secretVars, policy, broker, store, monitorVars, turn, seen, egressed, output>>

\* /zlauder/reload: policy and broker rules from the files, the master switch
\* kept.  An error anywhere leaves the empty rule list, and a failed read or a
\* rejected config leaves the policy as it was.
Reload(p, rules) ==
    /\ Live
    /\ policy' = p
    /\ broker' = rules
    /\ UNCHANGED <<processVars, secretVars, enabled, store, monitorVars, turn, seen, egressed, output>>

\* The proxy is replaced by one with the same salt and a new key.
Restart ==
    /\ process + 1 \in Processes /\ ops < MaxOps
    /\ process' = process + 1
    /\ boot' = "rules" /\ secrets' = [v \in {} |-> "Local"]
    /\ install' = "resolving" /\ ready' = ~ Required
    /\ enabled' = TRUE /\ policy' = StartPolicy /\ broker' \in BrokerPolicies \cup {<<>>} /\ ops' = ops + 1
    /\ store' = {}
    /\ seeds' = {} /\ recorded' = {}
    /\ turn' = [t \in Turns |-> IF turn[t].at = "new" THEN NewTurn ELSE [NewTurn EXCEPT !.at = "lost"]]
    /\ UNCHANGED <<seen, egressed, output>>

Nothing == [channel |-> "none", handle |-> HandleOf(AdminKeys[1], "Local"), value |-> NoValue,
            minted |-> FALSE, own |-> FALSE, tool |-> NoValue, host |-> NoValue]

Init ==
    /\ process = 1 /\ boot = "rules"
    /\ secrets = [v \in {} |-> "Local"] /\ install = "resolving" /\ ready = ~ Required
    /\ enabled = TRUE /\ policy = StartPolicy /\ broker \in BrokerPolicies \cup {<<>>} /\ ops = 0
    /\ store = {}
    /\ seeds = {} /\ recorded = {}
    /\ turn = [t \in Turns |-> NewTurn]
    /\ seen = {} /\ egressed = {}
    /\ output = Nothing

Next ==
    \/ \E t \in Turns, values \in SUBSET AllValues : Begin(t, values)
    \/ \E t \in Turns, v \in AllValues, bypassed \in BOOLEAN : MaskValue(t, v, bypassed)
    \/ \E t \in Turns : SendUpstream(t)
    \/ \E t \in Turns, h \in seen, channel \in {"display", "tool"} : Unmask(t, h, channel)
    \/ \E h \in seen : Audit(h)
    \/ \E h \in seen, tool \in Tools \cup BoundaryTools, host \in Hosts \cup {NoValue} :
          ResolveBroker(h, tool, host)
    \/ InstallReserved
    \/ SeedMonitor
    \/ \E resolved \in SUBSET DOMAIN SecretOps : InstallSecrets(resolved)
    \/ RejectSecrets
    \/ OpenIntake
    \/ \E p \in Policies : PutPolicy(p)
    \/ ToggleEnabled
    \/ \E p \in Policies, rules \in BrokerPolicies \cup {<<>>} : Reload(p, rules)
    \/ Restart

Spec == Init /\ [][Next]_vars

-----------------------------------------------------------------------------
(* Properties.                                                             *)

\* A required secret never goes upstream in plaintext: not through the bypass,
\* not with masking off, not during start-up, and not after a restart.
RequiredSecretsNeverEgress ==
    Required => egressed \cap DOMAIN SecretOps = {}

\* What a secret's operator promises holds on every way back.  A required broker
\* secret returns only at the broker boundary: display, tool-input unmasking and
\* audit leave its token alone, in the turn that minted it and in every later one;
\* and the boundary hands it only to a structured tool and a host that one rule
\* allows, never to an MCP, sub-agent or shell tool.  The running proxy's admin
\* key never reaches a tool input, also when its token comes from an earlier turn,
\* and no monitor record holds it, although the display path reveals it, also in a
\* turn whose request did not carry it.
SecretsStayWhereAllowed ==
    /\ (Required /\ output.channel \in {"display", "tool", "audit"}) =>
            output.value \notin {v \in DOMAIN SecretOps : SecretOps[v] = "Broker"}
    /\ (output.channel = "broker" /\ output.value # NoValue) =>
            /\ output.tool \notin BoundaryTools
            /\ \E rules \in BrokerPolicies : \E i \in DOMAIN rules :
                  /\ output.value \in rules[i].secrets /\ output.tool \in rules[i].tools
                  /\ rules[i].anyHost \/ output.host \in rules[i].hosts
    /\ ~ (output.channel = "tool" /\ output.value = AdminKey)
    /\ boot = "serving" => AdminKey \notin recorded

\* A token is only ever replaced by a value it was minted for (a literal token
\* that several values share gives back one of them), and a PII token this
\* process minted is always restored, for the turn that minted it and for every
\* later one, whatever changed in between.
UnmaskIsFaithful ==
    /\ TypeOK
    /\ output.value # NoValue =>
            output.handle \in {HandleOf(output.value, op) : op \in Reversible}
    /\ (output.channel \in {"display", "tool"} /\ output.handle.kind = "Pii" /\ output.minted)
            => output.value = output.handle.of

=============================================================================

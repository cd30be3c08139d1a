----------------------------- MODULE ConfigScopes -----------------------------
(***************************************************************************)
(* The settings of a project: three files (user < project < local), the    *)
(* policy the proxy built from them, and the /zlauder:privacy commands     *)
(* that edit either.  A command is a process of its own: it reads a file,  *)
(* writes it back and posts to the proxy in separate steps, and commands,  *)
(* the user's editor and the proxy's life interleave with it.  A request   *)
(* of the proxy's control plane is one step: it runs under config_control. *)
(* Only the reload is two, for it reads the files twice.                   *)
(*                                                                         *)
(* A TOML document is a partial function from its dotted keys to values,   *)
(* so a deep merge of tables is ++.  A per-entity operator is the key      *)
(* entity_operators.<TYPE>, written here as the entity itself.             *)
(***************************************************************************)
EXTENDS Naturals, Sequences, FiniteSets

CONSTANTS
    Clis,      \* command processes
    Requests,  \* what may be asked: [set, value, scope]
    Edits,     \* what the user may type into a file: <<layer, key, value>>
    Entities,  \* spellings of entity types
    Builtin,   \* those that are canonical names
    UserDocs,  \* what the user's own file may hold at first
    Upper,     \* the upper-case spelling of each
    Ports,     \* ports a proxy may be bound to
    MaxCommands, MaxEdits, MaxStarts  \* bounds

NoPolicy == <<>>
Nobody   == "nobody"
NoPort   == 0

ASSUME EntityAssumption == Builtin \subseteq Entities /\ Upper \in [Entities -> Entities]
ASSUME NameAssumption   == Nobody \notin Clis /\ NoPort \notin Ports
ASSUME BoundAssumption  == {MaxCommands, MaxEdits, MaxStarts} \subseteq Nat

VARIABLES
    files,     \* the layer files: whether each parses, and its document
    live,      \* the policy of the running proxy, or NoPolicy
    broker,    \* its broker policy: "allow" or "deny"
    port,      \* its port
    reloading, \* the command whose reload holds config_control
    cmd,       \* the commands
    count,     \* commands, edits and starts so far
    ghost      \* history: see Started

vars == <<files, live, broker, port, reloading, cmd, count, ghost>>

-----------------------------------------------------------------------------
(* Profiles and categories.  Scores are in hundredths.                     *)

Category == {"secrets", "financial", "identity", "contact", "network", "personal"}

default_threshold(p) ==
    CASE p = "strict" -> 40 [] p = "balanced" -> 50 [] OTHER -> 60

default_categories(p) ==
    CASE p = "strict"   -> Category
      [] p = "balanced" -> {"secrets", "financial", "identity", "contact"}
      [] p = "minimal"  -> {"secrets", "financial"}
      [] OTHER          -> {"secrets"}

for_profile(p) == [profile    |-> p, threshold |-> default_threshold(p),
                   categories |-> default_categories(p), operator |-> "token"]

\* rules are the custom replacements, each a pattern and the entity type it
\* declares; exact and exact_ci are the allow-list.
EngineKeys == {"enabled", "profile", "threshold", "categories", "operator", "ml",
               "rules", "exact", "exact_ci"}

RestrictTo(f, S) == [k \in DOMAIN f \cap S |-> f[k]]

f ++ g == [k \in DOMAIN f \cup DOMAIN g |-> IF k \in DOMAIN f THEN f[k] ELSE g[k]]

Entry(key, value) == [k \in {key} |-> value]

-----------------------------------------------------------------------------
(* The layered files.                                                      *)

Layers == {"user", "project", "local"}

ASSUME EditAssumption == \A e \in Edits : e[1] \in Layers

Empty == [ok |-> TRUE, doc |-> <<>>]

merged_value(fs) == fs["local"].doc ++ fs["project"].doc ++ fs["user"].doc

\* A value in [[secrets]] is refused before anything is parsed.
no_inline_secret_values(m) == "secrets" \in DOMAIN m => m["secrets"] # "value"

\* EngineConfig's Deserialize: what a document leaves out comes from its
\* profile.
Deserialize(m) ==
    LET profile == IF "profile" \in DOMAIN m THEN m["profile"] ELSE "balanced"
    IN  RestrictTo(m, EngineKeys \cup Entities) ++ for_profile(profile)
            ++ [enabled |-> TRUE, ml |-> FALSE, rules |-> <<>>, exact |-> {}, exact_ci |-> {}]

\* Policy::new refuses the operators of registered secrets.
AcceptedByPolicy(p) == \A k \in {"operator"} \cup (DOMAIN p \cap Entities) : p[k] # "broker"

Loadable(fs) == (\A l \in DOMAIN fs : fs[l].ok) /\ no_inline_secret_values(merged_value(fs))

\* The policy the files amount to: what load and reload_engine install.
load(fs) ==
    IF Loadable(fs) /\ AcceptedByPolicy(Deserialize(merged_value(fs)))
    THEN Deserialize(merged_value(fs)) ELSE NoPolicy

\* reload_broker_allows and build_broker_policy: any error is default-deny.
reload_broker_allows(fs) ==
    IF Loadable(fs) /\ "broker" \in DOMAIN merged_value(fs) /\ merged_value(fs)["broker"] = "allow"
    THEN "allow" ELSE "deny"

\* categories_from_files skips the layers that do not parse.
categories_from_files(fs) ==
    LET readable == [l \in DOMAIN fs |-> IF fs[l].ok THEN fs[l] ELSE Empty]
        m == merged_value(readable)
    IN  IF "categories" \in DOMAIN m THEN m["categories"]
        ELSE default_categories(IF "profile" \in DOMAIN m THEN m["profile"] ELSE "balanced")

\* The document edit_scope_file starts from.
parse_or_new(f) == IF f.ok THEN f.doc ELSE <<>>

-----------------------------------------------------------------------------
(* Entity types.                                                           *)

ASSUME SpellingAssumption == Entities \cap (EngineKeys \cup {"secrets", "broker"}) = {}

resolve_entity_type(name) ==
    IF name \notin Builtin /\ Upper[name] \in Builtin THEN Upper[name] ELSE name

\* A rule is a detector of its own: the type it declares is no typo.
Declared(p) == {p["rules"][i].entity_type : i \in DOMAIN p["rules"]}

unknown_entity_types(p) == (DOMAIN p \cap Entities) \ (Builtin \cup Declared(p))

\* Mutant: the keys of the whole merged configuration are validated.
AllUnknown(current, merged) == unknown_entity_types(merged)

new_unknown_entity_keys(current, merged) ==
    {k \in unknown_entity_types(merged) : k \in DOMAIN current => current[k] # merged[k]}

-----------------------------------------------------------------------------
(* Commands.  todo holds the steps left; base the categories a toggle      *)
(* starts from; doc the file as read; got the configuration as fetched.    *)
(* expect and alone are history: the policy the command should lead to,    *)
(* and whether nothing else has happened since it began.                   *)

\* What the command line accepts: the operators of registered secrets are no
\* values of an entity.
ASSUME RequestAssumption ==
    \A r \in Requests :
        /\ r.set \in {"enabled", "profile", "categories", "threshold", "entity", "ml"}
        /\ r.scope \in Layers \cup {"session"}
        /\ r.set \in {"enabled", "ml"} => r.value \in BOOLEAN
        /\ r.set = "entity" => r.value[1] \in Entities /\ r.value[2] # "broker"

Key(r) == IF r.set = "entity" THEN resolve_entity_type(r.value[1]) ELSE r.set

\* What follows the file: a switch is posted as such, a model after the reload
\* that names it, anything else is reloaded.
Post(r) ==
    IF r.set \notin {"enabled", "ml"} THEN <<"reload">>
    ELSE IF r.set = "ml" /\ r.value THEN <<"reload", "ml">> ELSE <<r.set>>

\* The steps of each command, by what it sets and its scope.
Steps(r) ==
    LET toggle == r.set \in {"enabled", "ml"}
        base   == IF r.set = "categories" THEN <<"base">> ELSE <<>>
    IN  IF r.set = "profile" THEN <<"route">>
        ELSE IF r.scope # "session" THEN base \o <<"read", "write">> \o Post(r)
        ELSE IF toggle THEN <<r.set>>
        ELSE IF r.set = "entity" THEN IF r.value[2] = "clear" THEN <<"refuse">> ELSE <<"patch">>
        ELSE base \o <<"fetch", "put">>

Toggled(base, v) == IF v[2] THEN base \cup {v[1]} ELSE base \ {v[1]}

Clears(r) == r.set = "entity" /\ r.value[2] = "clear"

NoCommand == [todo |-> <<>>, result |-> "none"]

Effective == IF live = NoPolicy THEN load(files) ELSE live

\* The policy a command asks for, over the one in effect.
Asked(p, r) ==
    CASE r.set = "profile"    -> for_profile(r.value) ++ p
      [] r.set = "categories" -> [p EXCEPT !["categories"] = Toggled(@, r.value)]
      [] Clears(r)            -> RestrictTo(p, DOMAIN p \ {Key(r)})
      [] r.set = "entity" /\ ~Clears(r) -> Entry(Key(r), r.value[2]) ++ p
      [] OTHER                -> Entry(r.set, r.value) ++ p

\* What a command should lead to, if anything can be said: no later layer
\* sets what it sets, the files parse, and a running proxy is in step with
\* them.
Later(scope) == CASE scope = "user" -> {"project", "local"} [] scope = "project" -> {"local"} [] OTHER -> {}

Sets(r) == IF r.set = "profile" THEN DOMAIN for_profile(r.value) ELSE {Key(r)}

Expected(r) ==
    IF /\ \A d \in Clis : cmd[d] = NoCommand
       /\ load(files) # NoPolicy
       /\ live # NoPolicy => ghost.overlay = {} /\ ~ghost.unread
       /\ \A l \in IF Clears(r) THEN DOMAIN files \ {r.scope} ELSE Later(r.scope) :
              DOMAIN files[l].doc \cap Sets(r) = {}
    THEN {Asked(Effective, r)} ELSE {}

\* Any step of others ends a command's being alone.
Disturb(c) == [d \in Clis |-> IF d # c /\ cmd[d] # NoCommand THEN [cmd[d] EXCEPT !.alone = FALSE, !.expect = {}]
                             ELSE cmd[d]]
DisturbAll == Disturb(Nobody)

\* config_cmd: the port is resolved once, here.
Begin(c, r) ==
    /\ cmd[c] = NoCommand
    /\ count.commands < MaxCommands
    /\ count' = [count EXCEPT !.commands = @ + 1]
    /\ cmd' = [Disturb(c) EXCEPT ![c] =
           [req |-> r, port |-> port, todo |-> Steps(r), result |-> "none",
            base |-> {}, doc |-> <<>>, got |-> NoPolicy, expect |-> Expected(r),
            alone |-> \A d \in Clis \ {c} : cmd[d] = NoCommand]]
    /\ UNCHANGED <<files, live, broker, port, reloading, ghost>>

At(c, step) == cmd[c].todo # <<>> /\ Head(cmd[c].todo) = step

\* key_for finds a proxy, and it is the one at the port resolved first.
Reachable(c) == live # NoPolicy /\ cmd[c].port = port

Continue(c) == [Disturb(c) EXCEPT ![c].todo = Tail(@)]
\* What the report no longer depends on is forgotten.
End(c, result) == [Disturb(c) EXCEPT ![c].todo = <<>>, ![c].port = NoPort, ![c].result = result,
                                     ![c].base = {}, ![c].doc = <<>>, ![c].got = NoPolicy]

\* A step that the proxy answers: the command goes on, or reports.
Answered(c) == IF Len(cmd[c].todo) = 1
               THEN End(c, IF cmd[c].req.scope = "session" THEN "session" ELSE "applied")
               ELSE Continue(c)

\* A call that fails: a session command is an error, a file command has
\* saved its file; the reload before ml/enable is best effort.
Unanswered(c) ==
    IF cmd[c].req.set = "profile" \/ cmd[c].req.scope = "session" THEN End(c, "failed")
    ELSE IF At(c, "reload") /\ Len(cmd[c].todo) = 2 THEN Continue(c)
    ELSE End(c, "saved")

\* A reload cut short by the proxy's end: its call fails, and something else
\* has happened since the command began.
CutShort(c) == [Unanswered(c) EXCEPT ![c].alone = FALSE, ![c].expect = {}]

Fail(c) ==
    /\ \E s \in {"enabled", "ml", "patch", "fetch", "put", "profile", "reload"} : At(c, s)
    /\ reloading # c /\ ~Reachable(c)
    /\ cmd' = Unanswered(c)
    /\ UNCHANGED <<files, live, broker, port, reloading, count, ghost>>

Refuse(c) ==
    /\ At(c, "refuse")
    /\ cmd' = End(c, "failed")
    /\ UNCHANGED <<files, live, broker, port, reloading, count, ghost>>

\* Mutant: a proxy that is down is taken to run the default categories.
BalancedBase(c) ==
    /\ At(c, "base")
    /\ cmd' = [Continue(c) EXCEPT ![c].base =
           IF Reachable(c) THEN live["categories"] ELSE default_categories("balanced")]
    /\ UNCHANGED <<files, live, broker, port, reloading, count, ghost>>

\* effective_categories
Base(c) ==
    /\ At(c, "base")
    /\ cmd' = [Continue(c) EXCEPT ![c].base =
           IF Reachable(c) THEN live["categories"] ELSE categories_from_files(files)]
    /\ UNCHANGED <<files, live, broker, port, reloading, count, ghost>>

\* What the command writes: a document over the keys it sets.
Change(c) ==
    LET r == cmd[c].req
    IN  CASE r.set = "profile"    -> for_profile(r.value)
          [] r.set = "categories" -> Entry("categories", Toggled(cmd[c].base, r.value))
          [] r.set = "entity"     -> Entry(Key(r), r.value[2])
          [] OTHER                -> Entry(r.set, r.value)

\* edit_scope_file, its read and its write.
ReadFile(c) ==
    /\ At(c, "read")
    /\ cmd' = [Continue(c) EXCEPT ![c].doc = parse_or_new(files[cmd[c].req.scope])]
    /\ UNCHANGED <<files, live, broker, port, reloading, count, ghost>>

WriteFile(c) ==
    /\ At(c, "write")
    /\ LET r == cmd[c].req IN
       files' = [files EXCEPT ![r.scope] =
           [ok |-> TRUE, doc |-> IF Clears(r) THEN RestrictTo(cmd[c].doc, DOMAIN cmd[c].doc \ {Key(r)})
                                 ELSE Change(c) ++ cmd[c].doc]]
    /\ cmd' = IF Len(cmd[c].todo) = 1 THEN End(c, "saved") ELSE [Continue(c) EXCEPT ![c].doc = <<>>]
    /\ ghost' = [ghost EXCEPT !.unread = TRUE]
    /\ UNCHANGED <<live, broker, port, reloading, count>>

\* apply_profile: through the proxy when there is one.
Route(c) ==
    /\ At(c, "route")
    /\ cmd' = IF live # NoPolicy THEN [Disturb(c) EXCEPT ![c].todo = <<"profile">>]
              ELSE IF cmd[c].req.scope = "session" THEN End(c, "failed")
              ELSE [Disturb(c) EXCEPT ![c].todo = <<"read", "write">>]
    /\ UNCHANGED <<files, live, broker, port, reloading, count, ghost>>

-----------------------------------------------------------------------------
(* The control plane.  ghost.overlay is the keys set live since the files  *)
(* were last loaded, ghost.unread whether a file has changed since.        *)

Serve(c, step) == At(c, step) /\ reloading = Nobody /\ Reachable(c)

Overlaid(keys) == [ghost EXCEPT !.overlay = @ \cup keys]

\* POST enable, disable
SetEnabled(c) ==
    /\ Serve(c, "enabled")
    /\ live' = [live EXCEPT !["enabled"] = cmd[c].req.value]
    /\ ghost' = [ghost EXCEPT !.asked = cmd[c].req.value, !.raced = FALSE]
    /\ cmd' = Answered(c)
    /\ UNCHANGED <<files, broker, port, reloading, count>>

\* POST ml/enable, ml/disable
SetMl(c) ==
    /\ Serve(c, "ml")
    /\ live' = [live EXCEPT !["ml"] = cmd[c].req.value]
    /\ cmd' = Answered(c)
    /\ UNCHANGED <<files, broker, port, reloading, count, ghost>>

\* GET config: no lock is taken.
Fetch(c) ==
    /\ At(c, "fetch") /\ Reachable(c)
    /\ cmd' = [Continue(c) EXCEPT ![c].got = live]
    /\ UNCHANGED <<files, live, broker, port, reloading, count, ghost>>

\* put_config: the patch overlays the live policy; ml.enabled stays.
MergeOnto(patch) == Entry("ml", live["ml"]) ++ patch ++ live

put_config(c, patch) ==
    /\ \/ /\ MergeOnto(patch)["threshold"] \notin 0..100
          /\ cmd' = End(c, "out of range")
          /\ UNCHANGED <<live, ghost>>
       \/ /\ MergeOnto(patch)["threshold"] \in 0..100
          /\ new_unknown_entity_keys(live, MergeOnto(patch)) # {}
          /\ cmd' = End(c, "unknown")
          /\ UNCHANGED <<live, ghost>>
       \/ /\ MergeOnto(patch)["threshold"] \in 0..100
          /\ new_unknown_entity_keys(live, MergeOnto(patch)) = {}
          /\ live' = MergeOnto(patch)
          /\ ghost' = [Overlaid(DOMAIN patch) EXCEPT
                 !.basis = @ \cup Declared(live'),
                 !.raced = @ \/ ("enabled" \in DOMAIN patch /\ patch["enabled"] # live["enabled"])]
          /\ cmd' = Answered(c)
    /\ UNCHANGED <<files, broker, port, reloading, count>>

PutWhole(c) == Serve(c, "put") /\ put_config(c, Change(c) ++ cmd[c].got)

PutPatch(c) == Serve(c, "patch") /\ put_config(c, Change(c))

\* A file that does not parse is left alone.
persist_profile(f, p) == IF f.ok THEN [f EXCEPT !.doc = for_profile(p) ++ @] ELSE f

\* POST profile: live first, then the file.
ApplyProfile(c) ==
    /\ Serve(c, "profile")
    /\ LET r == cmd[c].req IN
       /\ live' = for_profile(r.value) ++ live
       /\ IF r.scope # "session"
          THEN /\ files' = [files EXCEPT ![r.scope] = persist_profile(@, r.value)]
               /\ ghost' = [Overlaid(DOMAIN for_profile(r.value)) EXCEPT
                      !.unread = @ \/ (files[r.scope].ok /\ load(files) = NoPolicy)]
          ELSE /\ UNCHANGED files
               /\ ghost' = Overlaid(DOMAIN for_profile(r.value))
    /\ cmd' = Answered(c)
    /\ UNCHANGED <<broker, port, reloading, count>>

\* A reload keeps the switches the control plane owns.
Reloaded(policy) == [policy EXCEPT !["enabled"] = live["enabled"], !["ml"] = live["ml"]]

\* Mutant: a reload that fails leaves the broker as it was.
ReloadKeepsBroker(c) ==
    /\ Serve(c, "reload")
    /\ \/ /\ load(files) = NoPolicy
          /\ cmd' = Unanswered(c)
          /\ ghost' = [ghost EXCEPT !.unread = FALSE]
          /\ UNCHANGED <<live, broker, reloading>>
       \/ /\ load(files) # NoPolicy
          /\ live' = Reloaded(load(files))
          /\ reloading' = c
          /\ ghost' = [ghost EXCEPT !.overlay = {}, !.unread = FALSE, !.basis = DOMAIN merged_value(files)]
          /\ cmd' = Disturb(c)
          /\ UNCHANGED broker
    /\ UNCHANGED <<files, port, count>>

\* POST reload, up to reload_engine and set_config.
Reload(c) ==
    /\ Serve(c, "reload")
    /\ \/ /\ load(files) = NoPolicy
          /\ broker' = "deny"
          /\ cmd' = Unanswered(c)
          /\ ghost' = [ghost EXCEPT !.unread = FALSE]
          /\ UNCHANGED <<live, reloading>>
       \/ /\ load(files) # NoPolicy
          /\ live' = Reloaded(load(files))
          /\ reloading' = c
          /\ ghost' = [ghost EXCEPT !.overlay = {}, !.unread = FALSE, !.basis = DOMAIN merged_value(files)]
          /\ cmd' = Disturb(c)
          /\ UNCHANGED broker
    /\ UNCHANGED <<files, port, count>>

\* POST reload, the broker rules: the files are read again.
ReloadBroker(c) ==
    /\ reloading = c
    /\ broker' = reload_broker_allows(files)
    /\ reloading' = Nobody
    /\ cmd' = Answered(c)
    /\ UNCHANGED <<files, live, port, count, ghost>>

-----------------------------------------------------------------------------
(* The proxy's life and the user's editor.                                 *)

\* The history a start leaves: asked is the switch last asked for, raced
\* whether a whole-configuration PUT has overwritten it, basis the keys of
\* the documents last loaded and the types a rule declared when a PUT passed.
Started == [overlay |-> {}, unread |-> FALSE, raced |-> FALSE,
            asked |-> load(files)["enabled"], basis |-> DOMAIN merged_value(files)]

Start(p) ==
    /\ live = NoPolicy /\ load(files) # NoPolicy
    /\ count.starts < MaxStarts
    /\ count' = [count EXCEPT !.starts = @ + 1]
    /\ live' = load(files) /\ broker' = reload_broker_allows(files) /\ port' = p
    /\ cmd' = DisturbAll
    /\ ghost' = Started
    /\ UNCHANGED <<files, reloading>>

Stop ==
    /\ live # NoPolicy /\ count.starts < MaxStarts
    /\ live' = NoPolicy /\ broker' = "deny" /\ port' = NoPort
    /\ cmd' = IF reloading = Nobody THEN DisturbAll ELSE CutShort(reloading)
    /\ reloading' = Nobody
    /\ ghost' = [ghost EXCEPT !.overlay = {}, !.unread = FALSE]
    /\ UNCHANGED <<files, count>>

\* The user sets a key, takes one out, or leaves a file that does not parse.
EditFile(l, f) ==
    /\ count.edits < MaxEdits
    /\ count' = [count EXCEPT !.edits = @ + 1]
    /\ files' = [files EXCEPT ![l] = f]
    /\ cmd' = DisturbAll
    /\ ghost' = [ghost EXCEPT !.unread = TRUE]
    /\ UNCHANGED <<live, broker, port, reloading>>

Type(e) == EditFile(e[1], [ok |-> TRUE, doc |-> Entry(e[2], e[3]) ++ files[e[1]].doc])

Garble(l) == files[l].ok /\ EditFile(l, [files[l] EXCEPT !.ok = FALSE])

\* The command has reported.
Exit(c) ==
    /\ cmd[c] # NoCommand /\ cmd[c].todo = <<>>
    /\ cmd' = [cmd EXCEPT ![c] = NoCommand]
    /\ UNCHANGED <<files, live, broker, port, reloading, count, ghost>>

Init ==
    /\ \E d \in UserDocs : files = [user |-> [ok |-> TRUE, doc |-> d], project |-> Empty, local |-> Empty]
    /\ live = NoPolicy /\ broker = "deny" /\ port = NoPort
    /\ reloading = Nobody
    /\ cmd = [c \in Clis |-> NoCommand]
    /\ count = [commands |-> 0, edits |-> 0, starts |-> 0]
    /\ ghost = [overlay |-> {}, unread |-> FALSE, raced |-> FALSE, asked |-> TRUE, basis |-> {}]

Step(c) ==
    \/ \E r \in Requests : Begin(c, r)
    \/ Refuse(c) \/ Base(c) \/ ReadFile(c) \/ WriteFile(c) \/ Route(c)
    \/ SetEnabled(c) \/ SetMl(c) \/ Fetch(c) \/ PutWhole(c) \/ PutPatch(c)
    \/ ApplyProfile(c) \/ Reload(c) \/ ReloadBroker(c) \/ Fail(c) \/ Exit(c)

Next ==
    \/ \E c \in Clis : Step(c)
    \/ \E p \in Ports : Start(p)
    \/ Stop
    \/ \E e \in Edits : Type(e)
    \/ \E l \in {e[1] : e \in Edits} : Garble(l)

Spec == Init /\ [][Next]_vars

-----------------------------------------------------------------------------
(* Properties.                                                             *)

\* A command that nothing else disturbed, and that reports success, changes
\* the policy in effect (the proxy's, or the one it would load) by exactly
\* what was asked: a toggled category keeps the others, an offline edit
\* starts from what the proxy would run, a profile brings all its fields.
\* Excepted: a key that a later layer sets, files that did not parse, and a
\* proxy that was not in step with its files.
CommandsDoWhatTheySay ==
    \A c \in Clis : cmd[c].result \in {"session", "applied", "saved"} =>
                        cmd[c].expect \subseteq {Effective}

\* Once a reload has run and no file has changed since, the proxy's policy is
\* what its files say, but for the keys set live since and the two switches
\* the control plane owns; and it brokers nothing the files do not allow,
\* whether the reload succeeded or failed.  And always masking is on or off as
\* the operator last asked, or as the files said at the start: no reload,
\* profile, model or entity command flips it, only a whole-configuration PUT
\* whose fetch was overtaken does (raced).
LiveFollowsFiles ==
    /\ (live # NoPolicy /\ ~ghost.unread) =>
           /\ (reloading = Nobody /\ broker = "allow") => reload_broker_allows(files) = "allow"
           /\ load(files) # NoPolicy =>
                  LET theirs == ghost.overlay \cup {"enabled", "ml"}
                  IN  RestrictTo(live, DOMAIN live \ theirs)
                          = RestrictTo(load(files), DOMAIN load(files) \ theirs)
    /\ (live # NoPolicy /\ ~ghost.raced) => live["enabled"] = ghost.asked

\* A misspelt entity never enters the live policy through the control plane,
\* not even with a configuration fetched before a reload took the key away; a
\* type that a rule declared when it was set is not one, and outlives its rule.
\* And one that is there never blocks an unrelated change.
TyposStayOut ==
    /\ live # NoPolicy => unknown_entity_types(live) \subseteq ghost.basis
    /\ \A c \in Clis : (cmd[c].result = "unknown" /\ cmd[c].alone) => cmd[c].req.set = "entity"
=============================================================================

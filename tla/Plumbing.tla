------------------------------- MODULE Plumbing -------------------------------
(***************************************************************************)
(* How the hooks route a project's sessions through its proxy.  The        *)
(* session-start hook plumbs a project at first sight, reconciles a route  *)
(* that went stale and heals one that was opted out; the enable and        *)
(* disable commands do the same on request; the prompt hook is the gate    *)
(* that holds a prompt back which would leave unmasked, and tells the      *)
(* model when the protection of its session changes.  Hooks are processes  *)
(* of different sessions of one project: they share two settings files,    *)
(* the side-car with the user's own status line, and the registry entry.   *)
(*                                                                         *)
(* Bringing the proxy up is ProxyLaunch's subject: here it returns a port. *)
(***************************************************************************)
EXTENDS Naturals

CONSTANTS
    Sessions,  \* agent sessions of the project, one conversation each
    Ports,     \* loopback ports
    NoPort,    \* no value in a route
    Gateway,   \* a base URL of the user's own, not a loopback one
    OwnUrls,   \* base URLs the user may set
    Lines,     \* status lines of the user's own
    OurLine,   \* a status line that is_zlauder_statusline accepts
    NoLine,
    StartFiles, \* what may be in the two settings files at the beginning
    Hatches,   \* whether ZLAUDER_NO_INTAKE_GATE may be set in a session
    MaxOps     \* bound: launches, commands, edits and events outside

ASSUME RouteAssumption == NoPort \notin Ports /\ Gateway \notin Ports /\ Gateway # NoPort
                          /\ OwnUrls \subseteq Ports \cup {Gateway}
ASSUME LineAssumption  == OurLine \notin Lines /\ NoLine \notin Lines /\ OurLine # NoLine
ASSUME HatchAssumption == Hatches \subseteq BOOLEAN
ASSUME BoundAssumption == MaxOps \in Nat

VARIABLES
    file,      \* the settings files, local (not committed) and committed
    sidecar,   \* zlauder-statusline.json: the line that was taken over
    registry,  \* the project's PlumbState
    proxy,     \* the port of this project's live, verified proxy
    masking,   \* whether that proxy masks
    env,       \* the route each session was given, and its escape hatch
    hook,      \* the hook or command each session runs
    record,    \* the status record of each conversation
    stale,     \* the conversations whose record was not written for two weeks
    doomed,    \* the records that each hook's prune_stale_status found stale
    told,      \* history: the protection the model of each session was last told
    forgotten, \* history: record pruned since the model was last told anything
    sent,      \* history: how the last prompt of each session left
    exposed,   \* history: no moment of this prompt's hook excused sending it
    theirs,    \* history: the line the user last had of their own
    kept,      \* history: the base URL the user set, per file, not yet replaced
    intent,    \* history: the outcome of the last command, if no session start raced it
    disturbed, \* history: settings edits overlapped or were cut short
    ops

wiring  == <<file, sidecar, registry>>
world   == <<proxy, masking>>
notes   == <<record, stale, doomed, told, forgotten>>
session == <<env, notes, sent>>
history == <<theirs, kept, intent, disturbed>>
vars    == <<wiring, world, session, hook, exposed, history, ops>>

-----------------------------------------------------------------------------
File == [url : Ports \cup {NoPort, Gateway}, zport : Ports \cup {NoPort},
         line : Lines \cup {OurLine, NoLine},
         kernel : {"none", "part", "all"}, \* our permission rules and auto-mode note
         valid : BOOLEAN]                  \* whether it parses

Files == {"local", "committed"}

NoFile == [url |-> NoPort, zport |-> NoPort, line |-> NoLine, kernel |-> "none", valid |-> TRUE]

ASSUME FilesAssumption == StartFiles \subseteq [Files -> File]

PlumbState == {"none", "Plumbed", "Optout"}

MaskState == {"Masked", "Off", "NotReaching", "Disabled", "UnmaskedBypass"}

\* A hook reads the settings files at "baked"; it edits them from "load" or
\* "sidecar" on.
Hook == [op : {"none", "start", "plumb", "reconcile", "heal", "enable", "disable",
               "sweep", "prompt"},
         pc : {"idle", "baked", "optout", "ensure", "register", "load", "load_committed",
               "save", "migrate", "write", "plumbed", "sidecar", "strip_local",
               "strip_committed", "forget", "unregister", "probe", "answer", "narrate", "prune"},
         port : Ports \cup {NoPort}, baked : Ports \cup {NoPort},
         out : BOOLEAN, copy : File, saved : Lines \cup {NoLine},
         changed : BOOLEAN, command : BOOLEAN, verified : BOOLEAN]

Idle == [op |-> "none", pc |-> "idle", port |-> NoPort, baked |-> NoPort, out |-> FALSE,
         copy |-> NoFile, saved |-> NoLine, changed |-> FALSE, command |-> FALSE, verified |-> FALSE]

\* Types; in particular the side-car never holds a line of ours, which would
\* have the status line run itself.
TypeOK ==
    /\ file \in [Files -> File] /\ sidecar \in Lines \cup {NoLine} /\ registry \in PlumbState
    /\ proxy \in Ports \cup {NoPort} /\ masking \in BOOLEAN
    /\ env \in [Sessions -> [url : Ports \cup {NoPort, Gateway}, zport : Ports \cup {NoPort},
                             hatch : BOOLEAN]]
    /\ hook \in [Sessions -> Hook]
    /\ record \in [Sessions -> MaskState \cup {"none"}]
    /\ told \in [Sessions -> MaskState \cup {"none"}]
    /\ stale \subseteq Sessions /\ doomed \in [Sessions -> SUBSET Sessions]
    /\ forgotten \subseteq Sessions
    /\ sent \in [Sessions -> {"nothing", "covered", "exposed"}]
    /\ exposed \in [Sessions -> BOOLEAN]
    /\ theirs \in Lines \cup {NoLine}
    /\ kept \in [Files -> Ports \cup {NoPort, Gateway}]
    /\ intent \in {"none", "on", "off"} /\ disturbed \in BOOLEAN
    /\ ops \in 0 .. MaxOps

-----------------------------------------------------------------------------
(* What the hooks read from and write to a settings file.                  *)

\* project_baked_route, per file: a loopback URL whose port is the co-baked one.
Routes(f) == f.valid /\ f.zport # NoPort /\ f.url = f.zport

\* project_baked_route
Baked ==
    CASE Routes(file["local"])     -> file["local"].zport
      [] ~ Routes(file["local"]) /\ Routes(file["committed"]) -> file["committed"].zport
      [] OTHER                     -> NoPort

\* What the agent applies to a session: the local file over the committed one.
Applied(key) == IF file["local"].valid /\ file["local"][key] # NoPort
                THEN file["local"][key]
                ELSE IF file["committed"].valid THEN file["committed"][key] ELSE NoPort

\* session_routed_through, with the port of the session's own co-key.
Routed(e) == e.zport # NoPort /\ e.url = e.zport

\* effective_user_statusline
UserLine(l, c) ==
    CASE l.line \in Lines -> l.line
      [] l.line = NoLine /\ c.line \in Lines -> c.line
      [] OTHER -> NoLine

\* Mutant: only the route counts as wiring.
WiredByRoute(f) == f.zport # NoPort

\* Anything of ours that makes strip_routing_from touch a file.
Wired(f) == f.zport # NoPort \/ f.line = OurLine \/ f.kernel # "none"

\* strip_routing_from on a file that has wiring: the URL goes only when its
\* port is the co-baked one, the line only when it is ours.
Stripped(f, restore) ==
    [f EXCEPT !.url    = IF f.zport # NoPort /\ @ = f.zport THEN NoPort ELSE @,
              !.zport  = NoPort,
              !.line   = IF @ = OurLine THEN restore ELSE @,
              !.kernel = "none"]

-----------------------------------------------------------------------------
(* The steps of a hook.                                                    *)

Goto(s, pc) == hook' = [hook EXCEPT ![s].pc = pc]
End(s)      == hook' = [hook EXCEPT ![s] = Idle]

\* A prompt of session s that is sent now leaves unmasked although the project
\* is plumbed and not opted out.
Exposed(s) == /\ Baked # NoPort /\ registry # "Optout"
              /\ ~ (proxy # NoPort /\ env[s].url = proxy)

\* Conjoined to every action: what is true throughout a prompt's hook.
Watch == exposed' = [s \in Sessions |->
                        Exposed(s)' /\ (hook[s].op = "prompt" => exposed[s])]

\* The steps of a hook that has begun to edit the settings.
EditSteps == {"load_committed", "save", "migrate", "write",
              "strip_local", "strip_committed", "forget"}

Editing(s)   == hook[s].pc \in EditSteps
Overlap(s)   == \E t \in Sessions \ {s} : Editing(t)
Commanded    == \E s \in Sessions : hook[s].op \in {"enable", "disable", "sweep"}
Plumbs       == \E s \in Sessions : hook[s].op \in {"start", "plumb"}
Count        == ops < MaxOps /\ ops' = ops + 1

\* Nothing has been recorded of a new conversation, and nothing told to it.
NewConversation(s) ==
    /\ record' = [record EXCEPT ![s] = "none"] /\ told' = [told EXCEPT ![s] = "none"]
    /\ stale' = stale \ {s} /\ forgotten' = forgotten \ {s}
    /\ doomed' = [t \in Sessions |-> doomed[t] \ {s}]

\* The agent starts or resumes a session, gives it the route that is in the
\* files, and runs session_start.
Launch(s, resumed, hatch) ==
    /\ hook[s].pc = "idle" /\ Count
    /\ LET e == [url |-> Applied("url"), zport |-> Applied("zport"), hatch |-> hatch] IN
       /\ env' = [env EXCEPT ![s] = e]
       /\ hook' = [hook EXCEPT ![s].op = "start",
                               ![s].pc = IF Routed(e) THEN "ensure" ELSE "baked",
                               ![s].port = IF Routed(e) THEN e.zport ELSE NoPort]
    /\ IF resumed THEN UNCHANGED notes ELSE NewConversation(s)
    /\ sent' = [sent EXCEPT ![s] = "nothing"]
    /\ UNCHANGED <<wiring, world, history>>
    /\ Watch

\* The agent applies an edited route to a running session, which it does now
\* and then.
Reload(s) ==
    /\ hook[s].pc = "idle" /\ Count
    /\ env' = [env EXCEPT ![s].url = Applied("url"), ![s].zport = Applied("zport")]
    /\ UNCHANGED <<wiring, world, notes, sent, hook, history>>
    /\ Watch

\* project_baked_route: session_start reads it before the registry, the prompt
\* hook after it.
ReadBaked(s) ==
    /\ hook[s].pc = "baked"
    /\ hook' = [hook EXCEPT
            ![s].baked = Baked,
            ![s].pc = CASE hook[s].op = "start" -> "optout"
                        [] hook[s].op # "start" /\ Baked # NoPort /\ env[s].url = Baked
                           /\ ~ hook[s].out /\ ~ env[s].hatch /\ ~ hook[s].command -> "probe"
                        [] OTHER -> "answer"]
    /\ UNCHANGED <<wiring, world, session, history, ops>>
    /\ Watch

\* registry_get; session_start then plumbs, heals or leaves the project alone.
ReadRegistry(s) ==
    /\ hook[s].pc = "optout"
    /\ LET out == registry = "Optout" IN
       hook' = [hook EXCEPT ![s] =
            CASE @.op = "prompt" -> [@ EXCEPT !.out = out, !.pc = "baked"]
              [] @.op = "start" /\ @.baked = NoPort /\ ~ out -> [@ EXCEPT !.pc = "ensure"]
              [] @.op = "start" /\ @.baked # NoPort /\ out ->
                    [Idle EXCEPT !.op = "heal", !.pc = "sidecar"]
              [] OTHER -> Idle]
    /\ UNCHANGED <<wiring, world, session, history, ops>>
    /\ Watch

\* ensure_up, for session_start and for the enable command's reserve-port: the
\* live proxy's port, a new proxy's port, or a failure that ends the hook.
EnsureUp(s) ==
    /\ hook[s].pc = "ensure"
    /\ \/ /\ End(s)
          /\ UNCHANGED proxy
       \/ \E p \in Ports :
            /\ proxy # NoPort => p = proxy
            /\ proxy' = p
            /\ hook' = [hook EXCEPT ![s] =
                 CASE @.op = "enable" -> [@ EXCEPT !.pc = "register", !.port = p]
                   [] @.op = "start" /\ @.port = NoPort ->
                        [Idle EXCEPT !.op = "plumb", !.pc = "load", !.port = p]
                   [] @.op = "start" /\ @.port = p -> Idle
                   [] OTHER -> [Idle EXCEPT !.op = "reconcile", !.pc = "load", !.port = p]]
    /\ UNCHANGED <<wiring, masking, session, history, ops>>
    /\ Watch

-----------------------------------------------------------------------------
(* settings_enable.                                                        *)

\* The user enables: /zlauder:enable, one command at a time.
Enable(s) ==
    /\ hook[s].pc = "idle" /\ ~ Commanded /\ Count
    /\ hook' = [hook EXCEPT ![s].op = "enable", ![s].pc = "ensure"]
    /\ intent' = "none"
    /\ UNCHANGED <<wiring, world, session, theirs, kept, disturbed>>
    /\ Watch

\* The command clears an opt-out first, and stops when that fails.
Register(s) ==
    /\ hook[s].pc = "register"
    /\ \/ registry' = "Plumbed" /\ Goto(s, "load")
       \/ UNCHANGED registry /\ End(s)
    /\ UNCHANGED <<file, sidecar, world, session, history, ops>>
    /\ Watch

\* A settings file that does not parse ends the hook.
Refuse(s) ==
    /\ \/ hook[s].pc \in {"load", "strip_local"} /\ ~ file["local"].valid
       \/ hook[s].pc \in {"load_committed", "migrate", "strip_committed"}
          /\ ~ file["committed"].valid
    /\ End(s)
    /\ disturbed' = (disturbed \/ hook[s].pc = "strip_committed")
    /\ UNCHANGED <<wiring, world, session, theirs, kept, intent, ops>>
    /\ Watch

LoadLocal(s) ==
    /\ hook[s].pc = "load" /\ file["local"].valid
    /\ hook' = [hook EXCEPT ![s].copy = file["local"], ![s].pc = "load_committed"]
    /\ disturbed' = (disturbed \/ Overlap(s))
    /\ UNCHANGED <<wiring, world, session, theirs, kept, intent, ops>>
    /\ Watch

LoadCommitted(s) ==
    /\ hook[s].pc = "load_committed" /\ file["committed"].valid
    /\ hook' = [hook EXCEPT ![s].saved = UserLine(hook[s].copy, file["committed"]),
                            ![s].pc = "save"]
    /\ UNCHANGED <<wiring, world, session, history, ops>>
    /\ Watch

\* Mutant: a take-over without a line to wrap clears the side-car.
SaveSidecarAlways(s) ==
    /\ hook[s].pc = "save"
    /\ sidecar' = hook[s].saved
    /\ Goto(s, "migrate")
    /\ UNCHANGED <<file, registry, world, session, history, ops>>
    /\ Watch

SaveSidecar(s) ==
    /\ hook[s].pc = "save"
    /\ sidecar' = IF hook[s].saved # NoLine THEN hook[s].saved ELSE sidecar
    /\ Goto(s, "migrate")
    /\ UNCHANGED <<file, registry, world, session, history, ops>>
    /\ Watch

\* Wiring of an old install leaves the committed file; nothing is restored there.
Migrate(s) ==
    /\ hook[s].pc = "migrate" /\ file["committed"].valid
    /\ file' = IF Wired(file["committed"])
               THEN [file EXCEPT !["committed"] = Stripped(@, NoLine)] ELSE file
    /\ Goto(s, "write")
    /\ UNCHANGED <<sidecar, registry, world, session, history, ops>>
    /\ Watch

\* The copy that was loaded at the beginning, with our wiring, replaces the file.
WriteLocal(s) ==
    /\ hook[s].pc = "write"
    /\ file' = [file EXCEPT !["local"] =
                   [hook[s].copy EXCEPT !.url = hook[s].port, !.zport = hook[s].port,
                                        !.line = OurLine, !.kernel = "all"]]
    /\ kept' = [kept EXCEPT !["local"] = NoPort]
    /\ IF hook[s].op = "plumb" THEN Goto(s, "plumbed") ELSE End(s)
    /\ intent' = IF hook[s].op = "enable" THEN "on" ELSE intent
    /\ UNCHANGED <<sidecar, registry, world, session, theirs, disturbed, ops>>
    /\ Watch

\* session_start records a project it plumbed, if it can.
RecordPlumbed(s) ==
    /\ hook[s].pc = "plumbed"
    /\ registry' \in {"Plumbed", registry}
    /\ End(s)
    /\ UNCHANGED <<file, sidecar, world, session, history, ops>>
    /\ Watch

-----------------------------------------------------------------------------
(* settings_disable_at, for the commands and for session_start's self-heal. *)

Disable(s) ==
    /\ hook[s].pc = "idle" /\ ~ Commanded /\ Count
    /\ hook' = [hook EXCEPT ![s].op = "disable", ![s].pc = "sidecar"]
    /\ intent' = "none"
    /\ UNCHANGED <<wiring, world, session, theirs, kept, disturbed>>
    /\ Watch

\* disable --all reaches this project by its registry entry or its baked route.
Sweep(s) ==
    /\ hook[s].pc = "idle" /\ ~ Commanded /\ Count
    /\ registry = "Plumbed" \/ Baked # NoPort
    /\ hook' = [hook EXCEPT ![s].op = "sweep", ![s].pc = "sidecar"]
    /\ intent' = "none"
    /\ UNCHANGED <<wiring, world, session, theirs, kept, disturbed>>
    /\ Watch

ReadSidecar(s) ==
    /\ hook[s].pc = "sidecar"
    /\ hook' = [hook EXCEPT ![s].saved = sidecar, ![s].pc = "strip_local"]
    /\ disturbed' = (disturbed \/ Overlap(s))
    /\ UNCHANGED <<wiring, world, session, theirs, kept, intent, ops>>
    /\ Watch

\* strip_routing_from with the original, which the first file that still holds
\* our line consumes.
Strip(s, f) ==
    /\ hook[s].pc = IF f = "local" THEN "strip_local" ELSE "strip_committed"
    /\ file[f].valid
    /\ file' = IF Wired(file[f]) THEN [file EXCEPT ![f] = Stripped(@, hook[s].saved)] ELSE file
    /\ hook' = [hook EXCEPT ![s].saved = IF file[f].line = OurLine THEN NoLine ELSE @,
                            ![s].changed = @ \/ Wired(file[f]),
                            ![s].pc = IF f = "local" THEN "strip_committed" ELSE "forget"]
    /\ UNCHANGED <<sidecar, registry, world, session, history, ops>>
    /\ Watch

\* The side-car goes when something was stripped.
Forget(s) ==
    /\ hook[s].pc = "forget"
    /\ sidecar' = IF hook[s].changed THEN NoLine ELSE sidecar
    /\ IF hook[s].op = "heal" THEN End(s) ELSE Goto(s, "unregister")
    /\ UNCHANGED <<file, registry, world, session, history, ops>>
    /\ Watch

\* disable records the opt-out, the sweep drops the entry, both if they can.
Unregister(s) ==
    /\ hook[s].pc = "unregister"
    /\ registry' \in {IF hook[s].op = "disable" THEN "Optout" ELSE "none", registry}
    /\ End(s)
    /\ intent' = IF hook[s].op = "disable" /\ registry' = "Optout" /\ ~ Plumbs THEN "off" ELSE intent
    /\ UNCHANGED <<file, sidecar, world, session, theirs, kept, disturbed, ops>>
    /\ Watch

-----------------------------------------------------------------------------
(* user_prompt_submit.                                                     *)

Prompt(s, command) ==
    /\ hook[s].pc = "idle" /\ Count
    /\ hook' = [hook EXCEPT ![s].op = "prompt", ![s].pc = "optout", ![s].command = command]
    /\ sent' = [sent EXCEPT ![s] = "nothing"]
    /\ UNCHANGED <<wiring, world, env, notes, history>>
    /\ Watch

\* Mutant: a session whose URL is the baked one counts as reaching our proxy.
ProbeByUrl(s) ==
    /\ hook[s].pc = "probe"
    /\ hook' = [hook EXCEPT ![s].verified = TRUE, ![s].pc = "answer"]
    /\ UNCHANGED <<wiring, world, session, history, ops>>
    /\ Watch

\* intake_identity_ok: our live proxy echoes its nonce on the baked port; an
\* answer that takes too long counts as none.
Probe(s) ==
    /\ hook[s].pc = "probe"
    /\ \E verified \in {proxy = hook[s].baked, FALSE} :
          hook' = [hook EXCEPT ![s].verified = verified, ![s].pc = "answer"]
    /\ UNCHANGED <<wiring, world, session, history, ops>>
    /\ Watch

\* intake_should_block_verified, and the exception for our own commands.
Answer(s) ==
    /\ hook[s].pc = "answer"
    /\ LET block == /\ ~ env[s].hatch /\ ~ hook[s].out /\ hook[s].baked # NoPort
                    /\ ~ hook[s].verified /\ ~ hook[s].command IN
       IF block THEN End(s) ELSE Goto(s, "narrate")
    /\ UNCHANGED <<wiring, world, session, history, ops>>
    /\ Watch

\* session_mask_state, and routed_proxy_status, from what the hook has read.
Status(s) ==
    CASE hook[s].out -> "Disabled"
      [] ~ hook[s].out /\ hook[s].baked = NoPort -> "none"
      [] ~ hook[s].out /\ hook[s].baked # NoPort /\ env[s].url # hook[s].baked ->
            IF env[s].hatch THEN "UnmaskedBypass" ELSE "NotReaching"
      [] OTHER -> IF proxy # hook[s].baked THEN "NotReaching"
                  ELSE IF masking THEN "Masked" ELSE "Off"

\* Mutant: only the way into masking is told.
NarratesRecovery(prev, cur) == prev # cur /\ cur = "Masked"

\* should_narrate
should_narrate(prev, cur) ==
    /\ prev # cur
    /\ prev = "Masked" \/ cur \in {"Masked", "UnmaskedBypass"}

\* emit_mask_delta: the record is written whether or not a line is posted, and
\* the records of others that are two weeks old are looked up to be pruned.  A
\* slow proxy reads as one that is not reached.
Narrate(s) ==
    /\ hook[s].pc = "narrate"
    /\ \E cur \in {Status(s), IF Status(s) \in {"Masked", "Off"} THEN "NotReaching" ELSE Status(s)} :
          IF cur = "none" THEN UNCHANGED notes
          ELSE /\ record' = [record EXCEPT ![s] = cur]
               /\ stale' = stale \ {s}
               /\ doomed' = [doomed EXCEPT ![s] = stale \ {s}]
               /\ IF should_narrate(record[s], cur)
                  THEN told' = [told EXCEPT ![s] = cur] /\ forgotten' = forgotten \ {s}
                  ELSE UNCHANGED <<told, forgotten>>
    /\ Goto(s, "prune")
    /\ UNCHANGED <<wiring, world, env, sent, history, ops>>
    /\ Watch

\* prune_stale_status unlinks what it found, even a record that was written
\* since; then the hook ends and the agent sends the prompt.
Prune(s) ==
    /\ hook[s].pc = "prune"
    /\ record' = [t \in Sessions |-> IF t \in doomed[s] THEN "none" ELSE record[t]]
    /\ stale' = stale \ doomed[s]
    /\ doomed' = [doomed EXCEPT ![s] = {}]
    /\ forgotten' = forgotten \cup doomed[s]
    /\ sent' = [sent EXCEPT ![s] = IF exposed[s] /\ ~ env[s].hatch /\ ~ hook[s].command
                                   THEN "exposed" ELSE "covered"]
    /\ End(s)
    /\ UNCHANGED <<wiring, world, env, told, history, ops>>
    /\ Watch

-----------------------------------------------------------------------------
(* The user, the operating system and the agent.                           *)

\* The user edits a settings file, but not while a hook is rewriting it.
Edit(f, new) ==
    /\ Count /\ \A s \in Sessions : ~ Editing(s)
    /\ file' = [file EXCEPT ![f] = new]
    /\ UNCHANGED <<sidecar, registry, world, session, hook, intent, disturbed>>
    /\ Watch

SetLine(l) ==
    /\ Edit("local", [file["local"] EXCEPT !.line = l])
    /\ theirs' = l
    /\ UNCHANGED kept

SetUrl(f, u) ==
    /\ u # file[f].zport
    /\ Edit(f, [file[f] EXCEPT !.url = u])
    /\ kept' = [kept EXCEPT ![f] = u]
    /\ UNCHANGED theirs

DropRule(f) ==
    /\ file[f].kernel = "all"
    /\ Edit(f, [file[f] EXCEPT !.kernel = "part"])
    /\ UNCHANGED <<theirs, kept>>

\* The user takes our route out by hand and leaves the rest.
DropRoute(f) ==
    /\ file[f].zport # NoPort
    /\ Edit(f, [file[f] EXCEPT !.url = IF @ = file[f].zport THEN NoPort ELSE @,
                              !.zport = NoPort])
    /\ UNCHANGED <<theirs, kept>>

BreakOrMend(f) ==
    /\ Edit(f, [file[f] EXCEPT !.valid = ~ @])
    /\ UNCHANGED <<theirs, kept>>

\* An older copy of the settings comes back, with a route in it.
RestoreRoute(p) ==
    /\ Edit("local", [file["local"] EXCEPT !.url = p, !.zport = p])
    /\ kept' = [kept EXCEPT !["local"] = NoPort]
    /\ UNCHANGED theirs

ProxyDies ==
    /\ proxy # NoPort /\ Count
    /\ proxy' = NoPort
    /\ UNCHANGED <<wiring, masking, session, hook, history>>
    /\ Watch

\* Two weeks have passed since the record of a session was last written.
Fortnight(s) ==
    /\ record[s] # "none" /\ s \notin stale /\ hook[s].pc = "idle"
    /\ stale' = stale \cup {s}
    /\ UNCHANGED <<wiring, world, env, record, doomed, told, forgotten, sent, hook, history, ops>>
    /\ Watch

\* The key-gated admin plane switches masking off or on.
ToggleMasking ==
    /\ proxy # NoPort /\ Count
    /\ masking' = ~ masking
    /\ UNCHANGED <<wiring, proxy, session, hook, history>>
    /\ Watch

\* A hook of session_start or a command is killed.
Crash(s) ==
    /\ hook[s].pc # "idle" /\ hook[s].op # "prompt" /\ Count
    /\ End(s)
    /\ disturbed' = (disturbed \/ Editing(s))
    /\ UNCHANGED <<wiring, world, session, theirs, kept, intent>>
    /\ Watch

-----------------------------------------------------------------------------
\* The status line the agent shows.
InEffect == IF file["local"].line # NoLine THEN file["local"].line ELSE file["committed"].line

Init ==
    /\ file \in StartFiles
    /\ sidecar \in IF \E f \in Files : file[f].line = OurLine THEN Lines \cup {NoLine} ELSE {NoLine}
    \* A take-over beside a committed line has saved one.
    /\ file["local"].line = OurLine /\ file["committed"].line \in Lines => sidecar # NoLine
    /\ registry = IF file["local"].line = OurLine THEN "Plumbed" ELSE "none"
    /\ proxy \in {NoPort, Baked} /\ masking = TRUE
    /\ env = [s \in Sessions |-> [url |-> Applied("url"), zport |-> Applied("zport"),
                                  hatch |-> FALSE]]
    /\ hook = [s \in Sessions |-> Idle]
    /\ record = [s \in Sessions |-> "none"] /\ told = record
    /\ stale = {} /\ doomed = [s \in Sessions |-> {}] /\ forgotten = {}
    /\ sent = [s \in Sessions |-> "nothing"]
    /\ theirs = IF InEffect = OurLine THEN sidecar ELSE InEffect
    /\ kept = [f \in Files |-> IF Wired(file[f]) THEN NoPort ELSE file[f].url]
    /\ intent = "none" /\ disturbed = FALSE /\ ops = 0
    /\ exposed = [s \in Sessions |-> Exposed(s)]

HookStep(s) ==
    \/ ReadBaked(s)
    \/ ReadRegistry(s)
    \/ EnsureUp(s)
    \/ Register(s)
    \/ Refuse(s)
    \/ LoadLocal(s)
    \/ LoadCommitted(s)
    \/ SaveSidecar(s)
    \/ Migrate(s)
    \/ WriteLocal(s)
    \/ RecordPlumbed(s)
    \/ ReadSidecar(s)
    \/ \E f \in Files : Strip(s, f)
    \/ Forget(s)
    \/ Unregister(s)
    \/ Probe(s)
    \/ Answer(s)
    \/ Narrate(s)
    \/ Prune(s)

UserEdit ==
    \/ \E l \in Lines : SetLine(l)
    \/ \E f \in Files, u \in OwnUrls : SetUrl(f, u)
    \/ \E f \in Files : DropRule(f) \/ DropRoute(f) \/ BreakOrMend(f)
    \/ \E p \in Ports : RestoreRoute(p)

Next ==
    \/ \E s \in Sessions : HookStep(s)
    \/ \E s \in Sessions, resumed \in BOOLEAN, hatch \in Hatches : Launch(s, resumed, hatch)
    \/ \E s \in Sessions, command \in BOOLEAN : Prompt(s, command)
    \/ \E s \in Sessions : Reload(s) \/ Enable(s) \/ Disable(s) \/ Sweep(s) \/ Crash(s) \/ Fortnight(s)
    \/ UserEdit
    \/ ProxyDies
    \/ ToggleMasking

Spec == Init /\ [][Next]_vars

-----------------------------------------------------------------------------
(* Properties.                                                             *)

Quiet == \A s \in Sessions : ~ Editing(s)

\* The intake gate is closed: no prompt leaves unmasked while the project is
\* plumbed and not opted out, unless the user opened the hatch, the prompt is a
\* command of ours, or one of that was otherwise at some moment of the hook.
GateIsClosed == \A s \in Sessions : sent[s] # "exposed"

\* What is the user's comes back to them.  A line of ours stands for the line the
\* user had last, which is in the side-car, and when ours is gone that line is in
\* effect again, whatever file it was in and however often the project was plumbed,
\* unless settings edits overlapped or were cut short.  And nothing but an edit of
\* the user's or a take-over of the local file replaces a base URL the user set:
\* neither a disable nor a migration takes it for ours.
UsersSettingsKept ==
    /\ TypeOK
    /\ (Quiet /\ ~ disturbed) => theirs = IF InEffect = OurLine THEN sidecar ELSE InEffect
    /\ \A f \in Files : kept[f] # NoPort => file[f].url = kept[f]

\* A disable that ran alone leaves nothing of ours in either file when it comes
\* to forget the side-car, and the project is opted out until it is enabled again:
\* "never auto-plumb it again", unless a session start was already under way.
DisableIsComplete ==
    /\ \A s \in Sessions :
          (hook[s].pc = "forget" /\ ~ disturbed) 
              => \A f \in Files : /\ file[f].zport = NoPort /\ file[f].line # OurLine
                                 /\ file[f].kernel = "none"
    /\ intent = "off" => registry = "Optout"

\* The model of a session does not believe in protection that the hook has seen
\* to be gone, and it knows of a bypass, whatever other sessions' hooks do to the
\* records.  The one excuse is a record that lay untouched for two weeks when
\* another session's hook looked at it, and was pruned.
NarrationIsCurrent ==
    \A s \in Sessions :
        /\ record[s] \in {"Masked", "UnmaskedBypass"} => told[s] = record[s]
        /\ told[s] = "Masked" => record[s] = "Masked" \/ s \in forgotten
=============================================================================

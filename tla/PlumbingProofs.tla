--------------------------- MODULE PlumbingProofs ---------------------------
(***************************************************************************)
(* What the hooks of a project keep, whatever the sessions, ports and      *)
(* lines are and whoever edits the settings in between.  Four strands,     *)
(* each with an invariant of its own: what a file's route says about the   *)
(* project (RoadInv, GateInv), what was taken over and is still owed to    *)
(* the user (KeptInv, LineInv), what a disable has promised so far         *)
(* (IntentInv), and what each session's model was last told                *)
(* (NarrationHolds needs the types only).                                  *)
(***************************************************************************)
EXTENDS Plumbing, TLAPS

-----------------------------------------------------------------------------
(* Types *)

\* A hook at rest is well formed.
LEMMA IdleType == Idle \in Hook /\ NoFile \in File
  BY RouteAssumption, LineAssumption DEF Idle, NoFile, Hook, File

\* What the hooks read from the two files is a port, a URL or a line.
LEMMA ReadTypes ==
    ASSUME TypeOK
    PROVE  /\ Baked \in Ports \cup {NoPort}
           /\ Applied("url") \in Ports \cup {NoPort, Gateway}
           /\ Applied("zport") \in Ports \cup {NoPort}
<1>1. file["local"] \in File /\ file["committed"] \in File
  BY DEF TypeOK, Files
<1>. QED  BY <1>1 DEF Baked, Applied, File, Routes

\* Stripping a file of our wiring leaves a file, with a line that is not ours.
LEMMA StrippedType ==
    ASSUME NEW f \in File, NEW restore \in Lines \cup {NoLine}
    PROVE  /\ Stripped(f, restore) \in File
           /\ Stripped(f, restore).zport = NoPort /\ Stripped(f, restore).kernel = "none"
           /\ Stripped(f, restore).line = IF f.line = OurLine THEN restore ELSE f.line
           /\ Stripped(f, restore).url = IF f.zport # NoPort /\ f.url = f.zport
                                         THEN NoPort ELSE f.url
           /\ Stripped(f, restore).valid = f.valid
  BY DEF Stripped, File

\* The steps a hook can be at.
Pcs == {"idle", "baked", "optout", "ensure", "register", "load", "load_committed", "save",
        "migrate", "write", "plumbed", "sidecar", "strip_local", "strip_committed", "forget",
        "unregister", "probe", "answer", "narrate", "prune"}

\* A step of the hook of s leaves the hooks of other sessions alone.
Others(s) == \A t \in Sessions \ {s} : hook'[t] = hook[t]

\* Writing one hook.
LEMMA HookWrite ==
    ASSUME TypeOK, NEW s \in Sessions, NEW h \in Hook, hook' = [hook EXCEPT ![s] = h]
    PROVE  hook' \in [Sessions -> Hook] /\ hook'[s] = h /\ Others(s)
  BY DEF TypeOK, Others

\* Going to another step changes nothing else.
LEMMA GotoStep ==
    ASSUME TypeOK, NEW s \in Sessions, NEW pc \in Pcs, Goto(s, pc)
    PROVE  /\ hook' \in [Sessions -> Hook] /\ Others(s)
           /\ hook'[s] = [hook[s] EXCEPT !.pc = pc]
           /\ hook'[s].pc = pc /\ hook'[s].op = hook[s].op /\ hook'[s].port = hook[s].port
           /\ hook'[s].baked = hook[s].baked /\ hook'[s].out = hook[s].out
           /\ hook'[s].saved = hook[s].saved /\ hook'[s].changed = hook[s].changed
           /\ hook'[s].command = hook[s].command /\ hook'[s].verified = hook[s].verified
<1>. DEFINE h == [hook[s] EXCEPT !.pc = pc]
<1>1. hook[s] \in Hook
  BY DEF TypeOK
<1>2. /\ h \in Hook /\ h.pc = pc /\ h.op = hook[s].op /\ h.port = hook[s].port
      /\ h.baked = hook[s].baked /\ h.out = hook[s].out /\ h.saved = hook[s].saved
      /\ h.changed = hook[s].changed /\ h.command = hook[s].command
      /\ h.verified = hook[s].verified
  BY <1>1 DEF Hook, Pcs
<1>3. hook' = [hook EXCEPT ![s] = h]
  BY DEF Goto
<1>. QED  BY <1>2, <1>3, HookWrite

\* Ending forgets everything.
LEMMA EndStep ==
    ASSUME TypeOK, NEW s \in Sessions, End(s)
    PROVE  hook' \in [Sessions -> Hook] /\ Others(s) /\ hook'[s] = Idle
  BY HookWrite, IdleType DEF End

\* The fields of a hook at rest.
LEMMA IdleFields ==
    /\ Idle.op = "none" /\ Idle.pc = "idle" /\ Idle.port = NoPort /\ Idle.baked = NoPort
    /\ Idle.out = FALSE /\ Idle.saved = NoLine /\ Idle.changed = FALSE
    /\ Idle.command = FALSE /\ Idle.verified = FALSE
  BY DEF Idle

\* A command or a prompt begins: everything else stays as it was at rest.
LEMMA BeginStep ==
    ASSUME TypeOK, NEW s \in Sessions,
           Enable(s) \/ Disable(s) \/ Sweep(s) \/ \E command \in BOOLEAN : Prompt(s, command)
    PROVE  /\ hook' \in [Sessions -> Hook] /\ Others(s) /\ hook[s].pc = "idle"
           /\ \/ hook'[s].op = "enable" /\ hook'[s].pc = "ensure" /\ Enable(s)
              \/ hook'[s].op = "disable" /\ hook'[s].pc = "sidecar" /\ Disable(s)
              \/ hook'[s].op = "sweep" /\ hook'[s].pc = "sidecar" /\ Sweep(s)
              \/ /\ hook'[s].op = "prompt" /\ hook'[s].pc = "optout"
                 /\ \E command \in BOOLEAN : Prompt(s, command)
           /\ hook'[s].port = hook[s].port /\ hook'[s].verified = hook[s].verified
           /\ hook'[s].command \in BOOLEAN
<1>1. hook[s] \in Hook
  BY DEF TypeOK
<1>2. ASSUME NEW op \in {"enable", "disable", "sweep"}, NEW pc \in {"ensure", "sidecar"},
             hook' = [hook EXCEPT ![s].op = op, ![s].pc = pc]
      PROVE  /\ hook' \in [Sessions -> Hook] /\ Others(s)
             /\ hook'[s].op = op /\ hook'[s].pc = pc
             /\ hook'[s].port = hook[s].port /\ hook'[s].verified = hook[s].verified
             /\ hook'[s].command \in BOOLEAN
  <2>. DEFINE h == [hook[s] EXCEPT !.op = op, !.pc = pc]
  <2>1. /\ h \in Hook /\ h.op = op /\ h.pc = pc /\ h.port = hook[s].port
        /\ h.verified = hook[s].verified /\ h.command = hook[s].command
    BY <1>1 DEF Hook
  <2>3. hook[s].command \in BOOLEAN
    BY <1>1 DEF Hook
  <2>2. hook' = [hook EXCEPT ![s] = h]
    BY <1>2 DEF TypeOK
  <2>. QED  BY <2>1, <2>2, <2>3, HookWrite
<1>3. CASE Enable(s)
  BY <1>2, <1>3 DEF Enable
<1>4. CASE Disable(s)
  BY <1>2, <1>4 DEF Disable
<1>5. CASE Sweep(s)
  BY <1>2, <1>5 DEF Sweep
<1>6. ASSUME NEW command \in BOOLEAN, Prompt(s, command)
      PROVE  /\ hook' \in [Sessions -> Hook] /\ Others(s) /\ hook[s].pc = "idle"
             /\ hook'[s].op = "prompt" /\ hook'[s].pc = "optout"
             /\ hook'[s].port = hook[s].port /\ hook'[s].verified = hook[s].verified
             /\ hook'[s].command \in BOOLEAN
  <2>. DEFINE h == [hook[s] EXCEPT !.op = "prompt", !.pc = "optout", !.command = command]
  <2>1. /\ h \in Hook /\ h.op = "prompt" /\ h.pc = "optout" /\ h.port = hook[s].port
        /\ h.verified = hook[s].verified /\ h.command = command
    BY <1>1 DEF Hook
  <2>2. hook' = [hook EXCEPT ![s] = h]
    BY <1>6 DEF Prompt, TypeOK
  <2>. QED  BY <1>6, <2>1, <2>2, HookWrite DEF Prompt
<1>. QED  BY <1>3, <1>4, <1>5, <1>6

\* session_start begins: with the session's own route, or by reading the files.
LEMMA LaunchStep ==
    ASSUME TypeOK, NEW s \in Sessions, NEW resumed \in BOOLEAN, NEW hatch \in Hatches,
           Launch(s, resumed, hatch)
    PROVE  /\ hook' \in [Sessions -> Hook] /\ Others(s) /\ hook[s].pc = "idle"
           /\ hook'[s].op = "start" /\ hook'[s].verified = hook[s].verified
           /\ \/ hook'[s].pc = "ensure" /\ hook'[s].port # NoPort
              \/ hook'[s].pc = "baked"
           /\ env' \in [Sessions -> [url : Ports \cup {NoPort, Gateway},
                                     zport : Ports \cup {NoPort}, hatch : BOOLEAN]]
           /\ \A t \in Sessions \ {s} : env'[t] = env[t]
<1>. DEFINE e == [url |-> Applied("url"), zport |-> Applied("zport"), hatch |-> hatch]
            pc == IF Routed(e) THEN "ensure" ELSE "baked"
            port == IF Routed(e) THEN e.zport ELSE NoPort
            h == [hook[s] EXCEPT !.op = "start", !.pc = pc, !.port = port]
<1>1. hook[s] \in Hook /\ hook[s].pc = "idle"
  BY DEF TypeOK, Launch
<1>2. e \in [url : Ports \cup {NoPort, Gateway}, zport : Ports \cup {NoPort}, hatch : BOOLEAN]
  BY ReadTypes, HatchAssumption
<1>3. port \in Ports \cup {NoPort} /\ (pc = "ensure" => port # NoPort) /\ pc \in {"ensure", "baked"}
  BY <1>2 DEF Routed
<1>4. hook' = [hook EXCEPT ![s] = h] /\ env' = [env EXCEPT ![s] = e]
  BY DEF Launch, TypeOK
<1>. HIDE DEF e, pc, port
<1>5. /\ h \in Hook /\ h.op = "start" /\ h.pc = pc /\ h.port = port
      /\ h.verified = hook[s].verified
  BY <1>1, <1>3 DEF Hook
<1>. HIDE DEF h
<1>6. hook' \in [Sessions -> Hook] /\ hook'[s] = h /\ Others(s)
  BY <1>4, <1>5, HookWrite
<1>. QED  BY <1>1, <1>2, <1>3, <1>4, <1>5, <1>6 DEF TypeOK

\* project_baked_route, of the prompt hook: it goes on to probe the proxy or to
\* answer, and has not verified anything.
LEMMA ReadBakedStep ==
    ASSUME TypeOK, NEW s \in Sessions, ReadBaked(s)
    PROVE  /\ hook' \in [Sessions -> Hook] /\ Others(s) /\ hook[s].pc = "baked"
           /\ hook'[s].op = hook[s].op /\ hook'[s].out = hook[s].out
           /\ hook'[s].command = hook[s].command /\ hook'[s].verified = hook[s].verified
           /\ hook'[s].baked = Baked
           /\ \/ hook[s].op = "start" /\ hook'[s].pc = "optout"
              \/ hook[s].op # "start" /\ hook'[s].pc = "answer"
              \/ /\ hook[s].op # "start" /\ hook'[s].pc = "probe"
                 /\ Baked # NoPort /\ env[s].url = Baked
<1>. DEFINE pc == CASE hook[s].op = "start" -> "optout"
                    [] hook[s].op # "start" /\ Baked # NoPort /\ env[s].url = Baked
                       /\ ~ hook[s].out /\ ~ env[s].hatch /\ ~ hook[s].command -> "probe"
                    [] OTHER -> "answer"
            h == [hook[s] EXCEPT !.baked = Baked, !.pc = pc]
<1>1. hook[s] \in Hook /\ hook[s].pc = "baked" /\ Baked \in Ports \cup {NoPort}
  BY ReadTypes DEF TypeOK, ReadBaked
<1>2. \/ hook[s].op = "start" /\ pc = "optout"
      \/ hook[s].op # "start" /\ pc = "answer"
      \/ hook[s].op # "start" /\ pc = "probe" /\ Baked # NoPort /\ env[s].url = Baked
  OBVIOUS
<1>3. hook' = [hook EXCEPT ![s] = h]
  BY DEF ReadBaked, TypeOK
<1>. HIDE DEF pc
<1>4. /\ h \in Hook /\ h.op = hook[s].op /\ h.out = hook[s].out /\ h.command = hook[s].command
      /\ h.verified = hook[s].verified /\ h.baked = Baked /\ h.pc = pc
  BY <1>1, <1>2 DEF Hook
<1>. HIDE DEF h
<1>5. hook' \in [Sessions -> Hook] /\ hook'[s] = h /\ Others(s)
  BY <1>3, <1>4, HookWrite
<1>. QED  BY <1>1, <1>2, <1>4, <1>5

\* registry_get: the prompt hook notes an opt-out; session_start goes on to plumb
\* only without one.
LEMMA ReadRegistryStep ==
    ASSUME TypeOK, NEW s \in Sessions, ReadRegistry(s)
    PROVE  /\ hook' \in [Sessions -> Hook] /\ Others(s) /\ hook[s].pc = "optout"
           /\ \/ /\ hook[s].op = "prompt" /\ hook'[s].op = "prompt" /\ hook'[s].pc = "baked"
                 /\ hook'[s].out = (registry = "Optout") /\ hook'[s].verified = hook[s].verified
                 /\ hook'[s].command = hook[s].command
              \/ /\ hook[s].op = "start" /\ hook'[s].op = "start" /\ hook'[s].pc = "ensure"
                 /\ registry # "Optout"
              \/ hook'[s].op = "heal" /\ hook'[s].pc = "sidecar"
              \/ hook'[s] = Idle
<1>. DEFINE out == registry = "Optout"
            p == [hook[s] EXCEPT !.out = out, !.pc = "baked"]
            q == [hook[s] EXCEPT !.pc = "ensure"]
            r == [Idle EXCEPT !.op = "heal", !.pc = "sidecar"]
            h == CASE hook[s].op = "prompt" -> p
                   [] hook[s].op = "start" /\ hook[s].baked = NoPort /\ ~ out -> q
                   [] hook[s].op = "start" /\ hook[s].baked # NoPort /\ out -> r
                   [] OTHER -> Idle
<1>1. hook[s] \in Hook /\ hook[s].pc = "optout" /\ Idle \in Hook /\ out \in BOOLEAN
  BY IdleType DEF TypeOK, ReadRegistry
<1>2. \/ hook[s].op = "prompt" /\ h = p
      \/ hook[s].op = "start" /\ ~ out /\ h = q
      \/ h = r
      \/ h = Idle
  OBVIOUS
<1>3. hook' = [hook EXCEPT ![s] = h]
  BY DEF ReadRegistry
<1>. HIDE DEF out
<1>4. /\ p \in Hook /\ p.op = hook[s].op /\ p.pc = "baked" /\ p.out = out
      /\ p.verified = hook[s].verified /\ p.command = hook[s].command
  BY <1>1 DEF Hook
<1>5. q \in Hook /\ q.op = hook[s].op /\ q.pc = "ensure"
  BY <1>1 DEF Hook
<1>6. r \in Hook /\ r.op = "heal" /\ r.pc = "sidecar"
  BY <1>1 DEF Hook
<1>. HIDE DEF h, p, q, r
<1>7. h \in Hook
  BY <1>1, <1>2, <1>4, <1>5, <1>6
<1>8. hook' \in [Sessions -> Hook] /\ hook'[s] = h /\ Others(s)
  BY <1>3, <1>7, HookWrite
<1>. QED  BY <1>1, <1>2, <1>4, <1>5, <1>6, <1>8 DEF out

\* ensure_up: an enable goes on, a start without a route plumbs, one with
\* another port reconciles.
LEMMA EnsureUpStep ==
    ASSUME TypeOK, NEW s \in Sessions, EnsureUp(s)
    PROVE  /\ hook' \in [Sessions -> Hook] /\ Others(s) /\ hook[s].pc = "ensure"
           /\ proxy' \in Ports \cup {NoPort}
           /\ \/ hook'[s] = Idle
              \/ hook[s].op = "enable" /\ hook'[s].op = "enable" /\ hook'[s].pc = "register"
              \/ /\ hook[s].op = "start" /\ hook[s].port = NoPort
                 /\ hook'[s].op = "plumb" /\ hook'[s].pc = "load"
              \/ hook'[s].op = "reconcile" /\ hook'[s].pc = "load"
<1>0. hook[s] \in Hook /\ hook[s].pc = "ensure" /\ Idle \in Hook
  BY IdleType DEF TypeOK, EnsureUp
<1>1. CASE End(s) /\ UNCHANGED proxy
  BY <1>0, <1>1, EndStep DEF TypeOK
<1>2. ASSUME NEW p \in Ports, proxy' = p,
             hook' = [hook EXCEPT ![s] =
                 CASE @.op = "enable" -> [@ EXCEPT !.pc = "register", !.port = p]
                   [] @.op = "start" /\ @.port = NoPort ->
                        [Idle EXCEPT !.op = "plumb", !.pc = "load", !.port = p]
                   [] @.op = "start" /\ @.port = p -> Idle
                   [] OTHER -> [Idle EXCEPT !.op = "reconcile", !.pc = "load", !.port = p]]
      PROVE  /\ hook' \in [Sessions -> Hook] /\ Others(s)
             /\ \/ hook'[s] = Idle
                \/ hook[s].op = "enable" /\ hook'[s].op = "enable" /\ hook'[s].pc = "register"
                \/ /\ hook[s].op = "start" /\ hook[s].port = NoPort
                   /\ hook'[s].op = "plumb" /\ hook'[s].pc = "load"
                \/ hook'[s].op = "reconcile" /\ hook'[s].pc = "load"
  <2>. DEFINE a == [hook[s] EXCEPT !.pc = "register", !.port = p]
              b == [Idle EXCEPT !.op = "plumb", !.pc = "load", !.port = p]
              c == [Idle EXCEPT !.op = "reconcile", !.pc = "load", !.port = p]
              h == CASE hook[s].op = "enable" -> a
                     [] hook[s].op = "start" /\ hook[s].port = NoPort -> b
                     [] hook[s].op = "start" /\ hook[s].port = p -> Idle
                     [] OTHER -> c
  <2>1. \/ hook[s].op = "enable" /\ h = a
        \/ hook[s].op = "start" /\ hook[s].port = NoPort /\ h = b
        \/ h = Idle
        \/ h = c
    OBVIOUS
  <2>2. hook' = [hook EXCEPT ![s] = h]
    BY <1>2
  <2>3. a \in Hook /\ a.op = hook[s].op /\ a.pc = "register"
    BY <1>0 DEF Hook
  <2>4. b \in Hook /\ b.op = "plumb" /\ b.pc = "load"
    BY <1>0 DEF Hook
  <2>5. c \in Hook /\ c.op = "reconcile" /\ c.pc = "load"
    BY <1>0 DEF Hook
  <2>. HIDE DEF h, a, b, c
  <2>6. h \in Hook
    BY <1>0, <2>1, <2>3, <2>4, <2>5
  <2>7. hook' \in [Sessions -> Hook] /\ hook'[s] = h /\ Others(s)
    BY <2>2, <2>6, HookWrite
  <2>. QED  BY <2>1, <2>3, <2>4, <2>5, <2>7
<1>. QED  BY <1>0, <1>1, <1>2 DEF EnsureUp

\* The reads of settings_enable and settings_disable_at.
LEMMA LoadStep ==
    ASSUME TypeOK, NEW s \in Sessions
    PROVE  /\ LoadLocal(s) =>
                 /\ hook' \in [Sessions -> Hook] /\ Others(s) /\ hook'[s].op = hook[s].op
                 /\ hook'[s].pc = "load_committed" /\ hook'[s].copy = file["local"]
           /\ LoadCommitted(s) =>
                 /\ hook' \in [Sessions -> Hook] /\ Others(s) /\ hook'[s].op = hook[s].op
                 /\ hook'[s].pc = "save"
                 /\ hook'[s].saved = UserLine(hook[s].copy, file["committed"])
           /\ ReadSidecar(s) =>
                 /\ hook' \in [Sessions -> Hook] /\ Others(s) /\ hook'[s].op = hook[s].op
                 /\ hook'[s].pc = "strip_local" /\ hook'[s].saved = sidecar
<1>0. hook[s] \in Hook /\ file["local"] \in File /\ sidecar \in Lines \cup {NoLine}
  BY DEF TypeOK, Files
<1>1. CASE LoadLocal(s)
  <2>. DEFINE h == [hook[s] EXCEPT !.copy = file["local"], !.pc = "load_committed"]
  <2>1. h \in Hook /\ h.op = hook[s].op /\ h.pc = "load_committed" /\ h.copy = file["local"]
    BY <1>0 DEF Hook
  <2>2. hook' = [hook EXCEPT ![s] = h]
    BY <1>1 DEF LoadLocal, TypeOK
  <2>. QED  BY <1>1, <2>1, <2>2, HookWrite DEF LoadLocal, LoadCommitted, ReadSidecar
<1>2. CASE LoadCommitted(s)
  <2>. DEFINE line == UserLine(hook[s].copy, file["committed"])
              h == [hook[s] EXCEPT !.saved = line, !.pc = "save"]
  <2>0. line \in Lines \cup {NoLine}
    BY DEF UserLine
  <2>2. hook' = [hook EXCEPT ![s] = h]
    BY <1>2 DEF LoadCommitted, TypeOK
  <2>. HIDE DEF line
  <2>1. h \in Hook /\ h.op = hook[s].op /\ h.pc = "save" /\ h.saved = line
    BY <1>0, <2>0 DEF Hook
  <2>. QED  BY <1>2, <2>1, <2>2, HookWrite DEF LoadLocal, LoadCommitted, ReadSidecar, line
<1>3. CASE ReadSidecar(s)
  <2>. DEFINE h == [hook[s] EXCEPT !.saved = sidecar, !.pc = "strip_local"]
  <2>1. h \in Hook /\ h.op = hook[s].op /\ h.pc = "strip_local" /\ h.saved = sidecar
    BY <1>0 DEF Hook
  <2>2. hook' = [hook EXCEPT ![s] = h]
    BY <1>3 DEF ReadSidecar, TypeOK
  <2>. QED  BY <1>3, <2>1, <2>2, HookWrite DEF LoadLocal, LoadCommitted, ReadSidecar
<1>. QED  BY <1>1, <1>2, <1>3

\* strip_routing_from takes our wiring out of one file and consumes the line.
LEMMA StripStep ==
    ASSUME TypeOK, NEW s \in Sessions, NEW f \in Files, Strip(s, f)
    PROVE  /\ hook' \in [Sessions -> Hook] /\ Others(s) /\ hook'[s].op = hook[s].op
           /\ hook'[s].pc = IF f = "local" THEN "strip_committed" ELSE "forget"
           /\ hook'[s].saved = IF file[f].line = OurLine THEN NoLine ELSE hook[s].saved
           /\ ~ hook'[s].changed => ~ hook[s].changed /\ ~ Wired(file[f])
           /\ file' \in [Files -> File]
           /\ file'[f] = IF Wired(file[f]) THEN Stripped(file[f], hook[s].saved) ELSE file[f]
           /\ \A g \in Files \ {f} : file'[g] = file[g]
<1>. DEFINE pc == IF f = "local" THEN "strip_committed" ELSE "forget"
            saved == IF file[f].line = OurLine THEN NoLine ELSE hook[s].saved
            changed == hook[s].changed \/ Wired(file[f])
            h == [hook[s] EXCEPT !.saved = saved, !.changed = changed, !.pc = pc]
<1>1. hook[s] \in Hook /\ file[f] \in File
  BY DEF TypeOK
<1>2. hook[s].saved \in Lines \cup {NoLine}
  BY <1>1 DEF Hook
<1>3. hook' = [hook EXCEPT ![s] = h]
  BY DEF Strip, TypeOK
<1>4. saved \in Lines \cup {NoLine} /\ changed \in BOOLEAN /\ pc \in {"strip_committed", "forget"}
  BY <1>2
<1>5. ~ changed => ~ hook[s].changed /\ ~ Wired(file[f])
  OBVIOUS
<1>. HIDE DEF saved, changed, pc
<1>6. h \in Hook /\ h.op = hook[s].op /\ h.pc = pc /\ h.saved = saved /\ h.changed = changed
  BY <1>1, <1>4 DEF Hook
<1>. HIDE DEF h
<1>7. hook' \in [Sessions -> Hook] /\ hook'[s] = h /\ Others(s)
  BY <1>3, <1>6, HookWrite
<1>8. file' = IF Wired(file[f]) THEN [file EXCEPT ![f] = Stripped(@, hook[s].saved)] ELSE file
  BY DEF Strip
<1>9. Stripped(file[f], hook[s].saved) \in File
  BY <1>1, <1>2, StrippedType
<1>10. /\ file' \in [Files -> File]
       /\ file'[f] = IF Wired(file[f]) THEN Stripped(file[f], hook[s].saved) ELSE file[f]
       /\ \A g \in Files \ {f} : file'[g] = file[g]
  BY <1>8, <1>9 DEF TypeOK
<1>. QED  BY <1>5, <1>6, <1>7, <1>10 DEF saved, pc

\* The identity probe: it verifies only a proxy that is there.
LEMMA ProbeStep ==
    ASSUME TypeOK, NEW s \in Sessions, Probe(s)
    PROVE  /\ hook' \in [Sessions -> Hook] /\ Others(s) /\ hook[s].pc = "probe"
           /\ hook'[s].pc = "answer" /\ hook'[s].op = hook[s].op
           /\ hook'[s].out = hook[s].out /\ hook'[s].baked = hook[s].baked
           /\ hook'[s].command = hook[s].command
           /\ hook'[s].verified => proxy = hook[s].baked
<1>1. hook[s] \in Hook /\ hook[s].pc = "probe"
  BY DEF TypeOK, Probe
<1>2. PICK verified \in {proxy = hook[s].baked, FALSE} :
          hook' = [hook EXCEPT ![s].verified = verified, ![s].pc = "answer"]
  BY DEF Probe
<1>. DEFINE h == [hook[s] EXCEPT !.verified = verified, !.pc = "answer"]
<1>3. verified \in BOOLEAN /\ (verified => proxy = hook[s].baked)
  BY <1>2
<1>4. /\ h \in Hook /\ h.pc = "answer" /\ h.op = hook[s].op /\ h.out = hook[s].out
      /\ h.baked = hook[s].baked /\ h.command = hook[s].command /\ h.verified = verified
  BY <1>1, <1>3 DEF Hook
<1>5. hook' = [hook EXCEPT ![s] = h]
  BY <1>2 DEF TypeOK
<1>. HIDE DEF h
<1>6. hook' \in [Sessions -> Hook] /\ hook'[s] = h /\ Others(s)
  BY <1>4, <1>5, HookWrite
<1>. QED  BY <1>1, <1>3, <1>4, <1>6

\* What is watched: exposure holds now and has held all through a prompt's hook.
LEMMA WatchFacts ==
    ASSUME Watch
    PROVE  /\ exposed' \in [Sessions -> BOOLEAN]
           /\ \A s \in Sessions : exposed'[s] => Exposed(s)'
           /\ \A s \in Sessions : exposed'[s] /\ hook[s].op = "prompt" => exposed[s]
  BY DEF Watch, Exposed

\* Every action watches.
LEMMA AlwaysWatched == Next => Watch
<1>1. ASSUME NEW s \in Sessions, HookStep(s)
      PROVE  Watch
  <2>1. CASE \/ ReadBaked(s) \/ ReadRegistry(s) \/ EnsureUp(s) \/ Register(s) \/ Refuse(s)
             \/ LoadLocal(s) \/ LoadCommitted(s) \/ SaveSidecar(s) \/ Migrate(s)
    BY <2>1 DEF ReadBaked, ReadRegistry, EnsureUp, Register, Refuse, LoadLocal, LoadCommitted,
       SaveSidecar, Migrate
  <2>2. CASE \/ WriteLocal(s) \/ RecordPlumbed(s) \/ ReadSidecar(s) \/ Forget(s) \/ Unregister(s)
             \/ Probe(s) \/ Answer(s) \/ Narrate(s) \/ Prune(s) \/ \E f \in Files : Strip(s, f)
    BY <2>2 DEF WriteLocal, RecordPlumbed, ReadSidecar, Strip, Forget, Unregister, Probe, Answer,
       Narrate, Prune
  <2>. QED  BY <1>1, <2>1, <2>2 DEF HookStep
<1>2. UserEdit => Watch
  BY DEF UserEdit, SetLine, SetUrl, DropRule, DropRoute, BreakOrMend, RestoreRoute, Edit
<1>3. ProxyDies \/ ToggleMasking => Watch
  BY DEF ProxyDies, ToggleMasking
<1>4. ASSUME NEW s \in Sessions
      PROVE  Reload(s) \/ Enable(s) \/ Disable(s) \/ Sweep(s) \/ Crash(s) \/ Fortnight(s) => Watch
  BY DEF Reload, Enable, Disable, Sweep, Crash, Fortnight
<1>5. ASSUME NEW s \in Sessions, NEW b \in BOOLEAN
      PROVE  Prompt(s, b) \/ (\E hatch \in Hatches : Launch(s, b, hatch)) => Watch
  BY DEF Launch, Prompt
<1>. QED  BY <1>1, <1>2, <1>3, <1>4, <1>5 DEF Next

\* The types of everything but the hooks and the files, which the steps of the
\* hooks above and of the user below are about.
RestTypeOK ==
    /\ sidecar \in Lines \cup {NoLine} /\ registry \in PlumbState
    /\ proxy \in Ports \cup {NoPort} /\ masking \in BOOLEAN
    /\ env \in [Sessions -> [url : Ports \cup {NoPort, Gateway}, zport : Ports \cup {NoPort},
                             hatch : BOOLEAN]]
    /\ record \in [Sessions -> MaskState \cup {"none"}]
    /\ told \in [Sessions -> MaskState \cup {"none"}]
    /\ stale \subseteq Sessions /\ doomed \in [Sessions -> SUBSET Sessions]
    /\ forgotten \subseteq Sessions
    /\ sent \in [Sessions -> {"nothing", "covered", "exposed"}]
    /\ theirs \in Lines \cup {NoLine}
    /\ kept \in [Files -> Ports \cup {NoPort, Gateway}]
    /\ intent \in {"none", "on", "off"} /\ disturbed \in BOOLEAN
    /\ ops \in 0 .. MaxOps

\* Which hooks a step of the hook of s may leave.
LEMMA HookStepTypes ==
    ASSUME TypeOK, NEW s \in Sessions, HookStep(s)
    PROVE  hook' \in [Sessions -> Hook]
<1>1. CASE ReadBaked(s) \/ ReadRegistry(s) \/ EnsureUp(s) \/ Probe(s)
  BY <1>1, ReadBakedStep, ReadRegistryStep, EnsureUpStep, ProbeStep
<1>2. CASE LoadLocal(s) \/ LoadCommitted(s) \/ ReadSidecar(s) \/ \E f \in Files : Strip(s, f)
  BY <1>2, LoadStep, StripStep
<1>3. CASE \/ Register(s) \/ Refuse(s) \/ SaveSidecar(s) \/ Migrate(s) \/ WriteLocal(s)
           \/ RecordPlumbed(s) \/ Forget(s) \/ Unregister(s) \/ Answer(s) \/ Narrate(s) \/ Prune(s)
  <2>1. \/ End(s)
        \/ \E pc \in {"load", "migrate", "write", "plumbed", "unregister", "narrate", "prune"} : Goto(s, pc)
    BY <1>3 DEF Register, Refuse, SaveSidecar, Migrate, WriteLocal, RecordPlumbed, Forget,
       Unregister, Answer, Narrate, Prune
  <2>. QED  BY <2>1, GotoStep, EndStep DEF Pcs
<1>. QED  BY <1>1, <1>2, <1>3 DEF HookStep

\* What a step of the hook of s may leave in the files.
LEMMA HookStepFiles ==
    ASSUME TypeOK, NEW s \in Sessions, HookStep(s)
    PROVE  file' \in [Files -> File]
<1>0. /\ file \in [Files -> File] /\ hook[s] \in Hook
      /\ file["local"] \in File /\ file["committed"] \in File
  BY DEF TypeOK, Files
<1>1. CASE \E f \in Files : Strip(s, f)
  BY <1>1, StripStep
<1>2. CASE Migrate(s)
  <2>1. Stripped(file["committed"], NoLine) \in File
    BY <1>0, StrippedType
  <2>2. file' \in {file, [file EXCEPT !["committed"] = Stripped(@, NoLine)]}
    BY <1>2 DEF Migrate
  <2>. QED  BY <1>0, <2>1, <2>2
<1>3. CASE WriteLocal(s)
  <2>. DEFINE new == [hook[s].copy EXCEPT !.url = hook[s].port, !.zport = hook[s].port,
                                          !.line = OurLine, !.kernel = "all"]
  <2>1. hook[s].copy \in File /\ hook[s].port \in Ports \cup {NoPort}
    BY <1>0 DEF Hook
  <2>2. new \in File
    BY <2>1 DEF File
  <2>3. file' = [file EXCEPT !["local"] = new]
    BY <1>3 DEF WriteLocal
  <2>. QED  BY <1>0, <2>2, <2>3
<1>4. CASE UNCHANGED file
  BY <1>0, <1>4
<1>. QED  BY <1>1, <1>2, <1>3, <1>4 DEF HookStep, ReadBaked, ReadRegistry, EnsureUp, Register,
              Refuse, LoadLocal, LoadCommitted, SaveSidecar, RecordPlumbed, ReadSidecar, Forget,
              Unregister, Probe, Answer, Narrate, Prune, wiring

\* What an edit of the user's may do to file f: set the line, set a URL, bring
\* an old route back, or leave line and history alone.
EditEffect(f, new) ==
    \/ /\ f = "local" /\ new.line \in Lines /\ theirs' = new.line /\ UNCHANGED kept
       /\ new.url = file[f].url /\ new.zport = file[f].zport
    \/ /\ new.line = file[f].line /\ UNCHANGED theirs
       /\ \/ /\ kept' = [kept EXCEPT ![f] = new.url] /\ new.url # NoPort
             /\ new.zport = file[f].zport /\ new.url # new.zport
          \/ kept' = [kept EXCEPT ![f] = NoPort]
          \/ UNCHANGED kept /\ new.url = file[f].url /\ new.zport = file[f].zport
          \/ /\ UNCHANGED kept /\ new.zport = NoPort
             /\ new.url = IF file[f].url = file[f].zport THEN NoPort ELSE file[f].url

\* Every edit of the user's is one of these.
LEMMA UserEdits ==
    ASSUME TypeOK, UserEdit
    PROVE  \E f \in Files : \E new \in File : Edit(f, new) /\ EditEffect(f, new)
<1>0. \A f \in Files : file[f] \in File
  BY DEF TypeOK
<1>1. ASSUME NEW l \in Lines, SetLine(l)
      PROVE  \E f \in Files : \E new \in File : Edit(f, new) /\ EditEffect(f, new)
  <2>. DEFINE new == [file["local"] EXCEPT !.line = l]
  <2>1. "local" \in Files /\ file["local"] \in File
    BY <1>0 DEF Files
  <2>2. /\ new \in File /\ new.line = l /\ new.url = file["local"].url
        /\ new.zport = file["local"].zport
    BY <2>1 DEF File
  <2>3. Edit("local", new) /\ theirs' = l /\ UNCHANGED kept
    BY <1>1 DEF SetLine
  <2>4. EditEffect("local", new)
    BY <2>2, <2>3 DEF EditEffect
  <2>. QED  BY <2>1, <2>2, <2>3, <2>4
<1>2. ASSUME NEW f \in Files, NEW u \in OwnUrls, SetUrl(f, u)
      PROVE  \E new \in File : Edit(f, new) /\ EditEffect(f, new)
  <2>. DEFINE new == [file[f] EXCEPT !.url = u]
  <2>1. /\ new \in File /\ new.line = file[f].line /\ new.url = u /\ new.zport = file[f].zport
        /\ u # NoPort
    BY <1>0, RouteAssumption DEF File
  <2>2. Edit(f, new) /\ kept' = [kept EXCEPT ![f] = u] /\ UNCHANGED theirs /\ u # file[f].zport
    BY <1>2 DEF SetUrl
  <2>3. EditEffect(f, new)
    BY <2>1, <2>2 DEF EditEffect
  <2>. QED  BY <2>1, <2>2, <2>3
<1>3. ASSUME NEW f \in Files, DropRule(f)
      PROVE  \E new \in File : Edit(f, new) /\ EditEffect(f, new)
  <2>. DEFINE new == [file[f] EXCEPT !.kernel = "part"]
  <2>1. /\ new \in File /\ new.line = file[f].line /\ new.url = file[f].url
        /\ new.zport = file[f].zport
    BY <1>0 DEF File
  <2>2. Edit(f, new) /\ UNCHANGED <<theirs, kept>>
    BY <1>3 DEF DropRule
  <2>3. EditEffect(f, new)
    BY <2>1, <2>2 DEF EditEffect
  <2>. QED  BY <2>1, <2>2, <2>3
<1>4. ASSUME NEW f \in Files, DropRoute(f)
      PROVE  \E new \in File : Edit(f, new) /\ EditEffect(f, new)
  <2>. DEFINE url == IF file[f].url = file[f].zport THEN NoPort ELSE file[f].url
              new == [file[f] EXCEPT !.url = url, !.zport = NoPort]
  <2>0. url \in Ports \cup {NoPort, Gateway}
    BY <1>0 DEF File
  <2>1. Edit(f, new) /\ UNCHANGED <<theirs, kept>>
    BY <1>4 DEF DropRoute
  <2>. HIDE DEF url
  <2>2. new \in File /\ new.line = file[f].line /\ new.url = url /\ new.zport = NoPort
    BY <1>0, <2>0 DEF File
  <2>3. EditEffect(f, new)
    BY <2>1, <2>2 DEF EditEffect, url
  <2>. QED  BY <2>1, <2>2, <2>3
<1>5. ASSUME NEW f \in Files, BreakOrMend(f)
      PROVE  \E new \in File : Edit(f, new) /\ EditEffect(f, new)
  <2>. DEFINE new == [file[f] EXCEPT !.valid = ~ @]
  <2>1. new \in File
    BY <1>0 DEF File
  <2>2. new.line = file[f].line /\ new.url = file[f].url /\ new.zport = file[f].zport
    BY <1>0 DEF File
  <2>3. Edit(f, new) /\ UNCHANGED <<theirs, kept>>
    BY <1>5 DEF BreakOrMend
  <2>. HIDE DEF new
  <2>4. EditEffect(f, new)
    BY <2>2, <2>3 DEF EditEffect
  <2>. QED  BY <2>1, <2>3, <2>4
<1>6. ASSUME NEW p \in Ports, RestoreRoute(p)
      PROVE  \E f \in Files : \E new \in File : Edit(f, new) /\ EditEffect(f, new)
  <2>. DEFINE new == [file["local"] EXCEPT !.url = p, !.zport = p]
  <2>1. "local" \in Files /\ file["local"] \in File
    BY <1>0 DEF Files
  <2>2. new \in File /\ new.line = file["local"].line
    BY <2>1 DEF File
  <2>3. Edit("local", new) /\ UNCHANGED theirs /\ kept' = [kept EXCEPT !["local"] = NoPort]
    BY <1>6 DEF RestoreRoute
  <2>4. EditEffect("local", new)
    BY <2>2, <2>3 DEF EditEffect
  <2>. QED  BY <2>1, <2>2, <2>3, <2>4
<1>. QED  BY <1>1, <1>2, <1>3, <1>4, <1>5, <1>6 DEF UserEdit

\* An edit changes one file, while no hook is editing.
LEMMA EditStep ==
    ASSUME TypeOK, NEW f \in Files, NEW new \in File, Edit(f, new)
    PROVE  /\ file' \in [Files -> File] /\ file'[f] = new
           /\ \A g \in Files \ {f} : file'[g] = file[g]
           /\ Quiet
           /\ UNCHANGED <<sidecar, registry, world, session, hook, intent, disturbed>>
           /\ ops' \in 0 .. MaxOps
<1>1. file' = [file EXCEPT ![f] = new]
  BY DEF Edit
<1>2. ops' \in 0 .. MaxOps
  BY BoundAssumption DEF Edit, Count, TypeOK
<1>. QED  BY <1>1, <1>2 DEF Edit, TypeOK, Quiet

\* What a prompt hook leaves in the records, once it knows the status.
Told(s, cur) ==
    /\ record' = [record EXCEPT ![s] = cur]
    /\ stale' = stale \ {s}
    /\ doomed' = [doomed EXCEPT ![s] = stale \ {s}]
    /\ IF should_narrate(record[s], cur)
       THEN told' = [told EXCEPT ![s] = cur] /\ forgotten' = forgotten \ {s}
       ELSE UNCHANGED <<told, forgotten>>

\* The rest of the state after a step of a hook.
LEMMA HookStepRest ==
    ASSUME TypeOK, NEW s \in Sessions, HookStep(s)
    PROVE  RestTypeOK'
<1>0. RestTypeOK
  BY DEF TypeOK, RestTypeOK
<1>. USE DEF RestTypeOK, wiring, world, session, notes, history
<1>1. CASE ReadBaked(s) \/ ReadRegistry(s) \/ LoadCommitted(s) \/ Probe(s) \/ Answer(s)
  BY <1>0, <1>1 DEF ReadBaked, ReadRegistry, LoadCommitted, Probe, Answer
<1>2. CASE EnsureUp(s)
  BY <1>0, <1>2, EnsureUpStep DEF EnsureUp
<1>3. CASE Register(s) \/ RecordPlumbed(s)
  BY <1>0, <1>3 DEF Register, RecordPlumbed, PlumbState
<1>4. CASE Refuse(s) \/ LoadLocal(s) \/ ReadSidecar(s)
  BY <1>0, <1>4 DEF Refuse, LoadLocal, ReadSidecar
<1>5. CASE SaveSidecar(s)
  <2>1. hook[s].saved \in Lines \cup {NoLine}
    BY DEF TypeOK, Hook
  <2>. QED  BY <1>0, <1>5, <2>1 DEF SaveSidecar
<1>6. CASE Migrate(s) \/ \E f \in Files : Strip(s, f)
  BY <1>0, <1>6 DEF Migrate, Strip
<1>7. CASE WriteLocal(s)
  <2>1. kept' \in [Files -> Ports \cup {NoPort, Gateway}]
    BY <1>0, <1>7 DEF WriteLocal
  <2>2. intent' \in {"none", "on", "off"}
    BY <1>0, <1>7 DEF WriteLocal
  <2>. QED  BY <1>0, <1>7, <2>1, <2>2 DEF WriteLocal
<1>8. CASE Forget(s)
  BY <1>0, <1>8 DEF Forget
<1>9. CASE Unregister(s)
  BY <1>0, <1>9 DEF Unregister, PlumbState
<1>10. CASE Narrate(s)
  <2>1. Status(s) \in MaskState \cup {"none"}
    BY DEF Status, MaskState
  <2>2. PICK cur \in {Status(s), IF Status(s) \in {"Masked", "Off"} THEN "NotReaching" ELSE Status(s)} :
            IF cur = "none" THEN UNCHANGED notes ELSE Told(s, cur)
    BY <1>10 DEF Narrate, Told
  <2>3. cur \in MaskState \cup {"none"}
    BY <2>1, <2>2 DEF MaskState
  <2>4. /\ record' \in [Sessions -> MaskState \cup {"none"}]
        /\ told' \in [Sessions -> MaskState \cup {"none"}]
        /\ stale' \subseteq Sessions /\ forgotten' \subseteq Sessions
    BY <1>0, <2>2, <2>3 DEF Told
  <2>5. doomed' \in [Sessions -> SUBSET Sessions]
    BY <1>0, <2>2 DEF Told
  <2>. QED  BY <1>0, <1>10, <2>4, <2>5 DEF Narrate
<1>11. CASE Prune(s)
  <2>1. doomed[s] \in SUBSET Sessions
    BY <1>0
  <2>2. record' \in [Sessions -> MaskState \cup {"none"}]
    BY <1>0, <1>11 DEF Prune
  <2>3. /\ stale' \subseteq Sessions /\ forgotten' \subseteq Sessions
        /\ doomed' \in [Sessions -> SUBSET Sessions]
    BY <1>0, <1>11, <2>1 DEF Prune
  <2>4. sent' \in [Sessions -> {"nothing", "covered", "exposed"}]
    BY <1>0, <1>11 DEF Prune
  <2>. QED  BY <1>0, <1>11, <2>2, <2>3, <2>4 DEF Prune
<1>. QED  BY <1>1, <1>2, <1>3, <1>4, <1>5, <1>6, <1>7, <1>8, <1>9, <1>10, <1>11 DEF HookStep

\* The project's state stays well formed; in particular the side-car never holds
\* our own status line.
LEMMA TypesHold == Spec => []TypeOK
<1>1. ASSUME Init
      PROVE  TypeOK
  <2>1. /\ file \in [Files -> File] /\ sidecar \in Lines \cup {NoLine}
        /\ file["local"] \in File /\ file["committed"] \in File
    BY <1>1, FilesAssumption DEF Init, Files
  <2>2. /\ Baked \in Ports \cup {NoPort}
        /\ Applied("url") \in Ports \cup {NoPort, Gateway}
        /\ Applied("zport") \in Ports \cup {NoPort}
    BY <2>1 DEF Baked, Applied, File, Routes
  <2>3. InEffect \in Lines \cup {NoLine, OurLine}
    BY <2>1 DEF InEffect, File
  <2>4. theirs \in Lines \cup {NoLine}
    BY <1>1, <2>1, <2>3 DEF Init
  <2>5. kept \in [Files -> Ports \cup {NoPort, Gateway}]
    BY <1>1, <2>1 DEF Init, File
  <2>6. exposed \in [Sessions -> BOOLEAN]
    BY <1>1 DEF Init, Exposed
  <2>7. env \in [Sessions -> [url : Ports \cup {NoPort, Gateway}, zport : Ports \cup {NoPort},
                              hatch : BOOLEAN]]
    BY <1>1, <2>2 DEF Init
  <2>8. hook \in [Sessions -> Hook]
    BY <1>1, IdleType DEF Init
  <2>9. registry \in PlumbState /\ proxy \in Ports \cup {NoPort} /\ masking \in BOOLEAN
    BY <1>1, <2>2 DEF Init, PlumbState
  <2>10. /\ record \in [Sessions -> MaskState \cup {"none"}]
         /\ told \in [Sessions -> MaskState \cup {"none"}]
         /\ stale \subseteq Sessions /\ doomed \in [Sessions -> SUBSET Sessions]
         /\ forgotten \subseteq Sessions
         /\ sent \in [Sessions -> {"nothing", "covered", "exposed"}]
    BY <1>1 DEF Init
  <2>11. intent \in {"none", "on", "off"} /\ disturbed \in BOOLEAN
    BY <1>1 DEF Init
  <2>12. ops \in 0 .. MaxOps
    <3>1. ops = 0
      BY <1>1 DEF Init
    <3>. QED  BY <3>1, BoundAssumption
  <2>. QED  BY <2>1, <2>4, <2>5, <2>6, <2>7, <2>8, <2>9, <2>10, <2>11, <2>12 DEF TypeOK
<1>2. ASSUME TypeOK, [Next]_vars
      PROVE  TypeOK'
  <2>0. RestTypeOK /\ hook \in [Sessions -> Hook] /\ file \in [Files -> File]
    BY <1>2 DEF TypeOK, RestTypeOK
  <2>1. CASE UNCHANGED vars
    BY <1>2, <2>1 DEF vars, wiring, world, session, notes, history, TypeOK
  <2>2. CASE Next
    <3>0. exposed' \in [Sessions -> BOOLEAN]
      BY <2>2, AlwaysWatched, WatchFacts
    <3>. USE DEF wiring, world, session, notes, history
    <3>1. ASSUME NEW s \in Sessions, HookStep(s)
          PROVE  TypeOK'
      <4>1. RestTypeOK' /\ hook' \in [Sessions -> Hook] /\ file' \in [Files -> File]
        BY <1>2, <3>1, HookStepRest, HookStepTypes, HookStepFiles
      <4>. QED  BY <3>0, <4>1 DEF TypeOK, RestTypeOK
    <3>2. ASSUME Count
          PROVE  ops' \in 0 .. MaxOps
      BY <2>0, <3>2, BoundAssumption DEF Count, RestTypeOK
    <3>3. ASSUME NEW s \in Sessions, NEW resumed \in BOOLEAN, NEW hatch \in Hatches,
                 Launch(s, resumed, hatch)
          PROVE  TypeOK'
      <4>1. /\ record' \in [Sessions -> MaskState \cup {"none"}]
            /\ told' \in [Sessions -> MaskState \cup {"none"}]
            /\ sent' \in [Sessions -> {"nothing", "covered", "exposed"}]
        BY <2>0, <3>3 DEF Launch, NewConversation, RestTypeOK
      <4>2. /\ stale' \subseteq Sessions /\ forgotten' \subseteq Sessions
            /\ doomed' \in [Sessions -> SUBSET Sessions]
        <5>1. \A u \in Sessions : doomed[u] \ {s} \in SUBSET Sessions
          BY <2>0 DEF RestTypeOK
        <5>. QED  BY <2>0, <3>3, <5>1 DEF Launch, NewConversation, RestTypeOK
      <4>. QED  BY <1>2, <2>0, <3>0, <3>2, <3>3, <4>1, <4>2, LaunchStep DEF Launch, TypeOK, RestTypeOK
    <3>4. ASSUME NEW s \in Sessions, NEW command \in BOOLEAN, Prompt(s, command)
          PROVE  TypeOK'
      <4>1. sent' \in [Sessions -> {"nothing", "covered", "exposed"}]
        BY <2>0, <3>4 DEF Prompt, RestTypeOK
      <4>2. hook' \in [Sessions -> Hook]
        BY <1>2, <3>4, BeginStep
      <4>. QED  BY <2>0, <3>0, <3>2, <3>4, <4>1, <4>2 DEF Prompt, TypeOK, RestTypeOK
    <3>5. ASSUME NEW s \in Sessions, Reload(s)
          PROVE  TypeOK'
      <4>1. env[s] \in [url : Ports \cup {NoPort, Gateway}, zport : Ports \cup {NoPort},
                        hatch : BOOLEAN]
        BY <2>0 DEF RestTypeOK
      <4>2. [env[s] EXCEPT !.url = Applied("url"), !.zport = Applied("zport")]
               \in [url : Ports \cup {NoPort, Gateway}, zport : Ports \cup {NoPort}, hatch : BOOLEAN]
        BY <1>2, <4>1, ReadTypes
      <4>3. env' = [env EXCEPT ![s] = [env[s] EXCEPT !.url = Applied("url"),
                                                     !.zport = Applied("zport")]]
        BY <2>0, <3>5 DEF Reload, RestTypeOK
      <4>4. env' \in [Sessions -> [url : Ports \cup {NoPort, Gateway}, zport : Ports \cup {NoPort},
                                   hatch : BOOLEAN]]
        BY <2>0, <4>2, <4>3 DEF RestTypeOK
      <4>. QED  BY <2>0, <3>0, <3>2, <3>5, <4>4 DEF Reload, TypeOK, RestTypeOK
    <3>6. ASSUME NEW s \in Sessions, Enable(s) \/ Disable(s) \/ Sweep(s)
          PROVE  TypeOK'
      <4>1. hook' \in [Sessions -> Hook]
        BY <1>2, <3>6, BeginStep
      <4>. QED  BY <2>0, <3>0, <3>2, <3>6, <4>1 DEF Enable, Disable, Sweep, TypeOK, RestTypeOK
    <3>7. ASSUME NEW s \in Sessions, Crash(s)
          PROVE  TypeOK'
      <4>1. hook' \in [Sessions -> Hook]
        BY <1>2, <3>7, EndStep DEF Crash
      <4>. QED  BY <2>0, <3>0, <3>2, <3>7, <4>1 DEF Crash, TypeOK, RestTypeOK
    <3>8. CASE UserEdit
      <4>1. PICK f \in Files : \E new \in File : Edit(f, new) /\ EditEffect(f, new)
        BY <1>2, <3>8, UserEdits
      <4>2. PICK new \in File : Edit(f, new) /\ EditEffect(f, new)
        BY <4>1
      <4>3. /\ file' \in [Files -> File] /\ ops' \in 0 .. MaxOps
            /\ UNCHANGED <<sidecar, registry, world, session, hook, intent, disturbed>>
        BY <1>2, <4>2, EditStep
      <4>4. new.url \in Ports \cup {NoPort, Gateway}
        BY DEF File
      <4>5. theirs' \in Lines \cup {NoLine} /\ kept' \in [Files -> Ports \cup {NoPort, Gateway}]
        BY <2>0, <4>2, <4>4 DEF EditEffect, RestTypeOK
      <4>. QED  BY <2>0, <3>0, <4>3, <4>5 DEF TypeOK, RestTypeOK
    <3>10. ASSUME NEW s \in Sessions, Fortnight(s)
           PROVE  TypeOK'
      BY <2>0, <3>0, <3>10 DEF Fortnight, TypeOK, RestTypeOK
    <3>9. CASE ProxyDies \/ ToggleMasking
      BY <2>0, <3>0, <3>2, <3>9 DEF ProxyDies, ToggleMasking, TypeOK, RestTypeOK
    <3>. QED  BY <2>2, <3>1, <3>3, <3>4, <3>5, <3>6, <3>7, <3>8, <3>9, <3>10 DEF Next
  <2>. QED  BY <1>2, <2>1, <2>2
<1>. QED  BY <1>1, <1>2, PTL DEF Spec

-----------------------------------------------------------------------------
(* Which steps belong to which hook *)

TakeOver == {"load", "load_committed", "save", "migrate", "write"}
Removal  == {"sidecar", "strip_local", "strip_committed", "forget"}

\* The steps of each hook and command.
OnRoad(h) ==
    \/ h = Idle
    \/ h.op = "start" /\ h.pc \in {"baked", "optout", "ensure"}
    \/ h.op = "plumb" /\ h.pc \in TakeOver \cup {"plumbed"}
    \/ h.op = "reconcile" /\ h.pc \in TakeOver
    \/ h.op = "enable" /\ h.pc \in TakeOver \cup {"ensure", "register"}
    \/ h.op = "heal" /\ h.pc \in Removal
    \/ h.op \in {"disable", "sweep"} /\ h.pc \in Removal \cup {"unregister"}
    \/ h.op = "prompt" /\ h.pc \in {"optout", "baked", "probe", "answer", "narrate", "prune"}

RoadInv == \A s \in Sessions : OnRoad(hook[s])

\* A hook at rest is the idle one.
LEMMA AtRest ==
    ASSUME RoadInv, NEW s \in Sessions, hook[s].pc = "idle"
    PROVE  hook[s] = Idle
  BY DEF RoadInv, OnRoad, TakeOver, Removal

\* Every step keeps a hook on its road.
LEMMA RoadHolds == Spec => []RoadInv
<1>1. ASSUME Init
      PROVE  RoadInv
  BY <1>1 DEF Init, RoadInv, OnRoad
<1>2. ASSUME TypeOK, RoadInv, [Next]_vars
      PROVE  RoadInv'
  <2>0. ASSUME NEW s \in Sessions, Others(s), OnRoad(hook'[s])
        PROVE  RoadInv'
    BY <1>2, <2>0 DEF RoadInv, Others
  <2>1. ASSUME NEW s \in Sessions, End(s)
        PROVE  RoadInv'
    BY <1>2, <2>0, <2>1, EndStep DEF OnRoad
  <2>2. ASSUME NEW s \in Sessions, HookStep(s)
        PROVE  RoadInv'
    <3>0. OnRoad(hook[s])
      BY <1>2 DEF RoadInv
    <3>1. CASE ReadBaked(s)
      <4>1. OnRoad(hook'[s])
        BY <1>2, <3>0, <3>1, ReadBakedStep, IdleFields DEF OnRoad, TakeOver, Removal
      <4>. QED  BY <1>2, <2>0, <3>1, <4>1, ReadBakedStep
    <3>2. CASE ReadRegistry(s)
      <4>1. OnRoad(hook'[s])
        BY <1>2, <3>2, ReadRegistryStep DEF OnRoad, Removal
      <4>. QED  BY <1>2, <2>0, <3>2, <4>1, ReadRegistryStep
    <3>3. CASE EnsureUp(s)
      <4>1. OnRoad(hook'[s])
        BY <1>2, <3>3, EnsureUpStep DEF OnRoad, TakeOver
      <4>. QED  BY <1>2, <2>0, <3>3, <4>1, EnsureUpStep
    <3>4. CASE Refuse(s) \/ RecordPlumbed(s) \/ Unregister(s) \/ Prune(s)
      BY <2>1, <3>4 DEF Refuse, RecordPlumbed, Unregister, Prune
    <3>5. CASE LoadLocal(s) \/ LoadCommitted(s) \/ ReadSidecar(s)
      <4>1. /\ hook[s].pc \in {"load", "load_committed", "sidecar"}
            /\ hook'[s].op = hook[s].op /\ Others(s)
            /\ hook[s].pc \in {"load", "load_committed"} => hook'[s].pc \in {"load_committed", "save"}
            /\ hook[s].pc = "sidecar" => hook'[s].pc = "strip_local"
        BY <1>2, <3>5, LoadStep DEF LoadLocal, LoadCommitted, ReadSidecar
      <4>2. OnRoad(hook'[s])
        BY <3>0, <4>1, IdleFields DEF OnRoad, TakeOver, Removal
      <4>. QED  BY <2>0, <4>1, <4>2
    <3>6. CASE \E f \in Files : Strip(s, f)
      <4>1. PICK f \in Files : Strip(s, f)
        BY <3>6
      <4>0. hook[s].pc \in {"strip_local", "strip_committed"}
        BY <4>1 DEF Strip
      <4>2. /\ hook[s].pc \in {"strip_local", "strip_committed"} /\ Others(s)
            /\ hook'[s].op = hook[s].op /\ hook'[s].pc \in {"strip_committed", "forget"}
        BY <1>2, <4>0, <4>1, StripStep
      <4>3. OnRoad(hook'[s])
        BY <3>0, <4>2, IdleFields DEF OnRoad, TakeOver, Removal
      <4>. QED  BY <2>0, <4>2, <4>3
    <3>7. CASE Probe(s)
      <4>1. OnRoad(hook'[s])
        BY <1>2, <3>0, <3>7, ProbeStep, IdleFields DEF OnRoad, TakeOver, Removal
      <4>. QED  BY <1>2, <2>0, <3>7, <4>1, ProbeStep
    <3>8. CASE \/ Register(s) \/ SaveSidecar(s) \/ Migrate(s) \/ WriteLocal(s)
               \/ Forget(s) \/ Answer(s) \/ Narrate(s)
      <4>1. \/ End(s)
            \/ hook[s].pc = "register" /\ Goto(s, "load")
            \/ hook[s].pc = "save" /\ Goto(s, "migrate")
            \/ hook[s].pc = "migrate" /\ Goto(s, "write")
            \/ hook[s].pc = "write" /\ hook[s].op = "plumb" /\ Goto(s, "plumbed")
            \/ hook[s].pc = "forget" /\ hook[s].op # "heal" /\ Goto(s, "unregister")
            \/ hook[s].pc = "answer" /\ Goto(s, "narrate")
            \/ hook[s].pc = "narrate" /\ Goto(s, "prune")
        BY <3>8 DEF Register, SaveSidecar, Migrate, WriteLocal, Forget, Answer, Narrate
      <4>2. ASSUME NEW pc \in {"load", "migrate", "write", "plumbed", "unregister", "narrate", "prune"},
                   Goto(s, pc),
                   \/ hook[s].pc = "register" /\ pc = "load"
                   \/ hook[s].pc = "save" /\ pc = "migrate"
                   \/ hook[s].pc = "migrate" /\ pc = "write"
                   \/ hook[s].pc = "write" /\ hook[s].op = "plumb" /\ pc = "plumbed"
                   \/ hook[s].pc = "forget" /\ hook[s].op # "heal" /\ pc = "unregister"
                   \/ hook[s].pc = "answer" /\ pc = "narrate"
                   \/ hook[s].pc = "narrate" /\ pc = "prune"
            PROVE  RoadInv'
        <5>1. hook'[s].op = hook[s].op /\ hook'[s].pc = pc /\ Others(s)
          BY <1>2, <4>2, GotoStep DEF Pcs
        <5>2. OnRoad(hook'[s])
          BY <3>0, <4>2, <5>1, IdleFields DEF OnRoad, TakeOver, Removal
        <5>. QED  BY <2>0, <5>1, <5>2
      <4>. QED  BY <2>1, <4>1, <4>2
    <3>. QED  BY <2>2, <3>1, <3>2, <3>3, <3>4, <3>5, <3>6, <3>7, <3>8 DEF HookStep
  <2>3. ASSUME NEW s \in Sessions, NEW resumed \in BOOLEAN, NEW hatch \in Hatches,
               Launch(s, resumed, hatch)
        PROVE  RoadInv'
    BY <1>2, <2>0, <2>3, LaunchStep DEF OnRoad
  <2>4. ASSUME NEW s \in Sessions,
               Enable(s) \/ Disable(s) \/ Sweep(s) \/ \E command \in BOOLEAN : Prompt(s, command)
        PROVE  RoadInv'
    <3>1. OnRoad(hook'[s])
      BY <1>2, <2>4, BeginStep DEF OnRoad, Removal
    <3>. QED  BY <1>2, <2>0, <2>4, <3>1, BeginStep
  <2>5. ASSUME NEW s \in Sessions, Crash(s)
        PROVE  RoadInv'
    BY <2>1, <2>5 DEF Crash
  <2>6. CASE UNCHANGED hook
    BY <1>2, <2>6 DEF RoadInv
  <2>7. (\E s \in Sessions : Reload(s) \/ Fortnight(s)) \/ UserEdit \/ ProxyDies \/ ToggleMasking \/ UNCHANGED vars
            => UNCHANGED hook
    BY DEF Reload, Fortnight, UserEdit, SetLine, SetUrl, DropRule, DropRoute, BreakOrMend, RestoreRoute,
       Edit, ProxyDies, ToggleMasking, vars
  <2>. QED  BY <1>2, <2>2, <2>3, <2>4, <2>5, <2>6, <2>7 DEF Next
<1>. QED  BY <1>1, <1>2, TypesHold, PTL DEF Spec

-----------------------------------------------------------------------------
(* The gate *)

\* The prompt hook of s.  An exposure it has not excused so far is one its reads
\* cannot have excused: it saw no opt-out, a baked route, and no live proxy.
GateOf(s) ==
    /\ sent[s] # "exposed"
    /\ exposed[s] => Exposed(s)
    /\ hook[s].op = "prompt" =>
          /\ hook[s].pc \in {"optout", "baked", "probe"} => ~ hook[s].verified
          /\ hook[s].pc = "probe" => hook[s].baked # NoPort /\ env[s].url = hook[s].baked
          /\ exposed[s] =>
                /\ hook[s].pc \in {"baked", "probe", "answer"} => ~ hook[s].out
                /\ hook[s].pc \in {"probe", "answer"} => hook[s].baked # NoPort
                /\ hook[s].pc = "answer" => ~ hook[s].verified
                /\ hook[s].pc \in {"narrate", "prune"} => env[s].hatch \/ hook[s].command

GateInv == \A s \in Sessions : GateOf(s)

\* A step that leaves the hook and the route of t alone.
LEMMA GateStays ==
    ASSUME Watch, NEW t \in Sessions, GateOf(t), hook'[t] = hook[t], env'[t] = env[t],
           sent'[t] # "exposed"
    PROVE  GateOf(t)'
<1>1. /\ exposed'[t] => Exposed(t)'
      /\ exposed'[t] /\ hook[t].op = "prompt" => exposed[t]
  BY WatchFacts
<1>. QED  BY <1>1 DEF GateOf

\* A step after which no prompt hook of t is under way.
LEMMA GateEnds ==
    ASSUME Watch, NEW t \in Sessions, hook'[t].op # "prompt", sent'[t] # "exposed"
    PROVE  GateOf(t)'
  BY WatchFacts DEF GateOf

\* No prompt leaves unmasked past the gate, for any number of sessions, ports
\* and files and whatever happens to registry, settings and proxy in between.
THEOREM GateCloses == Spec => []GateIsClosed
<1>1. ASSUME Init
      PROVE  GateInv
  <2>1. \A s \in Sessions : sent[s] = "nothing" /\ exposed[s] = Exposed(s) /\ hook[s] = Idle
    BY <1>1 DEF Init
  <2>. QED  BY <2>1, IdleFields DEF GateInv, GateOf
<1>2. ASSUME TypeOK, RoadInv, GateInv, [Next]_vars
      PROVE  GateInv'
  <2>. SUFFICES ASSUME NEW t \in Sessions PROVE GateOf(t)'
    BY DEF GateInv
  <2>0. GateOf(t) /\ OnRoad(hook[t]) /\ sent[t] # "exposed"
    BY <1>2 DEF GateInv, GateOf, RoadInv
  <2>1. CASE UNCHANGED vars
    BY <2>0, <2>1 DEF vars, wiring, world, session, GateOf, Exposed, Baked, Routes
  <2>2. CASE Next
    <3>0. Watch
      BY <2>2, AlwaysWatched
    <3>1. ASSUME NEW s \in Sessions, Others(s), t # s, UNCHANGED <<env, sent>>
          PROVE  GateOf(t)'
      BY <2>0, <3>0, <3>1, GateStays DEF Others
    <3>2. ASSUME NEW s \in Sessions, HookStep(s)
          PROVE  GateOf(t)'
      <4>1. CASE ReadBaked(s)
        <5>1. UNCHANGED <<env, sent>>
          BY <4>1 DEF ReadBaked, session
        <5>2. CASE t = s /\ hook[s].op = "start"
          BY <1>2, <2>0, <3>0, <4>1, <5>1, <5>2, ReadBakedStep, GateEnds
        <5>3. CASE t = s /\ hook[s].op # "start"
          <6>1. /\ hook[s].op = "prompt" /\ hook[s].pc = "baked" /\ hook'[s].op = "prompt"
                /\ hook'[s].out = hook[s].out /\ hook'[s].verified = hook[s].verified
                /\ hook'[s].baked = Baked
                /\ \/ hook'[s].pc = "answer"
                   \/ hook'[s].pc = "probe" /\ Baked # NoPort /\ env[s].url = Baked
            BY <1>2, <2>0, <4>1, <5>3, ReadBakedStep, IdleFields
            DEF OnRoad, TakeOver, Removal
          <6>2. /\ exposed'[s] => Exposed(s)' /\ exposed[s]
                /\ exposed[s] => Exposed(s) /\ ~ hook[s].out
                /\ ~ hook[s].verified
            BY <2>0, <3>0, <5>3, <6>1, WatchFacts DEF GateOf
          <6>3. Exposed(s) => Baked # NoPort
            BY DEF Exposed
          <6>. QED  BY <2>0, <5>1, <5>3, <6>1, <6>2, <6>3 DEF GateOf
        <5>. QED  BY <1>2, <3>1, <4>1, <5>1, <5>2, <5>3, ReadBakedStep
      <4>2. CASE ReadRegistry(s)
        <5>1. UNCHANGED <<env, sent>>
          BY <4>2 DEF ReadRegistry, session
        <5>2. CASE t = s /\ hook'[s].op # "prompt"
          BY <2>0, <3>0, <5>1, <5>2, GateEnds
        <5>3. CASE t = s /\ hook'[s].op = "prompt"
          <6>1. /\ hook[s].op = "prompt" /\ hook[s].pc = "optout" /\ hook'[s].pc = "baked"
                /\ hook'[s].out = (registry = "Optout") /\ hook'[s].verified = hook[s].verified
            BY <1>2, <4>2, <5>3, ReadRegistryStep, IdleFields
          <6>2. /\ exposed'[s] => Exposed(s)' /\ exposed[s]
                /\ exposed[s] => Exposed(s)
                /\ ~ hook[s].verified
            BY <2>0, <3>0, <5>3, <6>1, WatchFacts DEF GateOf
          <6>3. Exposed(s) => registry # "Optout"
            BY DEF Exposed
          <6>. QED  BY <2>0, <5>1, <5>3, <6>1, <6>2, <6>3 DEF GateOf
        <5>. QED  BY <1>2, <3>1, <4>2, <5>1, <5>2, <5>3, ReadRegistryStep
      <4>3. CASE Probe(s)
        <5>1. UNCHANGED <<env, sent>>
          BY <4>3 DEF Probe, session
        <5>2. CASE t = s
          <6>1. /\ hook[s].op = "prompt" /\ hook[s].pc = "probe"
                /\ hook'[s].op = "prompt" /\ hook'[s].pc = "answer"
                /\ hook'[s].out = hook[s].out /\ hook'[s].baked = hook[s].baked
                /\ hook'[s].verified => proxy = hook[s].baked
            BY <1>2, <2>0, <4>3, <5>2, ProbeStep, IdleFields DEF OnRoad, TakeOver, Removal
          <6>2. /\ exposed'[s] => Exposed(s)' /\ exposed[s]
                /\ exposed[s] => Exposed(s) /\ ~ hook[s].out
                /\ hook[s].baked # NoPort /\ env[s].url = hook[s].baked
            BY <2>0, <3>0, <5>2, <6>1, WatchFacts DEF GateOf
          <6>3. Exposed(s) => ~ (proxy # NoPort /\ env[s].url = proxy)
            BY DEF Exposed
          <6>. QED  BY <2>0, <5>1, <5>2, <6>1, <6>2, <6>3 DEF GateOf
        <5>. QED  BY <1>2, <3>1, <4>3, <5>1, <5>2, ProbeStep
      <4>4. CASE Answer(s)
        <5>1. UNCHANGED <<env, sent>>
          BY <4>4 DEF Answer, session
        <5>. DEFINE block == /\ ~ env[s].hatch /\ ~ hook[s].out /\ hook[s].baked # NoPort
                             /\ ~ hook[s].verified /\ ~ hook[s].command
        <5>2. CASE block
          <6>1. End(s)
            BY <4>4, <5>2 DEF Answer
          <6>. QED  BY <1>2, <2>0, <3>0, <3>1, <5>1, <6>1, EndStep, IdleFields, GateEnds
        <5>3. CASE ~ block
          <6>0. hook[s].pc = "answer" /\ Goto(s, "narrate")
            BY <4>4, <5>3 DEF Answer
          <6>1. /\ Others(s) /\ hook'[s].pc = "narrate" /\ hook'[s].op = hook[s].op
                /\ hook'[s].command = hook[s].command
            BY <1>2, <6>0, GotoStep DEF Pcs
          <6>2. CASE t = s
            <7>1. hook[s].op = "prompt"
              BY <2>0, <6>0, <6>2, IdleFields DEF OnRoad, TakeOver, Removal
            <7>2. /\ exposed'[s] => Exposed(s)' /\ exposed[s]
                  /\ exposed[s] => ~ hook[s].out /\ hook[s].baked # NoPort /\ ~ hook[s].verified
              BY <2>0, <3>0, <6>0, <6>2, <7>1, WatchFacts DEF GateOf
            <7>3. exposed[s] => env[s].hatch \/ hook[s].command
              BY <5>3, <7>2
            <7>. QED  BY <2>0, <5>1, <6>1, <6>2, <7>1, <7>2, <7>3 DEF GateOf
          <6>. QED  BY <3>1, <5>1, <6>1, <6>2
        <5>. QED  BY <5>2, <5>3
      <4>5. CASE Narrate(s)
        <5>1. hook[s].pc = "narrate" /\ Goto(s, "prune") /\ UNCHANGED <<env, sent>>
          BY <4>5 DEF Narrate
        <5>2. /\ Others(s) /\ hook'[s].pc = "prune" /\ hook'[s].op = hook[s].op
              /\ hook'[s].command = hook[s].command
          BY <1>2, <5>1, GotoStep DEF Pcs
        <5>3. CASE t = s
          <6>1. hook[s].op = "prompt"
            BY <2>0, <5>1, <5>3, IdleFields DEF OnRoad, TakeOver, Removal
          <6>2. /\ exposed'[s] => Exposed(s)' /\ exposed[s]
                /\ exposed[s] => env[s].hatch \/ hook[s].command
            BY <2>0, <3>0, <5>1, <5>3, <6>1, WatchFacts DEF GateOf
          <6>. QED  BY <2>0, <5>1, <5>2, <5>3, <6>1, <6>2 DEF GateOf
        <5>. QED  BY <3>1, <5>1, <5>2, <5>3
      <4>7. CASE Prune(s)
        <5>1. /\ hook[s].pc = "prune" /\ End(s) /\ UNCHANGED env
              /\ sent' = [sent EXCEPT ![s] = IF exposed[s] /\ ~ env[s].hatch /\ ~ hook[s].command
                                             THEN "exposed" ELSE "covered"]
          BY <4>7 DEF Prune
        <5>2. Others(s) /\ hook'[s].op # "prompt"
          BY <1>2, <5>1, EndStep, IdleFields
        <5>3. CASE t = s
          <6>1. hook[s].op = "prompt"
            BY <2>0, <5>1, <5>3, IdleFields DEF OnRoad, TakeOver, Removal
          <6>2. exposed[s] => env[s].hatch \/ hook[s].command
            BY <2>0, <5>1, <5>3, <6>1 DEF GateOf
          <6>3. sent'[s] # "exposed"
            BY <1>2, <5>1, <6>2 DEF TypeOK
          <6>. QED  BY <3>0, <5>2, <5>3, <6>3, GateEnds
        <5>4. CASE t # s
          <6>1. sent'[t] = sent[t] /\ hook'[t] = hook[t]
            BY <1>2, <5>1, <5>2, <5>4 DEF TypeOK, Others
          <6>. QED  BY <2>0, <3>0, <5>1, <6>1, GateStays
        <5>. QED  BY <5>3, <5>4
      <4>6. CASE \/ EnsureUp(s) \/ Register(s) \/ Refuse(s) \/ LoadLocal(s) \/ LoadCommitted(s)
                 \/ SaveSidecar(s) \/ Migrate(s) \/ WriteLocal(s) \/ RecordPlumbed(s)
                 \/ ReadSidecar(s) \/ Forget(s) \/ Unregister(s) \/ \E f \in Files : Strip(s, f)
        <5>1. UNCHANGED <<env, sent>>
          BY <4>6 DEF EnsureUp, Register, Refuse, LoadLocal, LoadCommitted, SaveSidecar, Migrate,
             WriteLocal, RecordPlumbed, ReadSidecar, Forget, Unregister, Strip, session
        <5>2. hook[s].pc \in TakeOver \cup Removal \cup {"ensure", "register", "plumbed", "unregister"}
          BY <4>6 DEF EnsureUp, Register, Refuse, LoadLocal, LoadCommitted, SaveSidecar, Migrate,
             WriteLocal, RecordPlumbed, ReadSidecar, Forget, Unregister, Strip, TakeOver, Removal
        <5>3. Others(s) /\ (hook[s].op # "prompt" => hook'[s].op # "prompt")
          <6>1. CASE EnsureUp(s)
            BY <1>2, <6>1, EnsureUpStep, IdleFields
          <6>2. CASE LoadLocal(s) \/ LoadCommitted(s) \/ ReadSidecar(s)
            BY <1>2, <6>2, LoadStep
          <6>3. CASE \E f \in Files : Strip(s, f)
            BY <1>2, <6>3, StripStep
          <6>4. CASE \/ Register(s) \/ Refuse(s) \/ SaveSidecar(s) \/ Migrate(s) \/ WriteLocal(s)
                     \/ RecordPlumbed(s) \/ Forget(s) \/ Unregister(s)
            <7>1. \/ End(s)
                  \/ \E pc \in {"load", "migrate", "write", "plumbed", "unregister"} : Goto(s, pc)
              BY <6>4 DEF Register, Refuse, SaveSidecar, Migrate, WriteLocal, RecordPlumbed,
                 Forget, Unregister
            <7>. QED  BY <1>2, <7>1, EndStep, GotoStep, IdleFields DEF Pcs
          <6>. QED  BY <4>6, <6>1, <6>2, <6>3, <6>4
        <5>4. CASE t = s
          <6>1. hook[s].op # "prompt"
            BY <2>0, <5>2, <5>4, IdleFields DEF OnRoad, TakeOver, Removal
          <6>. QED  BY <2>0, <3>0, <5>1, <5>3, <5>4, <6>1, GateEnds
        <5>. QED  BY <3>1, <5>1, <5>3, <5>4
      <4>. QED  BY <3>2, <4>1, <4>2, <4>3, <4>4, <4>5, <4>6, <4>7 DEF HookStep
    <3>3. ASSUME NEW s \in Sessions, NEW resumed \in BOOLEAN, NEW hatch \in Hatches,
                 Launch(s, resumed, hatch)
          PROVE  GateOf(t)'
      <4>1. /\ Others(s) /\ hook'[s].op = "start"
            /\ \A u \in Sessions \ {s} : env'[u] = env[u]
        BY <1>2, <3>3, LaunchStep
      <4>2. sent'[t] # "exposed"
        BY <1>2, <2>0, <3>3 DEF Launch, TypeOK
      <4>. QED  BY <2>0, <3>0, <4>1, <4>2, GateStays, GateEnds DEF Others
    <3>4. ASSUME NEW s \in Sessions, NEW command \in BOOLEAN, Prompt(s, command)
          PROVE  GateOf(t)'
      <4>1. /\ Others(s) /\ hook[s].pc = "idle" /\ hook'[s].verified = hook[s].verified
            /\ hook'[s].pc = "optout"
        <5>1. hook'[s].op = "prompt"
          <6>1. hook' = [hook EXCEPT ![s] = [hook[s] EXCEPT !.op = "prompt", !.pc = "optout",
                                                            !.command = command]]
            BY <3>4 DEF Prompt
          <6>. QED  BY <1>2, <6>1 DEF TypeOK, Hook
        <5>. QED  BY <1>2, <3>4, <5>1, BeginStep
      <4>2. sent'[t] # "exposed" /\ UNCHANGED env
        BY <1>2, <2>0, <3>4 DEF Prompt, TypeOK
      <4>3. CASE t = s
        <5>1. ~ hook[s].verified
          BY <1>2, <4>1, AtRest, IdleFields
        <5>. QED  BY <3>0, <4>1, <4>2, <4>3, <5>1, WatchFacts DEF GateOf
      <4>. QED  BY <2>0, <3>0, <4>1, <4>2, <4>3, GateStays DEF Others
    <3>5. ASSUME NEW s \in Sessions, Reload(s)
          PROVE  GateOf(t)'
      <4>1. /\ UNCHANGED <<hook, sent>> /\ hook[s].pc = "idle"
            /\ \A u \in Sessions \ {s} : env'[u] = env[u]
        BY <1>2, <3>5 DEF Reload, TypeOK
      <4>2. CASE t = s
        <5>1. hook'[s].op # "prompt"
          BY <1>2, <4>1, AtRest, IdleFields
        <5>. QED  BY <2>0, <3>0, <4>1, <4>2, <5>1, GateEnds
      <4>. QED  BY <2>0, <3>0, <4>1, <4>2, GateStays
    <3>6. ASSUME NEW s \in Sessions, Enable(s) \/ Disable(s) \/ Sweep(s)
          PROVE  GateOf(t)'
      <4>1. UNCHANGED <<env, sent>> /\ UNCHANGED sidecar
        BY <3>6 DEF Enable, Disable, Sweep, session, wiring
      <4>2. Others(s)
        BY <1>2, <3>6, BeginStep
      <4>3. hook'[s].op # "prompt"
        <5>1. \E op \in {"enable", "disable", "sweep"}, pc \in {"ensure", "sidecar"} :
                 hook' = [hook EXCEPT ![s].op = op, ![s].pc = pc]
          BY <3>6 DEF Enable, Disable, Sweep
        <5>. QED  BY <1>2, <5>1 DEF TypeOK, Hook
      <4>. QED  BY <2>0, <3>0, <3>1, <4>1, <4>2, <4>3, GateEnds
    <3>7. ASSUME NEW s \in Sessions, Crash(s)
          PROVE  GateOf(t)'
      <4>1. End(s) /\ UNCHANGED <<env, sent>>
        BY <3>7 DEF Crash, session
      <4>. QED  BY <1>2, <2>0, <3>0, <3>1, <4>1, EndStep, IdleFields, GateEnds
    <3>8. CASE UserEdit \/ ProxyDies \/ ToggleMasking \/ \E s \in Sessions : Fortnight(s)
      <4>1. UNCHANGED <<hook, env, sent>>
        BY <3>8 DEF Fortnight, UserEdit, SetLine, SetUrl, DropRule, DropRoute, BreakOrMend, RestoreRoute,
           Edit, ProxyDies, ToggleMasking, session
      <4>. QED  BY <2>0, <3>0, <4>1, GateStays
    <3>. QED  BY <2>2, <3>2, <3>3, <3>4, <3>5, <3>6, <3>7, <3>8 DEF Next
  <2>. QED  BY <1>2, <2>1, <2>2
<1>3. GateInv => GateIsClosed
  BY DEF GateInv, GateOf, GateIsClosed
<1>. QED  BY <1>1, <1>2, <1>3, TypesHold, RoadHolds, PTL DEF Spec

-----------------------------------------------------------------------------
(* What the model of a session is told *)

\* No session is left believing in a protection its hook has seen to be gone, or
\* ignorant of a bypass, however often the status changes, the hook misses it, and
\* other hooks prune records, unless its own was untouched for two weeks and pruned.
THEOREM NarrationHolds == Spec => []NarrationIsCurrent
<1>1. Init => NarrationIsCurrent
  BY DEF Init, NarrationIsCurrent
<1>2. ASSUME TypeOK, NarrationIsCurrent, [Next]_vars
      PROVE  NarrationIsCurrent'
  <2>1. CASE UNCHANGED <<record, told, forgotten>>
    BY <1>2, <2>1 DEF NarrationIsCurrent
  <2>2. ASSUME NEW s \in Sessions, Narrate(s)
        PROVE  NarrationIsCurrent'
    <3>1. PICK cur \in {Status(s), IF Status(s) \in {"Masked", "Off"} THEN "NotReaching" ELSE Status(s)} :
              IF cur = "none" THEN UNCHANGED notes ELSE Told(s, cur)
      BY <2>2 DEF Narrate, Told
    <3>2. CASE cur = "none"
      BY <2>1, <3>1, <3>2 DEF notes
    <3>3. CASE cur # "none" /\ should_narrate(record[s], cur)
      BY <1>2, <3>1, <3>3 DEF NarrationIsCurrent, TypeOK, Told
    <3>4. CASE cur # "none" /\ ~ should_narrate(record[s], cur)
      BY <1>2, <3>1, <3>4 DEF NarrationIsCurrent, TypeOK, should_narrate, Told
    <3>. QED  BY <3>2, <3>3, <3>4
  <2>7. ASSUME NEW s \in Sessions, Prune(s)
        PROVE  NarrationIsCurrent'
    <3>1. /\ \A t \in Sessions : record'[t] = IF t \in doomed[s] THEN "none" ELSE record[t]
          /\ forgotten' = forgotten \cup doomed[s] /\ told' = told
      BY <2>7 DEF Prune
    <3>. QED  BY <1>2, <3>1 DEF NarrationIsCurrent
  <2>3. ASSUME NEW s \in Sessions, HookStep(s), ~ Narrate(s), ~ Prune(s)
        PROVE  UNCHANGED <<record, told, forgotten>>
    BY <2>3 DEF HookStep, ReadBaked, ReadRegistry, EnsureUp, Register, Refuse, LoadLocal,
       LoadCommitted, SaveSidecar, Migrate, WriteLocal, RecordPlumbed, ReadSidecar, Strip, Forget,
       Unregister, Probe, Answer, session, notes
  <2>4. ASSUME NEW s \in Sessions, NEW resumed \in BOOLEAN, NEW hatch \in Hatches,
               Launch(s, resumed, hatch)
        PROVE  NarrationIsCurrent'
    <3>1. UNCHANGED <<record, told, forgotten>> \/ NewConversation(s)
      BY <2>4 DEF Launch, notes
    <3>2. CASE NewConversation(s)
      BY <1>2, <3>2 DEF NarrationIsCurrent, NewConversation, TypeOK
    <3>. QED  BY <2>1, <3>1, <3>2
  <2>5. ASSUME NEW s \in Sessions,
               \/ Reload(s) \/ Enable(s) \/ Disable(s) \/ Sweep(s) \/ Crash(s) \/ Fortnight(s)
               \/ \E command \in BOOLEAN : Prompt(s, command)
        PROVE  UNCHANGED <<record, told, forgotten>>
    BY <2>5 DEF Reload, Enable, Disable, Sweep, Crash, Fortnight, Prompt, session, notes
  <2>6. UserEdit \/ ProxyDies \/ ToggleMasking \/ UNCHANGED vars
            => UNCHANGED <<record, told, forgotten>>
    BY DEF UserEdit, SetLine, SetUrl, DropRule, DropRoute, BreakOrMend, RestoreRoute, Edit,
       ProxyDies, ToggleMasking, session, notes, vars
  <2>. QED  BY <1>2, <2>1, <2>2, <2>3, <2>4, <2>5, <2>6, <2>7 DEF Next
<1>. QED  BY <1>1, <1>2, TypesHold, PTL DEF Spec

-----------------------------------------------------------------------------
(* What the user set *)

\* A URL the user set is where they put it, and is not the route beside it, so
\* that stripping leaves it alone.
KeptOf(f) == kept[f] # NoPort => file[f].url = kept[f] /\ file[f].zport # kept[f]

KeptInv == \A f \in Files : KeptOf(f)

\* strip_routing_from leaves a URL the user set in place.
LEMMA StripKeeps ==
    ASSUME TypeOK, NEW f \in Files, KeptOf(f), UNCHANGED kept,
           NEW restore \in Lines \cup {NoLine}, file'[f] \in {file[f], Stripped(file[f], restore)}
    PROVE  KeptOf(f)'
<1>1. file[f] \in File
  BY DEF TypeOK
<1>. QED  BY <1>1, StrippedType DEF KeptOf

\* Only an edit of the user's or a take-over replaces a URL the user set.
LEMMA KeptHolds == Spec => []KeptInv
<1>1. ASSUME Init
      PROVE  KeptInv
  BY <1>1 DEF Init, KeptInv, KeptOf, Wired
<1>2. ASSUME TypeOK, KeptInv, [Next]_vars
      PROVE  KeptInv'
  <2>0. file \in [Files -> File] /\ kept \in [Files -> Ports \cup {NoPort, Gateway}]
    BY <1>2 DEF TypeOK
  <2>1. CASE UNCHANGED <<file, kept>>
    BY <1>2, <2>1 DEF KeptInv, KeptOf
  <2>2. ASSUME NEW s \in Sessions, NEW f \in Files, Strip(s, f)
        PROVE  KeptInv'
    <3>1. UNCHANGED kept /\ hook[s].saved \in Lines \cup {NoLine}
      BY <1>2, <2>2 DEF Strip, history, TypeOK, Hook
    <3>2. /\ file'[f] \in {file[f], Stripped(file[f], hook[s].saved)}
          /\ \A g \in Files \ {f} : file'[g] = file[g]
      BY <1>2, <2>2, StripStep
    <3>. QED  BY <1>2, <3>1, <3>2, StripKeeps DEF KeptInv, KeptOf
  <2>3. ASSUME NEW s \in Sessions, Migrate(s)
        PROVE  KeptInv'
    <3>1. UNCHANGED kept
      BY <2>3 DEF Migrate, history
    <3>2. /\ file'["committed"] \in {file["committed"], Stripped(file["committed"], NoLine)}
          /\ \A g \in Files \ {"committed"} : file'[g] = file[g]
      BY <2>0, <2>3 DEF Migrate, Files
    <3>. QED  BY <1>2, <3>1, <3>2, StripKeeps DEF KeptInv, KeptOf, Files
  <2>4. ASSUME NEW s \in Sessions, WriteLocal(s)
        PROVE  KeptInv'
    <3>1. kept'["local"] = NoPort /\ kept'["committed"] = kept["committed"]
          /\ file'["committed"] = file["committed"]
      BY <2>0, <2>4 DEF WriteLocal, Files
    <3>. QED  BY <1>2, <3>1 DEF KeptInv, KeptOf, Files
  <2>5. CASE UserEdit
    <3>1. PICK f \in Files : \E new \in File : Edit(f, new) /\ EditEffect(f, new)
      BY <1>2, <2>5, UserEdits
    <3>2. PICK new \in File : Edit(f, new) /\ EditEffect(f, new)
      BY <3>1
    <3>3. file'[f] = new /\ \A g \in Files \ {f} : file'[g] = file[g]
      BY <1>2, <3>2, EditStep
    <3>4. KeptOf(f) /\ \A g \in Files \ {f} : KeptOf(g)
      BY <1>2 DEF KeptInv
    <3>5. KeptOf(f)'
      BY <2>0, <3>2, <3>3, <3>4 DEF KeptOf, EditEffect
    <3>6. \A g \in Files \ {f} : kept'[g] = kept[g]
      BY <2>0, <3>2 DEF EditEffect
    <3>. QED  BY <3>3, <3>4, <3>5, <3>6 DEF KeptInv, KeptOf
  <2>6. ASSUME NEW s \in Sessions,
               HookStep(s), ~ Migrate(s), ~ WriteLocal(s), ~ \E f \in Files : Strip(s, f)
        PROVE  UNCHANGED <<file, kept>>
    BY <2>6 DEF HookStep, ReadBaked, ReadRegistry, EnsureUp, Register, Refuse, LoadLocal,
       LoadCommitted, SaveSidecar, RecordPlumbed, ReadSidecar, Forget, Unregister, Probe, Answer,
       Narrate, Prune, wiring, history
  <2>7. ASSUME NEW s \in Sessions,
               \/ Reload(s) \/ Enable(s) \/ Disable(s) \/ Sweep(s) \/ Crash(s) \/ Fortnight(s)
               \/ \E command \in BOOLEAN : Prompt(s, command)
               \/ \E resumed \in BOOLEAN, hatch \in Hatches : Launch(s, resumed, hatch)
        PROVE  UNCHANGED <<file, kept>>
    BY <2>7 DEF Reload, Enable, Disable, Sweep, Crash, Fortnight, Prompt, Launch, wiring, history
  <2>8. ProxyDies \/ ToggleMasking \/ UNCHANGED vars => UNCHANGED <<file, kept>>
    BY DEF ProxyDies, ToggleMasking, vars, wiring, history
  <2>. QED  BY <1>2, <2>1, <2>2, <2>3, <2>4, <2>5, <2>6, <2>7, <2>8 DEF Next
<1>. QED  BY <1>1, <1>2, TypesHold, PTL DEF Spec

-----------------------------------------------------------------------------
(* The user's status line *)

\* Between two edits: the user's line is the one in effect, or the side-car holds
\* it.  The side-car is empty when there is no line at all, and full when our line
\* hides a committed one.
Settled ==
    /\ theirs = IF InEffect = OurLine THEN sidecar ELSE InEffect
    /\ file["local"].line = NoLine /\ file["committed"].line = NoLine => sidecar = NoLine
    /\ file["local"].line = OurLine /\ file["committed"].line \in Lines => sidecar # NoLine

\* Within an edit: where the user's line is at each step, and which file is clean.
AtStep(h) ==
    /\ h.pc \in {"load_committed", "save", "migrate", "strip_local"} => Settled
    /\ h.pc = "load_committed" => h.copy.line = file["local"].line
    /\ h.pc = "save" => h.saved = UserLine(file["local"], file["committed"])
    /\ h.pc \in {"migrate", "write"} =>
          /\ sidecar = theirs
          /\ file["committed"].line \in Lines => sidecar # NoLine
    /\ h.pc = "write" => file["committed"].line # OurLine
    /\ h.pc = "strip_local" => h.saved = sidecar
    /\ h.pc = "strip_committed" =>
          /\ ~ Wired(file["local"])
          /\ theirs = IF file["local"].line # NoLine THEN file["local"].line
                      ELSE IF file["committed"].line = OurLine THEN h.saved
                      ELSE file["committed"].line
    /\ h.pc = "forget" =>
          /\ ~ Wired(file["local"]) /\ ~ Wired(file["committed"])
          /\ theirs = InEffect
    /\ h.pc \in {"strip_committed", "forget"} /\ ~ h.changed =>
          (file["local"].line = NoLine /\ file["committed"].line = NoLine => sidecar = NoLine)

\* As long as edits neither overlap nor are cut short.
LineInv ==
    ~ disturbed =>
        /\ \A s, t \in Sessions : Editing(s) /\ Editing(t) => s = t
        /\ Quiet => Settled
        /\ \A s \in Sessions : AtStep(hook[s])

\* A step of the only hook that edits: what follows is about its own next step.
LEMMA AloneStep ==
    ASSUME NEW s \in Sessions, Others(s), \A t \in Sessions \ {s} : ~ Editing(t),
           Editing(s)' => AtStep(hook[s])', ~ Editing(s)' => Settled'
    PROVE  LineInv'
<1>1. \A t \in Sessions \ {s} : ~ Editing(t)' /\ hook'[t].pc \notin EditSteps
  BY DEF Others, Editing
<1>2. ASSUME NEW t \in Sessions, t # s
      PROVE  AtStep(hook[t])'
  BY <1>1, <1>2 DEF AtStep, EditSteps
<1>3. AtStep(hook[s])'
  <2>1. CASE ~ Editing(s)'
    BY <2>1 DEF AtStep, Editing, EditSteps
  <2>. QED  BY <2>1
<1>. QED  BY <1>1, <1>2, <1>3 DEF LineInv, Quiet

\* A step of a hook that is not editing, beside the files and the side-car.
LEMMA AsideStep ==
    ASSUME LineInv, NEW s \in Sessions, Others(s), ~ Editing(s), ~ Editing(s)',
           UNCHANGED <<file, sidecar, theirs, disturbed>>
    PROVE  LineInv'
<1>. SUFFICES ASSUME ~ disturbed PROVE LineInv'
  BY DEF LineInv
<1>1. \A t \in Sessions : Editing(t)' <=> Editing(t)
  BY DEF Others, Editing
<1>2. Settled' <=> Settled
  BY DEF Settled, InEffect
<1>3. ASSUME NEW t \in Sessions
      PROVE  AtStep(hook[t])'
  <2>1. CASE t = s
    BY <2>1 DEF AtStep, Editing, EditSteps
  <2>2. CASE t # s
    BY <1>2, <2>2 DEF Others, LineInv, AtStep, InEffect
  <2>. QED  BY <2>1, <2>2
<1>. QED  BY <1>1, <1>2, <1>3 DEF LineInv, Quiet

\* A step after which the edits count as disturbed.
LEMMA DisturbedStep == disturbed' => LineInv'
  BY DEF LineInv

\* The lines of the two files.
LEMMA FileLines ==
    ASSUME TypeOK
    PROVE  /\ file["local"] \in File /\ file["committed"] \in File
           /\ file["local"].line \in Lines \cup {OurLine, NoLine}
           /\ file["committed"].line \in Lines \cup {OurLine, NoLine}
           /\ sidecar \in Lines \cup {NoLine} /\ theirs \in Lines \cup {NoLine}
<1>1. file["local"] \in File /\ file["committed"] \in File
  BY DEF TypeOK, Files
<1>. QED  BY <1>1 DEF TypeOK, File

\* A hook that edits is the only one that does.
LEMMA OnlyEditor ==
    ASSUME LineInv, ~ disturbed, NEW s \in Sessions, Editing(s)
    PROVE  AtStep(hook[s]) /\ \A t \in Sessions \ {s} : ~ Editing(t)
  BY DEF LineInv

\* The steps of settings_enable.
LEMMA TakeOverLines ==
    ASSUME TypeOK, LineInv, NEW s \in Sessions,
           \/ LoadLocal(s) \/ LoadCommitted(s) \/ SaveSidecar(s) \/ Migrate(s) \/ WriteLocal(s)
    PROVE  LineInv'
<1>0. ~ disturbed' => ~ disturbed
  BY DEF LoadLocal, LoadCommitted, SaveSidecar, Migrate, WriteLocal, history
<1>. SUFFICES ASSUME ~ disturbed, ~ disturbed' PROVE LineInv'
  BY <1>0, DisturbedStep
<1>1. CASE LoadLocal(s)
  <2>1. /\ ~ Overlap(s) /\ hook[s].pc = "load" /\ UNCHANGED <<file, sidecar, theirs>>
    BY <1>1 DEF LoadLocal, wiring
  <2>2. Settled /\ \A t \in Sessions \ {s} : ~ Editing(t)
    BY <2>1 DEF Overlap, Editing, EditSteps, LineInv, Quiet
  <2>3. Others(s) /\ hook'[s].pc = "load_committed" /\ hook'[s].copy = file["local"]
    BY <1>1, LoadStep
  <2>4. Settled'
    BY <2>1, <2>2 DEF Settled, InEffect
  <2>5. AtStep(hook[s])'
    BY <2>1, <2>3, <2>4 DEF AtStep
  <2>. QED  BY <2>2, <2>3, <2>4, <2>5, AloneStep
<1>2. CASE LoadCommitted(s)
  <2>1. hook[s].pc = "load_committed" /\ UNCHANGED <<file, sidecar, theirs>>
    BY <1>2 DEF LoadCommitted, wiring, history
  <2>2. AtStep(hook[s]) /\ \A t \in Sessions \ {s} : ~ Editing(t)
    BY <2>1, OnlyEditor DEF Editing, EditSteps
  <2>3. /\ Others(s) /\ hook'[s].pc = "save"
        /\ hook'[s].saved = UserLine(hook[s].copy, file["committed"])
    BY <1>2, LoadStep
  <2>4. Settled /\ hook[s].copy.line = file["local"].line
    BY <2>1, <2>2 DEF AtStep
  <2>5. Settled'
    BY <2>1, <2>4 DEF Settled, InEffect
  <2>6. hook'[s].saved = UserLine(file["local"], file["committed"])
    BY <2>3, <2>4 DEF UserLine
  <2>7. AtStep(hook[s])'
    BY <2>1, <2>3, <2>5, <2>6 DEF AtStep
  <2>. QED  BY <2>2, <2>3, <2>5, <2>7, AloneStep
<1>3. CASE SaveSidecar(s)
  <2>1. /\ hook[s].pc = "save" /\ UNCHANGED <<file, theirs>> /\ Goto(s, "migrate")
        /\ sidecar' = IF hook[s].saved # NoLine THEN hook[s].saved ELSE sidecar
    BY <1>3 DEF SaveSidecar, history
  <2>2. AtStep(hook[s]) /\ \A t \in Sessions \ {s} : ~ Editing(t)
    BY <2>1, OnlyEditor DEF Editing, EditSteps
  <2>3. Others(s) /\ hook'[s].pc = "migrate"
    BY <2>1, GotoStep DEF Pcs
  <2>4. Settled /\ hook[s].saved = UserLine(file["local"], file["committed"])
    BY <2>1, <2>2 DEF AtStep
  <2>. DEFINE l == file["local"].line
              c == file["committed"].line
  <2>5. /\ l \in Lines => hook[s].saved = l
        /\ l = NoLine /\ c \in Lines => hook[s].saved = c
        /\ l \notin Lines /\ (l # NoLine \/ c \notin Lines) => hook[s].saved = NoLine
    BY <2>4, LineAssumption DEF UserLine
  <2>6. Settled' /\ sidecar' = theirs' /\ (file'["committed"].line \in Lines => sidecar' # NoLine)
    BY <2>1, <2>4, <2>5, FileLines, LineAssumption DEF Settled, InEffect
  <2>7. AtStep(hook[s])'
    BY <2>3, <2>6 DEF AtStep
  <2>. QED  BY <2>2, <2>3, <2>6, <2>7, AloneStep
<1>4. CASE Migrate(s)
  <2>1. /\ hook[s].pc = "migrate" /\ UNCHANGED <<sidecar, theirs>> /\ Goto(s, "write")
        /\ file' = IF Wired(file["committed"])
                   THEN [file EXCEPT !["committed"] = Stripped(@, NoLine)] ELSE file
    BY <1>4 DEF Migrate, history
  <2>2. AtStep(hook[s]) /\ \A t \in Sessions \ {s} : ~ Editing(t)
    BY <2>1, OnlyEditor DEF Editing, EditSteps
  <2>3. Others(s) /\ hook'[s].pc = "write"
    BY <2>1, GotoStep DEF Pcs
  <2>4. file'["committed"].line = IF file["committed"].line = OurLine THEN NoLine
                                  ELSE file["committed"].line
    <3>1. CASE Wired(file["committed"])
      <4>1. file'["committed"] = Stripped(file["committed"], NoLine)
        BY <2>1, <3>1 DEF TypeOK, Files
      <4>2. file["committed"] \in File /\ NoLine \in Lines \cup {NoLine}
        BY FileLines
      <4>3. Stripped(file["committed"], NoLine).line
               = IF file["committed"].line = OurLine THEN NoLine ELSE file["committed"].line
        BY <4>2, StrippedType
      <4>. QED  BY <4>1, <4>3
    <3>2. CASE ~ Wired(file["committed"])
      BY <2>1, <3>2 DEF Wired
    <3>. QED  BY <3>1, <3>2
  <2>5. sidecar = theirs /\ (file["committed"].line \in Lines => sidecar # NoLine)
    BY <2>1, <2>2 DEF AtStep
  <2>6. AtStep(hook[s])'
    BY <2>1, <2>3, <2>4, <2>5, LineAssumption DEF AtStep
  <2>7. Editing(s)'
    BY <2>3 DEF Editing, EditSteps
  <2>. QED  BY <2>2, <2>3, <2>6, <2>7, AloneStep
<1>5. CASE WriteLocal(s)
  <2>1. /\ hook[s].pc = "write" /\ UNCHANGED <<sidecar, theirs>>
        /\ End(s) \/ Goto(s, "plumbed")
        /\ file' = [file EXCEPT !["local"] =
                       [hook[s].copy EXCEPT !.url = hook[s].port, !.zport = hook[s].port,
                                            !.line = OurLine, !.kernel = "all"]]
    BY <1>5 DEF WriteLocal
  <2>2. AtStep(hook[s]) /\ \A t \in Sessions \ {s} : ~ Editing(t)
    BY <2>1, OnlyEditor DEF Editing, EditSteps
  <2>3. Others(s) /\ ~ Editing(s)'
    BY <2>1, EndStep, GotoStep, IdleFields DEF Pcs, Editing, EditSteps
  <2>4. hook[s].copy \in File
    BY DEF TypeOK, Hook
  <2>5. file'["local"].line = OurLine /\ file'["committed"] = file["committed"]
    BY <2>1, <2>4 DEF TypeOK, Files, File
  <2>6. Settled'
    BY <2>1, <2>2, <2>5, LineAssumption DEF AtStep, Settled, InEffect
  <2>. QED  BY <2>2, <2>3, <2>6, AloneStep
<1>. QED  BY <1>1, <1>2, <1>3, <1>4, <1>5

\* A file that strip_routing_from has been over has nothing of ours in it.
LEMMA StripCleans ==
    ASSUME TypeOK, NEW s \in Sessions, NEW f \in Files, Strip(s, f)
    PROVE  /\ ~ Wired(file'[f])
           /\ file'[f].line = IF file[f].line = OurLine THEN hook[s].saved ELSE file[f].line
           /\ ~ hook'[s].changed => file'[f] = file[f]
<1>1. file[f] \in File /\ hook[s].saved \in Lines \cup {NoLine}
  BY DEF TypeOK, Hook
<1>2. /\ file'[f] = IF Wired(file[f]) THEN Stripped(file[f], hook[s].saved) ELSE file[f]
      /\ ~ hook'[s].changed => ~ Wired(file[f])
  BY StripStep
<1>3. CASE Wired(file[f])
  <2>. DEFINE g == Stripped(file[f], hook[s].saved)
  <2>1. /\ g.zport = NoPort /\ g.kernel = "none"
        /\ g.line = IF file[f].line = OurLine THEN hook[s].saved ELSE file[f].line
    BY <1>1, StrippedType
  <2>2. file'[f] = g
    BY <1>2, <1>3
  <2>. HIDE DEF g
  <2>3. g.line # OurLine
    BY <1>1, <2>1, LineAssumption
  <2>. QED  BY <1>2, <1>3, <2>1, <2>2, <2>3 DEF Wired
<1>4. CASE ~ Wired(file[f])
  BY <1>2, <1>4 DEF Wired
<1>. QED  BY <1>3, <1>4

\* The steps of settings_disable_at.
LEMMA RemovalLines ==
    ASSUME TypeOK, LineInv, NEW s \in Sessions,
           ReadSidecar(s) \/ Forget(s) \/ \E f \in Files : Strip(s, f)
    PROVE  LineInv'
<1>0. ~ disturbed' => ~ disturbed
  BY DEF ReadSidecar, Forget, Strip, history
<1>. SUFFICES ASSUME ~ disturbed, ~ disturbed' PROVE LineInv'
  BY <1>0, DisturbedStep
<1>1. CASE ReadSidecar(s)
  <2>1. /\ ~ Overlap(s) /\ hook[s].pc = "sidecar" /\ UNCHANGED <<file, sidecar, theirs>>
    BY <1>1 DEF ReadSidecar, wiring
  <2>2. Settled /\ \A t \in Sessions \ {s} : ~ Editing(t)
    BY <2>1 DEF Overlap, Editing, EditSteps, LineInv, Quiet
  <2>3. Others(s) /\ hook'[s].pc = "strip_local" /\ hook'[s].saved = sidecar
    BY <1>1, LoadStep
  <2>4. Settled'
    BY <2>1, <2>2 DEF Settled, InEffect
  <2>5. AtStep(hook[s])'
    BY <2>1, <2>3, <2>4 DEF AtStep
  <2>. QED  BY <2>2, <2>3, <2>4, <2>5, AloneStep
<1>2. CASE Strip(s, "local")
  <2>0. "local" \in Files /\ "committed" \in Files
    BY DEF Files
  <2>1. hook[s].pc = "strip_local" /\ UNCHANGED <<sidecar, theirs>>
    BY <1>2 DEF Strip, history
  <2>2. AtStep(hook[s]) /\ \A t \in Sessions \ {s} : ~ Editing(t)
    BY <2>1, OnlyEditor DEF Editing, EditSteps
  <2>3. /\ Others(s) /\ hook'[s].pc = "strip_committed"
        /\ hook'[s].saved = IF file["local"].line = OurLine THEN NoLine ELSE hook[s].saved
        /\ file'["committed"] = file["committed"]
    BY <1>2, <2>0, StripStep
  <2>4. /\ ~ Wired(file'["local"])
        /\ file'["local"].line = IF file["local"].line = OurLine THEN hook[s].saved
                                 ELSE file["local"].line
        /\ ~ hook'[s].changed => file'["local"] = file["local"]
    BY <1>2, <2>0, StripCleans
  <2>5. Settled /\ hook[s].saved = sidecar
    BY <2>1, <2>2 DEF AtStep
  <2>6. theirs' = IF file'["local"].line # NoLine THEN file'["local"].line
                  ELSE IF file'["committed"].line = OurLine THEN hook'[s].saved
                  ELSE file'["committed"].line
    BY <2>1, <2>3, <2>4, <2>5, FileLines, LineAssumption DEF Settled, InEffect
  <2>7. ~ hook'[s].changed =>
            (file'["local"].line = NoLine /\ file'["committed"].line = NoLine => sidecar' = NoLine)
    BY <2>1, <2>3, <2>4, <2>5 DEF Settled
  <2>8. AtStep(hook[s])'
    BY <2>3, <2>4, <2>6, <2>7 DEF AtStep
  <2>9. Editing(s)'
    BY <2>3 DEF Editing, EditSteps
  <2>. QED  BY <2>2, <2>3, <2>8, <2>9, AloneStep
<1>3. CASE Strip(s, "committed")
  <2>0. "local" \in Files /\ "committed" \in Files
    BY DEF Files
  <2>1. hook[s].pc = "strip_committed" /\ UNCHANGED <<sidecar, theirs>>
    BY <1>3 DEF Strip, history
  <2>2. AtStep(hook[s]) /\ \A t \in Sessions \ {s} : ~ Editing(t)
    BY <2>1, OnlyEditor DEF Editing, EditSteps
  <2>3. /\ Others(s) /\ hook'[s].pc = "forget"
        /\ file'["local"] = file["local"]
        /\ ~ hook'[s].changed => ~ hook[s].changed
    BY <1>3, <2>0, StripStep
  <2>4. /\ ~ Wired(file'["committed"])
        /\ file'["committed"].line = IF file["committed"].line = OurLine THEN hook[s].saved
                                     ELSE file["committed"].line
        /\ ~ hook'[s].changed => file'["committed"] = file["committed"]
    BY <1>3, <2>0, StripCleans
  <2>5. /\ ~ Wired(file["local"])
        /\ theirs = IF file["local"].line # NoLine THEN file["local"].line
                    ELSE IF file["committed"].line = OurLine THEN hook[s].saved
                    ELSE file["committed"].line
        /\ ~ hook[s].changed =>
              (file["local"].line = NoLine /\ file["committed"].line = NoLine => sidecar = NoLine)
    BY <2>1, <2>2 DEF AtStep
  <2>6. theirs' = InEffect'
    BY <2>1, <2>3, <2>4, <2>5 DEF InEffect
  <2>7. ~ hook'[s].changed =>
            (file'["local"].line = NoLine /\ file'["committed"].line = NoLine => sidecar' = NoLine)
    BY <2>1, <2>3, <2>4, <2>5
  <2>8. AtStep(hook[s])'
    BY <2>3, <2>4, <2>5, <2>6, <2>7 DEF AtStep
  <2>9. Editing(s)'
    BY <2>3 DEF Editing, EditSteps
  <2>. QED  BY <2>2, <2>3, <2>8, <2>9, AloneStep
<1>4. CASE Forget(s)
  <2>1. /\ hook[s].pc = "forget" /\ UNCHANGED <<file, theirs>>
        /\ End(s) \/ Goto(s, "unregister")
        /\ sidecar' = IF hook[s].changed THEN NoLine ELSE sidecar
    BY <1>4 DEF Forget, history
  <2>2. AtStep(hook[s]) /\ \A t \in Sessions \ {s} : ~ Editing(t)
    BY <2>1, OnlyEditor DEF Editing, EditSteps
  <2>3. Others(s) /\ ~ Editing(s)'
    BY <2>1, EndStep, GotoStep, IdleFields DEF Pcs, Editing, EditSteps
  <2>4. /\ file["local"].line # OurLine /\ file["committed"].line # OurLine
        /\ theirs = InEffect
        /\ ~ hook[s].changed =>
              (file["local"].line = NoLine /\ file["committed"].line = NoLine => sidecar = NoLine)
    BY <2>1, <2>2 DEF AtStep, Wired
  <2>5. Settled'
    BY <2>1, <2>4 DEF Settled, InEffect
  <2>. QED  BY <2>2, <2>3, <2>5, AloneStep
<1>. QED  BY <1>1, <1>2, <1>3, <1>4 DEF Files

\* The user's line is kept through every step.
LEMMA LinesHold == Spec => []LineInv
<1>1. ASSUME Init
      PROVE  LineInv
  <2>1. \A s \in Sessions : hook[s].pc = "idle"
    BY <1>1, IdleFields DEF Init
  <2>2. Settled
    <3>1. file["local"].line = NoLine /\ file["committed"].line = NoLine => sidecar = NoLine
      BY <1>1, LineAssumption DEF Init, Files
    <3>. QED  BY <1>1, <3>1 DEF Init, Settled
  <2>3. \A s \in Sessions : AtStep(hook[s])
    BY <2>1 DEF AtStep
  <2>. QED  BY <2>1, <2>2, <2>3 DEF LineInv, Editing, EditSteps
<1>2. ASSUME TypeOK, RoadInv, LineInv, [Next]_vars
      PROVE  LineInv'
  <2>1. ASSUME NEW s \in Sessions, HookStep(s)
        PROVE  LineInv'
    <3>1. CASE \/ LoadLocal(s) \/ LoadCommitted(s) \/ SaveSidecar(s) \/ Migrate(s) \/ WriteLocal(s)
      BY <1>2, <3>1, TakeOverLines
    <3>2. CASE ReadSidecar(s) \/ Forget(s) \/ \E f \in Files : Strip(s, f)
      BY <1>2, <3>2, RemovalLines
    <3>3. CASE \/ ReadBaked(s) \/ ReadRegistry(s) \/ EnsureUp(s) \/ Register(s) \/ RecordPlumbed(s)
               \/ Unregister(s) \/ Probe(s) \/ Answer(s) \/ Narrate(s) \/ Prune(s)
      <4>1. UNCHANGED <<file, sidecar, theirs, disturbed>>
        BY <3>3 DEF ReadBaked, ReadRegistry, EnsureUp, Register, RecordPlumbed, Unregister, Probe,
           Answer, Narrate, Prune, wiring, history
      <4>2. ~ Editing(s)
        BY <3>3 DEF ReadBaked, ReadRegistry, EnsureUp, Register, RecordPlumbed, Unregister, Probe,
           Answer, Narrate, Prune, Editing, EditSteps
      <4>3. Others(s) /\ ~ Editing(s)'
        <5>1. CASE ReadBaked(s) \/ ReadRegistry(s) \/ EnsureUp(s) \/ Probe(s)
          <6>1. Others(s)
            BY <1>2, <5>1, ReadBakedStep, ReadRegistryStep, EnsureUpStep, ProbeStep
          <6>2. hook'[s] = Idle \/ hook'[s].pc \in {"optout", "answer", "probe", "baked", "ensure",
                                                   "sidecar", "register", "load"}
            BY <1>2, <5>1, ReadBakedStep, ReadRegistryStep, EnsureUpStep, ProbeStep
          <6>. QED  BY <6>1, <6>2, IdleFields DEF Editing, EditSteps
        <5>2. CASE Register(s) \/ RecordPlumbed(s) \/ Unregister(s) \/ Answer(s) \/ Narrate(s) \/ Prune(s)
          <6>1. End(s) \/ \E pc \in {"load", "narrate", "prune"} : Goto(s, pc)
            BY <5>2 DEF Register, RecordPlumbed, Unregister, Answer, Narrate, Prune
          <6>. QED  BY <1>2, <6>1, EndStep, GotoStep, IdleFields DEF Pcs, Editing, EditSteps
        <5>. QED  BY <3>3, <5>1, <5>2
      <4>. QED  BY <1>2, <4>1, <4>2, <4>3, AsideStep
    <3>4. CASE Refuse(s)
      <4>1. /\ End(s) /\ UNCHANGED <<file, sidecar, theirs>>
            /\ hook[s].pc \in {"load", "strip_local", "load_committed", "migrate", "strip_committed"}
            /\ disturbed' = (disturbed \/ hook[s].pc = "strip_committed")
        BY <3>4 DEF Refuse, wiring
      <4>2. Others(s) /\ ~ Editing(s)'
        BY <1>2, <4>1, EndStep, IdleFields DEF Editing, EditSteps
      <4>3. CASE hook[s].pc = "load"
        <5>1. ~ Editing(s) /\ (disturbed' <=> disturbed)
          BY <4>1, <4>3 DEF Editing, EditSteps
        <5>2. UNCHANGED disturbed
          BY <1>2, <4>1, <4>3 DEF TypeOK
        <5>. QED  BY <1>2, <4>1, <4>2, <5>1, <5>2, AsideStep
      <4>4. CASE hook[s].pc # "load" /\ ~ disturbed'
        <5>1. /\ ~ disturbed /\ Editing(s)
              /\ hook[s].pc \in {"load_committed", "migrate", "strip_local"}
          BY <4>1, <4>4 DEF Editing, EditSteps
        <5>2. AtStep(hook[s]) /\ \A t \in Sessions \ {s} : ~ Editing(t)
          BY <1>2, <5>1, OnlyEditor
        <5>3. Settled
          BY <5>1, <5>2 DEF AtStep
        <5>4. Settled'
          BY <4>1, <5>3 DEF Settled, InEffect
        <5>. QED  BY <4>2, <5>2, <5>4, AloneStep
      <4>. QED  BY <4>3, <4>4, DisturbedStep
    <3>. QED  BY <2>1, <3>1, <3>2, <3>3, <3>4 DEF HookStep
  <2>2. ASSUME NEW s \in Sessions,
               \/ Enable(s) \/ Disable(s) \/ Sweep(s)
               \/ \E command \in BOOLEAN : Prompt(s, command)
               \/ \E resumed \in BOOLEAN, hatch \in Hatches : Launch(s, resumed, hatch)
        PROVE  LineInv'
    <3>1. UNCHANGED <<file, sidecar, theirs, disturbed>>
      BY <2>2 DEF Enable, Disable, Sweep, Prompt, Launch, wiring, history
    <3>2. /\ Others(s) /\ hook[s].pc = "idle"
          /\ hook'[s].pc \in {"ensure", "sidecar", "optout", "baked"}
      <4>1. CASE \/ Enable(s) \/ Disable(s) \/ Sweep(s)
                 \/ \E command \in BOOLEAN : Prompt(s, command)
        BY <1>2, <4>1, BeginStep
      <4>2. CASE \E resumed \in BOOLEAN, hatch \in Hatches : Launch(s, resumed, hatch)
        BY <1>2, <4>2, LaunchStep
      <4>. QED  BY <2>2, <4>1, <4>2
    <3>. QED  BY <1>2, <3>1, <3>2, AsideStep DEF Editing, EditSteps
  <2>3. ASSUME NEW s \in Sessions, Crash(s)
        PROVE  LineInv'
    <3>1. /\ End(s) /\ UNCHANGED <<file, sidecar, theirs>>
          /\ disturbed' = (disturbed \/ Editing(s))
      BY <2>3 DEF Crash, wiring
    <3>2. Others(s) /\ ~ Editing(s)'
      BY <1>2, <3>1, EndStep, IdleFields DEF Editing, EditSteps
    <3>3. CASE ~ Editing(s)
      <4>1. UNCHANGED disturbed
        BY <1>2, <3>1, <3>3 DEF TypeOK
      <4>. QED  BY <1>2, <3>1, <3>2, <3>3, <4>1, AsideStep
    <3>. QED  BY <3>1, <3>3, DisturbedStep
  <2>4. CASE UserEdit
    <3>1. PICK f \in Files : \E new \in File : Edit(f, new) /\ EditEffect(f, new)
      BY <1>2, <2>4, UserEdits
    <3>2. PICK new \in File : Edit(f, new) /\ EditEffect(f, new)
      BY <3>1
    <3>3. /\ file'[f] = new /\ \A g \in Files \ {f} : file'[g] = file[g]
          /\ Quiet /\ UNCHANGED <<sidecar, hook, disturbed>>
      BY <1>2, <3>2, EditStep
    <3>4. \/ /\ file'["local"].line \in Lines /\ theirs' = file'["local"].line
             /\ file'["committed"].line = file["committed"].line
          \/ /\ file'["local"].line = file["local"].line /\ UNCHANGED theirs
             /\ file'["committed"].line = file["committed"].line
      BY <3>2, <3>3 DEF EditEffect, Files
    <3>5. Settled => Settled'
      BY <3>3, <3>4, LineAssumption DEF Settled, InEffect
    <3>6. Quiet' /\ \A t \in Sessions : AtStep(hook[t])' /\ ~ Editing(t)'
      BY <3>3 DEF Quiet, Editing, EditSteps, AtStep
    <3>. QED  BY <1>2, <3>3, <3>5, <3>6 DEF LineInv
  <2>5. CASE UNCHANGED <<file, sidecar, hook, theirs, disturbed>>
    BY <1>2, <2>5 DEF LineInv, Editing, Quiet, Settled, AtStep, InEffect
  <2>6. (\E s \in Sessions : Reload(s) \/ Fortnight(s)) \/ ProxyDies \/ ToggleMasking \/ UNCHANGED vars
            => UNCHANGED <<file, sidecar, hook, theirs, disturbed>>
    BY DEF Reload, Fortnight, ProxyDies, ToggleMasking, vars, wiring, history
  <2>. QED  BY <1>2, <2>1, <2>2, <2>3, <2>4, <2>5, <2>6 DEF Next
<1>. QED  BY <1>1, <1>2, TypesHold, RoadHolds, PTL DEF Spec

\* What is the user's comes back to them: a line of ours stands for theirs, and
\* no take-over, migration, disable or heal replaces a base URL they set, for any
\* files to begin with and any number of sessions.
THEOREM SettingsKept == Spec => []UsersSettingsKept
<1>1. TypeOK /\ KeptInv /\ LineInv => UsersSettingsKept
  BY DEF UsersSettingsKept, KeptInv, KeptOf, LineInv, Settled
<1>. QED  BY <1>1, TypesHold, KeptHolds, LinesHold, PTL

-----------------------------------------------------------------------------
(* A completed disable *)

\* The commands of the user, of which one runs at a time.
Commands == {"enable", "disable", "sweep"}

\* A disable that ran to its end has opted the project out, and nothing is under
\* way that would opt it in again without the user's asking.
IntentInv ==
    /\ \A s, t \in Sessions : hook[s].op \in Commands /\ hook[t].op \in Commands => s = t
    /\ intent = "off" =>
          /\ registry = "Optout"
          /\ \A s \in Sessions :
                /\ hook[s].op \notin Commands \cup {"plumb"}
                /\ ~ (hook[s].op = "start" /\ hook[s].pc = "ensure" /\ hook[s].port = NoPort)

\* What a step may make of the hook of s: it stays what it is, ends, or turns
\* from a start into a heal, a reconcile or, with neither route nor opt-out, a plumb.
LEMMA HookOps ==
    ASSUME TypeOK, NEW s \in Sessions, HookStep(s)
    PROVE  /\ Others(s)
           /\ \/ hook'[s].op = hook[s].op
              \/ hook'[s].op \in {"none", "heal", "reconcile"}
              \/ /\ hook'[s].op = "plumb" /\ hook[s].op = "start" /\ hook[s].pc = "ensure"
                 /\ hook[s].port = NoPort
           /\ hook'[s].op = "start" /\ hook'[s].pc = "ensure" => registry # "Optout"
<1>1. CASE ReadBaked(s)
  BY <1>1, ReadBakedStep
<1>2. CASE ReadRegistry(s)
  BY <1>2, ReadRegistryStep, IdleFields
<1>3. CASE EnsureUp(s)
  BY <1>3, EnsureUpStep, IdleFields
<1>4. CASE Probe(s)
  BY <1>4, ProbeStep
<1>5. CASE LoadLocal(s) \/ LoadCommitted(s) \/ ReadSidecar(s)
  BY <1>5, LoadStep
<1>6. CASE \E f \in Files : Strip(s, f)
  <2>1. PICK f \in Files : Strip(s, f)
    BY <1>6
  <2>2. /\ Others(s) /\ hook'[s].op = hook[s].op
        /\ hook'[s].pc = IF f = "local" THEN "strip_committed" ELSE "forget"
    BY <2>1, StripStep
  <2>. QED  BY <2>2
<1>7. CASE \/ Register(s) \/ Refuse(s) \/ SaveSidecar(s) \/ Migrate(s) \/ WriteLocal(s)
           \/ RecordPlumbed(s) \/ Forget(s) \/ Unregister(s) \/ Answer(s) \/ Narrate(s) \/ Prune(s)
  <2>1. \/ End(s)
        \/ \E pc \in {"load", "migrate", "write", "plumbed", "unregister", "narrate", "prune"} : Goto(s, pc)
    BY <1>7 DEF Register, Refuse, SaveSidecar, Migrate, WriteLocal, RecordPlumbed, Forget,
       Unregister, Answer, Narrate, Prune
  <2>2. CASE End(s)
    BY <2>2, EndStep, IdleFields
  <2>3. ASSUME NEW pc \in {"load", "migrate", "write", "plumbed", "unregister", "narrate", "prune"},
               Goto(s, pc)
        PROVE  Others(s) /\ hook'[s].op = hook[s].op /\ hook'[s].pc # "ensure"
    BY <2>3, GotoStep DEF Pcs
  <2>. QED  BY <2>1, <2>2, <2>3
<1>. QED  BY <1>1, <1>2, <1>3, <1>4, <1>5, <1>6, <1>7 DEF HookStep

\* Opting out lasts until the user enables, whatever sessions start meanwhile.
LEMMA IntentHolds == Spec => []IntentInv
<1>1. ASSUME Init
      PROVE  IntentInv
  BY <1>1, IdleFields DEF Init, IntentInv, Commands
<1>2. ASSUME TypeOK, RoadInv, IntentInv, [Next]_vars
      PROVE  IntentInv'
  <2>1. ASSUME NEW s \in Sessions, HookStep(s)
        PROVE  IntentInv'
    <3>1. /\ Others(s)
          /\ \/ hook'[s].op = hook[s].op
             \/ hook'[s].op \in {"none", "heal", "reconcile"}
             \/ /\ hook'[s].op = "plumb" /\ hook[s].op = "start" /\ hook[s].pc = "ensure"
                /\ hook[s].port = NoPort
          /\ hook'[s].op = "start" /\ hook'[s].pc = "ensure" => registry # "Optout"
      BY <1>2, <2>1, HookOps
    <3>2. \A t, u \in Sessions : hook'[t].op \in Commands /\ hook'[u].op \in Commands => t = u
      BY <1>2, <3>1 DEF IntentInv, Others, Commands
    <3>3. OnRoad(hook[s])
      BY <1>2 DEF RoadInv
    <3>4. CASE Unregister(s) /\ intent' = "off" /\ intent # "off"
      <4>1. /\ hook[s].op = "disable" /\ registry' = "Optout" /\ ~ Plumbs /\ End(s)
        BY <3>4 DEF Unregister
      <4>2. \A t \in Sessions \ {s} : hook[t].op \notin Commands
        BY <1>2, <4>1 DEF IntentInv, Commands
      <4>3. \A t \in Sessions : hook[t].op \notin {"start", "plumb"}
        BY <4>1 DEF Plumbs
      <4>4. hook'[s] = Idle
        BY <1>2, <4>1, EndStep
      <4>. QED  BY <3>1, <3>2, <4>1, <4>2, <4>3, <4>4, IdleFields DEF IntentInv, Others, Commands
    <3>5. CASE intent' = "off" /\ intent = "off"
      <4>1. /\ registry = "Optout"
            /\ \A t \in Sessions :
                  /\ hook[t].op \notin Commands \cup {"plumb"}
                  /\ ~ (hook[t].op = "start" /\ hook[t].pc = "ensure" /\ hook[t].port = NoPort)
        BY <1>2, <3>5 DEF IntentInv
      <4>2. hook[s].pc \notin {"register", "plumbed", "unregister"}
        BY <3>3, <4>1, IdleFields DEF OnRoad, TakeOver, Removal, Commands
      <4>3. UNCHANGED registry
        BY <2>1, <4>2 DEF HookStep, ReadBaked, ReadRegistry, EnsureUp, Register, Refuse, LoadLocal,
           LoadCommitted, SaveSidecar, Migrate, WriteLocal, RecordPlumbed, ReadSidecar, Strip,
           Forget, Unregister, Probe, Answer, Narrate, Prune, wiring
      <4>4. /\ hook'[s].op \notin Commands \cup {"plumb"}
            /\ ~ (hook'[s].op = "start" /\ hook'[s].pc = "ensure" /\ hook'[s].port = NoPort)
        BY <3>1, <4>1 DEF Commands
      <4>. QED  BY <3>1, <3>2, <4>1, <4>3, <4>4 DEF IntentInv, Others
    <3>6. CASE intent' # "off"
      BY <3>2, <3>6 DEF IntentInv
    <3>7. intent' = "off" => intent = "off" \/ Unregister(s)
      BY <2>1 DEF HookStep, ReadBaked, ReadRegistry, EnsureUp, Register, Refuse, LoadLocal,
         LoadCommitted, SaveSidecar, Migrate, WriteLocal, RecordPlumbed, ReadSidecar, Strip,
         Forget, Probe, Answer, Narrate, Prune, history
    <3>. QED  BY <3>4, <3>5, <3>6, <3>7
  <2>2. ASSUME NEW s \in Sessions, Enable(s) \/ Disable(s) \/ Sweep(s)
        PROVE  IntentInv'
    <3>1. ~ Commanded /\ intent' = "none"
      BY <2>2 DEF Enable, Disable, Sweep
    <3>2. Others(s)
      BY <1>2, <2>2, BeginStep
    <3>. QED  BY <3>1, <3>2 DEF IntentInv, Commanded, Commands, Others
  <2>3. ASSUME NEW s \in Sessions, Others(s), UNCHANGED <<intent, registry>>,
               hook'[s].op \notin Commands \cup {"plumb"},
               ~ (hook'[s].op = "start" /\ hook'[s].pc = "ensure" /\ hook'[s].port = NoPort)
        PROVE  IntentInv'
    BY <1>2, <2>3 DEF IntentInv, Others, Commands
  <2>4. ASSUME NEW s \in Sessions, NEW command \in BOOLEAN, Prompt(s, command)
        PROVE  IntentInv'
    <3>1. UNCHANGED <<intent, registry>>
      BY <2>4 DEF Prompt, wiring, history
    <3>2. Others(s)
      BY <1>2, <2>4, BeginStep
    <3>3. hook'[s].op = "prompt"
      <4>1. hook' = [hook EXCEPT ![s] = [hook[s] EXCEPT !.op = "prompt", !.pc = "optout",
                                                        !.command = command]]
        BY <2>4 DEF Prompt
      <4>. QED  BY <1>2, <4>1 DEF TypeOK, Hook
    <3>. QED  BY <2>3, <3>1, <3>2, <3>3 DEF Commands
  <2>5. ASSUME NEW s \in Sessions, NEW resumed \in BOOLEAN, NEW hatch \in Hatches,
               Launch(s, resumed, hatch)
        PROVE  IntentInv'
    <3>1. UNCHANGED <<intent, registry>>
      BY <2>5 DEF Launch, wiring, history
    <3>2. Others(s) /\ hook'[s].op = "start" /\ (hook'[s].pc = "ensure" => hook'[s].port # NoPort)
      BY <1>2, <2>5, LaunchStep
    <3>. QED  BY <2>3, <3>1, <3>2 DEF Commands
  <2>6. ASSUME NEW s \in Sessions, Crash(s)
        PROVE  IntentInv'
    <3>1. UNCHANGED <<intent, registry>> /\ End(s)
      BY <2>6 DEF Crash, wiring
    <3>. QED  BY <1>2, <2>3, <3>1, EndStep, IdleFields DEF Commands
  <2>7. CASE UNCHANGED <<intent, registry, hook>>
    BY <1>2, <2>7 DEF IntentInv
  <2>8. (\E s \in Sessions : Reload(s) \/ Fortnight(s)) \/ UserEdit \/ ProxyDies \/ ToggleMasking \/ UNCHANGED vars
            => UNCHANGED <<intent, registry, hook>>
    BY DEF Reload, Fortnight, UserEdit, SetLine, SetUrl, DropRule, DropRoute, BreakOrMend, RestoreRoute,
       Edit, ProxyDies, ToggleMasking, vars, wiring, history
  <2>. QED  BY <1>2, <2>1, <2>2, <2>4, <2>5, <2>6, <2>7, <2>8 DEF Next
<1>. QED  BY <1>1, <1>2, TypesHold, RoadHolds, PTL DEF Spec

\* A disable that ran alone leaves both files clean, and the project stays opted
\* out until it is enabled again, for any number of sessions that start meanwhile.
THEOREM DisableCompletes == Spec => []DisableIsComplete
<1>1. LineInv /\ IntentInv => DisableIsComplete
  BY DEF DisableIsComplete, LineInv, AtStep, Wired, IntentInv, Files
<1>. QED  BY <1>1, LinesHold, IntentHolds, PTL
=============================================================================

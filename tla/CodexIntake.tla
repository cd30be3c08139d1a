----------------------------- MODULE CodexIntake -----------------------------
(***************************************************************************)
(* The two hooks of a Codex session.  Codex resolves its provider when it  *)
(* is launched, so what config.toml says now need not be the route of a    *)
(* session that runs: the hooks compare the file's modification time with  *)
(* the launch time in the name of the session's transcript.  The           *)
(* session-start hook tells the model about tokens only if the route       *)
(* holds; the prompt hook is a gate that blocks unless it does, and warns  *)
(* when a session whose prompts it let through was never seen by the       *)
(* proxy (a provider given on the command line).                           *)
(*                                                                         *)
(* The clock ticks in milliseconds of which SecondTicks make a second.     *)
(* The transcript's name has whole seconds of local time.                  *)
(***************************************************************************)
EXTENDS Integers, CodexConfig

CONSTANTS
    Sessions,
    SecondTicks,   \* ticks to the second
    FallBackAt,    \* when the local clock is set back, if before MaxClock
    FallBack,      \* by how many ticks
    Window,        \* ROUTED_RECENTLY_WINDOW_MS, in ticks
    MaxClock,      \* bound: ticks
    MaxPrompts,    \* bound: confirmed prompts of a session
    StartProxies,  \* who may answer on the ports at the beginning
    StartAuths     \* what the exported key and auth.json may be

ASSUME ClockAssumption ==
    /\ SecondTicks \in Nat \ {0}
    /\ {FallBackAt, FallBack, Window, MaxClock, MaxPrompts} \subseteq Nat

VARIABLES
    clock,
    mtime,     \* when config.toml was last written
    proxy,     \* who answers on each port
    session,   \* what Codex resolved for each session, and its marker file
    hook,      \* the hook each session runs, or what the last one came to
    unwarned   \* history: prompts of an overridden session let through in silence

vars == <<configVars, clock, mtime, proxy, session, hook, unwarned>>

-----------------------------------------------------------------------------
(* Facts the hooks gather *)

\* env: the value of OPENAI_API_KEY; file: what auth.json amounts to.
Auth == [env : {"unset", "blank", "sk", "other"},
         file : {"none", "apikey", "chatgpt", "pat", "bedrock", "unmapped"}]

ASSUME AuthAssumption == StartAuths \subseteq Auth
ASSUME ProxyAssumption == StartProxies \subseteq [Ports -> {"ours", "foreign", "down"}]

classify_codex_auth(a) ==
    IF a.env = "sk" THEN "ApiKey"
    ELSE CASE a.file = "apikey" -> "KeyNotExported"
           [] a.file \in {"none", "chatgpt"} -> "Chatgpt"
           [] OTHER -> "Other"

detect_codex_auth(a) == classify_codex_auth(a) = "ApiKey"

\* Text that cannot be read or parsed selects nothing.
codex_route_from_config(c) ==
    IF c.readable /\ c.kind = "toml" /\ c.sel = Id /\ c.block # None
    THEN IF c.block.url \in Ports THEN c.block.url ELSE None
    ELSE None

\* The local wall clock, as a naive serial.  It is set back at FallBackAt.
LocalNaive(t) == IF t >= FallBackAt THEN t - FallBack ELSE t

session_start_ms(t) == LocalNaive(t) - (LocalNaive(t) % SecondTicks)

\* Mutant: the launch second is rounded up.
NextSecond(s, transcript) ==
    /\ transcript
    /\ config.kind # "absent"
    /\ LocalNaive(mtime) <= session[s].start + SecondTicks

\* A payload without a transcript path has no launch time to compare with.
launch_generation_ok(s, transcript) ==
    /\ transcript
    /\ config.kind # "absent"
    /\ LocalNaive(mtime) <= session[s].start

intake_identity_ok(port) == proxy[port] = "ours"

codex_session_start_verdict(routed, auth_ok, identity_ok, launch_gen_ok) ==
    CASE ~routed -> "NotRouted"
      [] routed /\ ~auth_ok -> "AuthFail"
      [] routed /\ auth_ok /\ ~identity_ok -> "ProxyDown"
      [] routed /\ auth_ok /\ identity_ok /\ ~launch_gen_ok -> "RestartNeeded"
      [] OTHER -> "NeutralOnboarding"

codex_route_confirmed(selects, identity_ok, launch_gen_ok) ==
    selects /\ identity_ok /\ launch_gen_ok

codex_intake_should_block(opted_out, route_confirmed, escape_hatch) ==
    ~escape_hatch /\ ~opted_out /\ ~route_confirmed

\* Mutant: two prompts may pass in silence.
WarnAfterTwo(prior_allowed_count, routed) == prior_allowed_count >= 2 /\ ~routed

should_emit_override_warn(prior_allowed_count, routed) ==
    prior_allowed_count >= 1 /\ ~routed

routed_recently(s) ==
    session[s].inbound # None /\ clock - session[s].inbound <= Window

\* The proxy's answer, or none: it is down, slow or refuses.
a8_routed_recently(s, answered) == IF answered THEN {routed_recently(s)} ELSE {}

-----------------------------------------------------------------------------
(* Sessions *)

NoSession == [live |-> FALSE]
\* A hook that ended: its verdict, and the key the verdict rests on.
Idle(out, auth) == [pc |-> "idle", out |-> out, auth |-> auth]

\* Codex starts and resolves its provider; -c or -p on the command line
\* overrides the file without a trace.  It does not start on a broken file.
Launch(s, overridden) ==
    /\ ~session[s].live
    /\ clock < MaxClock
    /\ config.kind # "invalid" /\ config.readable
    /\ session' = [session EXCEPT ![s] =
           [live |-> TRUE, start |-> session_start_ms(clock + 1),
            route |-> codex_route_from_config(config), overridden |-> overridden,
            allowed_count |-> 0, inbound |-> None]]
    /\ clock' = clock + 1
    /\ hook' = [hook EXCEPT ![s] = [pc |-> "start"]]
    /\ UNCHANGED <<configVars, mtime, proxy, unwarned>>

\* codex_session_start_cmd: the route and the key come first.
StartRead(s, auth) ==
    /\ hook[s].pc = "start"
    /\ LET route   == codex_route_from_config(config)
           auth_ok == detect_codex_auth(auth)
       IN  IF route = None \/ ~auth_ok
           THEN hook' = [hook EXCEPT ![s] =
                    Idle(codex_session_start_verdict(route # None, auth_ok, FALSE, FALSE), auth)]
           ELSE hook' = [hook EXCEPT ![s] = [pc |-> "warm", route |-> route, auth |-> auth]]
    /\ UNCHANGED <<configVars, clock, mtime, proxy, session, unwarned>>

\* ensure_up may bring the project's proxy up, on whatever port it gets; then
\* the identity probe of the configured port and the launch generation.
StartVerify(s, transcript) ==
    /\ hook[s].pc = "warm"
    /\ \/ UNCHANGED proxy
       \/ \E port \in Ports : /\ proxy[port] = "down"
                              /\ \A q \in Ports : proxy[q] # "ours"
                              /\ proxy' = [proxy EXCEPT ![port] = "ours"]
    /\ hook' = [hook EXCEPT ![s] =
           Idle(codex_session_start_verdict(TRUE, TRUE, proxy'[hook[s].route] = "ours",
                                            launch_generation_ok(s, transcript)),
                hook[s].auth)]
    /\ UNCHANGED <<configVars, clock, mtime, session, unwarned>>

\* codex_user_prompt_submit_cmd reads the registry, the environment and the text;
\* a prompt may be exempt: the project opted out, ZLAUDER_NO_INTAKE_GATE is set,
\* or it is a /zlauder: command ...
PromptRead(s, exempt) ==
    /\ session[s].live /\ hook[s].pc = "idle"
    /\ session[s].allowed_count < MaxPrompts
    /\ hook' = [hook EXCEPT ![s] = [pc |-> "facts", exempt |-> exempt,
                                    route |-> codex_route_from_config(config)]]
    /\ UNCHANGED <<configVars, clock, mtime, proxy, session, unwarned>>

RouteConfirmed(s, transcript) ==
    codex_route_confirmed(hook[s].route # None,
                          hook[s].route # None /\ intake_identity_ok(hook[s].route),
                          launch_generation_ok(s, transcript))

\* Whether there was a reason to block the prompt of s.
Cause(s, transcript) ==
    \/ hook[s].route = None
    \/ hook[s].route # None /\ proxy[hook[s].route] # "ours"
    \/ ~transcript
    \/ mtime > session[s].start

\* ... then probes the port, reads the modification time and decides.  Only a
\* confirmed prompt advances the marker; the warning needs an answer of the
\* proxy's session endpoint (a8), which may fail.
PromptDecide(s, transcript, a8) ==
    LET confirmed == RouteConfirmed(s, transcript)
        exempt    == hook[s].exempt
        warn      == \E routed \in a8_routed_recently(s, a8) :
                        should_emit_override_warn(session[s].allowed_count, routed)
        block     == /\ codex_intake_should_block(exempt = "optout", confirmed, exempt = "hatch")
                     /\ exempt # "command"
    IN  /\ hook[s].pc = "facts"
        /\ hook' = [hook EXCEPT ![s] =
               IF ~block THEN [pc |-> "send", route |-> @.route, confirmed |-> confirmed]
               ELSE Idle(IF Cause(s, transcript) THEN "caused" ELSE "causeless", None)]
        /\ session' = IF confirmed THEN [session EXCEPT ![s].allowed_count = @ + 1] ELSE session
        /\ unwarned' = IF confirmed /\ session[s].overridden /\ a8 /\ ~warn
                       THEN [unwarned EXCEPT ![s] = @ + 1] ELSE unwarned
        /\ UNCHANGED <<configVars, clock, mtime, proxy>>

\* The prompt leaves.  The proxy notes a session whose request it receives.
Send(s) ==
    /\ hook[s].pc = "send"
    /\ hook' = [hook EXCEPT ![s] = Idle("sent", None)]
    /\ session' = [session EXCEPT ![s].inbound =
           IF ~session[s].overridden /\ session[s].route # None
              /\ proxy[session[s].route] = "ours"
           THEN clock ELSE @]
    /\ UNCHANGED <<configVars, clock, mtime, proxy, unwarned>>

-----------------------------------------------------------------------------
(* The rest of the proxy *)

\* The enable skill brings the project's proxy up and takes its URL.
RunCommand ==
    /\ \/ \E url \in Ports, dir \in Dirs \cup {None} : intake_identity_ok(url) /\ Enable(url, dir)
       \/ Disable
       \/ Die
    /\ UNCHANGED <<clock, mtime, proxy, session, hook, unwarned>>

\* Whatever writes the file stamps it; a change of its mode does not.
Rewrite ==
    /\ clock < MaxClock
    /\ Write \/ UserEdit
    /\ clock' = clock + 1
    /\ mtime' = IF config' = [config EXCEPT !.readable = config'.readable]
                THEN mtime ELSE clock + 1
    /\ UNCHANGED <<proxy, session, hook, unwarned>>

Pass ==
    /\ clock < MaxClock
    /\ clock' = clock + 1
    /\ UNCHANGED <<configVars, mtime, proxy, session, hook, unwarned>>

\* A proxy comes or goes, or another program takes the port.
Change ==
    /\ clock < MaxClock
    /\ clock' = clock + 1
    /\ \E port \in Ports, who \in {"ours", "foreign", "down"} :
          /\ proxy[port] # who
          /\ who = "ours" => \A q \in Ports : proxy[q] # "ours"
          /\ proxy' = [proxy EXCEPT ![port] = who]
    /\ UNCHANGED <<configVars, mtime, session, hook, unwarned>>

Init ==
    /\ ConfigInit
    /\ clock = 0
    /\ mtime = 0
    /\ proxy \in StartProxies
    /\ session = [s \in Sessions |-> NoSession]
    /\ hook = [s \in Sessions |-> Idle("none", None)]
    /\ unwarned = [s \in Sessions |-> 0]

Next ==
    \/ RunCommand
    \/ Rewrite
    \/ Pass
    \/ Change
    \/ \E s \in Sessions :
          \/ \E overridden \in BOOLEAN : Launch(s, overridden)
          \/ \E auth \in StartAuths : StartRead(s, auth)
          \/ \E transcript \in BOOLEAN : StartVerify(s, transcript)
          \/ \E exempt \in {"no", "optout", "hatch", "command"} : PromptRead(s, exempt)
          \/ \E transcript, a8 \in BOOLEAN : PromptDecide(s, transcript, a8)
          \/ Send(s)

Spec == Init /\ [][Next]_vars

-----------------------------------------------------------------------------
(* Properties *)

\* The hooks judge a session rightly, however the file changes between their
\* reads.  What a hook vouches for is the route Codex resolved at launch: the
\* onboarding and a confirmed prompt are never given to a session that was
\* launched before the route was written, nor the onboarding to one without a
\* usable key.  And a prompt is blocked only when the text selects another route,
\* the proxy does not answer, there is no transcript, or the file was written
\* after the launch or in the same second: a session that was restarted after
\* enable gets its first prompt through, before the proxy has seen anything of it.
VerdictsAreSound ==
    \A s \in Sessions :
        /\ hook[s].pc = "idle" /\ hook[s].out = "NeutralOnboarding" =>
               session[s].route # None /\ hook[s].auth.env = "sk"
        /\ hook[s].pc = "send" /\ hook[s].confirmed => session[s].route = hook[s].route
        /\ ~(hook[s].pc = "idle" /\ hook[s].out = "causeless")

\* A session whose provider was overridden on the command line gets at most one
\* prompt past the gate in silence while the proxy's answer is to be had.
OverrideIsNoticed == \A s \in Sessions : unwarned[s] <= 1

=============================================================================

----------------------------- MODULE ProxyLaunch -----------------------------
(***************************************************************************)
(* Bringing up the one proxy of a project.  Hook processes run ensure_up:  *)
(* adopt the proxy named by the rendezvous record if it answers /healthz   *)
(* with the recorded nonce, recycle it if its build is stale, otherwise    *)
(* launch a new one under the launch lock and wait for it.  Proxies bind,  *)
(* publish the record, serve, and remove the record when they stop.        *)
(* Foreign processes take free ports and dead pids are reused.             *)
(*                                                                         *)
(* A hook spawns at most one proxy, which is named after it: the hook, its *)
(* launch nonce, and the pid of the proxy it spawns are the same value.    *)
(* The lock is atomic here; LaunchLock models how it is implemented.       *)
(***************************************************************************)
EXTENDS Naturals, FiniteSets

CONSTANTS
    Hooks,      \* hook processes, also the nonces of the proxies they spawn
    NewBuild,   \* the hooks (and so the proxies) of the updated plugin
    Ports,
    PortConfigs, \* the [proxy] port settings to consider, NoPort for ephemeral
    NoPort, NoRec, NoHook,
    Free, Foreign  \* what may be on a port besides a proxy

Record == [nonce : Hooks, port : Ports, salt : Hooks]

ASSUME BuildAssumption == NewBuild \subseteq Hooks
ASSUME PortAssumption == PortConfigs \subseteq Ports \cup {NoPort} /\ NoPort \notin Ports
ASSUME AbsentAssumption ==
    /\ NoRec \notin Record
    /\ NoHook \notin Hooks
    /\ Free \notin Hooks /\ Foreign \notin Hooks /\ Free # Foreign

VARIABLES
    pinned,    \* the [proxy] port of the project; no action changes it
    rec,       \* the project's rendezvous file
    lock,      \* holder of the launch lock
    listener,  \* what listens on each port
    pidLive,   \* proxy pids for which kill(pid, 0) succeeds
    signalled, \* proxies that were sent SIGINT / SIGTERM
    proxy,     \* life cycle of the proxy spawned by each hook
    pc,        \* where each hook is
    hrec,      \* the record each hook last read
    hsalt,     \* ZLAUDER_SESSION_SALT: the salt each hook hands to its proxy
    overtaken  \* history: proxies that a publish passed inside their cleanup

hookVars  == <<pc, hrec, hsalt>>
proxyVars == <<listener, pidLive, signalled, proxy, overtaken>>
vars == <<pinned, rec, lock, hookVars, proxyVars>>

ProxyStates == {"none", "starting", "bound", "published", "serving",
                "draining", "unlinking", "dead"}
HookSteps == {"idle", "probe", "signal", "stopping", "salt", "lock", "spawn",
              "waitOwn", "pollOwn", "waitAny", "pollAny",
              "ours", "failed", "dead"}

\* Types of the record, the ports, the hooks and the proxies.
TypeOK ==
    /\ pinned \in PortConfigs
    /\ rec \in Record \cup {NoRec}
    /\ lock \in Hooks \cup {NoHook}
    /\ listener \in [Ports -> Hooks \cup {Free, Foreign}]
    /\ pidLive \subseteq Hooks
    /\ signalled \subseteq Hooks
    /\ proxy \in [Hooks -> ProxyStates]
    /\ pc \in [Hooks -> HookSteps]
    /\ hrec \in [Hooks -> Record \cup {NoRec}]
    /\ hsalt \in [Hooks -> Hooks \cup {NoHook}]
    /\ overtaken \subseteq Hooks

Init ==
    /\ pinned \in PortConfigs
    /\ rec = NoRec
    /\ lock = NoHook
    /\ listener = [p \in Ports |-> Free]
    /\ pidLive = {}
    /\ signalled = {}
    /\ proxy = [h \in Hooks |-> "none"]
    /\ pc = [h \in Hooks |-> "idle"]
    /\ hrec = [h \in Hooks |-> NoRec]
    /\ hsalt = [h \in Hooks |-> NoHook]
    /\ overtaken = {}

Goto(h, from, to) ==
    /\ pc[h] = from
    /\ pc' = [pc EXCEPT ![h] = to]

Release(h) == lock' = IF lock = h THEN NoHook ELSE lock

\* live_port: the record names a bound port and its pid looks alive.
LiveRecord == rec # NoRec /\ rec.nonce \in pidLive

\* proxy_healthy: something on the port answers /healthz, whoever it is.
Healthy(p) ==
    \/ listener[p] = Foreign
    \/ listener[p] \in Hooks /\ proxy[listener[p]] = "serving"

\* Mutant: any 2xx answer on the recorded port counts, nonce or not.
AnswersAnything(r) == Healthy(r.port)

\* proxy_identity: the process on the recorded port serves /healthz and
\* echoes the nonce of the record in x-zlauder-nonce.
Answers(r) == listener[r.port] = r.nonce /\ proxy[r.nonce] = "serving"

(***************************************************************************)
(* ensure_up                                                               *)
(***************************************************************************)

\* live_port(root): the cheap, record-based half of the adoption check.
ReadRecord(h) ==
    /\ Goto(h, "idle", IF LiveRecord THEN "probe" ELSE "salt")
    /\ hrec' = [hrec EXCEPT ![h] = IF LiveRecord THEN rec ELSE NoRec]
    /\ UNCHANGED <<pinned, rec, lock, hsalt, proxyVars>>

SameBuild(h, n) == h \in NewBuild <=> n \in NewBuild

\* The /healthz round trip: adopt, recycle a stale build, or go and launch.
\* The request may time out against a proxy that is there.
Probe(h) ==
    /\ \/ /\ Goto(h, "probe", "ours")
          /\ Answers(hrec[h])
          /\ SameBuild(h, hrec[h].nonce)
       \/ /\ Goto(h, "probe", "signal")
          /\ Answers(hrec[h])
          /\ ~SameBuild(h, hrec[h].nonce)
       \/ Goto(h, "probe", "salt")
    /\ UNCHANGED <<pinned, rec, lock, hrec, hsalt, proxyVars>>

\* stop_proxy, first half: SIGINT to the recorded pid.
Signal(h) ==
    /\ Goto(h, "signal", "stopping")
    /\ signalled' = signalled \cup {hrec[h].nonce}
    /\ UNCHANGED <<pinned, rec, lock, listener, pidLive, proxy, overtaken, hrec, hsalt>>

\* The ports after proxy n has closed its listener.
Unbound(n) == [p \in Ports |-> IF listener[p] = n THEN Free ELSE listener[p]]

\* Proxy n is gone without any cleanup of its own.
Vanish(n) ==
    /\ proxy' = [proxy EXCEPT ![n] = "dead"]
    /\ listener' = Unbound(n)
    /\ pidLive' = pidLive \ {n}

\* stop_proxy, second half: the port stops answering (or one answer is late),
\* or it still answers after the grace period and the pid gets SIGKILL.
StopProxy(h) ==
    /\ Goto(h, "stopping", "salt")
    /\ \/ UNCHANGED <<pinned, proxy, listener, pidLive>>
       \/ /\ Healthy(hrec[h].port)
          /\ Vanish(hrec[h].nonce)
    /\ UNCHANGED <<pinned, rec, lock, signalled, overtaken, hrec, hsalt>>

(***************************************************************************)
(* launch_proxy                                                            *)
(***************************************************************************)

\* The salt is taken from the record before the lock is tried.
ReadSalt(h) ==
    /\ Goto(h, "salt", "lock")
    /\ hsalt' = [hsalt EXCEPT ![h] = IF rec = NoRec THEN h ELSE rec.salt]
    /\ UNCHANGED <<pinned, rec, lock, hrec, proxyVars>>

\* The lock can be had: it is free, its holder is dead, or the holder has been
\* waiting for its proxy for longer than LAUNCH_LOCK_TTL_SECS.
Reclaimable == lock # NoHook => pc[lock] \in {"dead", "waitOwn", "pollOwn"}

\* A live holder within the TTL keeps the lock.
Contended == lock # NoHook /\ pc[lock] # "dead"

\* try_launch_lock: win the lock, or wait for the winner's proxy.
TryLaunchLock(h) ==
    /\ \/ Reclaimable /\ Goto(h, "lock", "spawn") /\ lock' = h
       \/ Contended /\ Goto(h, "lock", "waitAny") /\ UNCHANGED lock
    /\ UNCHANGED <<pinned, rec, hrec, hsalt, proxyVars>>

\* cmd.spawn; a failed spawn drops the guard and reports.
Spawn(h) ==
    /\ \/ /\ Goto(h, "spawn", "waitOwn")
          /\ proxy' = [proxy EXCEPT ![h] = "starting"]
          /\ pidLive' = pidLive \cup {h}
          /\ UNCHANGED lock
       \/ /\ Goto(h, "spawn", "failed")
          /\ Release(h)
          /\ UNCHANGED <<pinned, proxy, pidLive>>
    /\ UNCHANGED <<pinned, rec, listener, signalled, overtaken, hrec, hsalt>>

Waiting == {"waitOwn", "waitAny"}

Polling(step) == IF step = "waitOwn" THEN "pollOwn" ELSE "pollAny"

\* One round of wait_for_live: read the record ...
PollRecord(h) ==
    /\ pc[h] \in Waiting
    /\ LiveRecord
    /\ pc' = [pc EXCEPT ![h] = Polling(pc[h])]
    /\ hrec' = [hrec EXCEPT ![h] = rec]
    /\ UNCHANGED <<pinned, rec, lock, hsalt, proxyVars>>

\* expect_nonce: a launcher that spawned accepts only its own nonce.
Acceptable(h, step) == step = "pollOwn" => hrec[h].nonce = h

\* ... then the /healthz round trip; success drops the guard.
PollProbe(h) ==
    /\ pc[h] \in {"pollOwn", "pollAny"}
    /\ \/ /\ Answers(hrec[h])
          /\ Acceptable(h, pc[h])
          /\ pc' = [pc EXCEPT ![h] = "ours"]
          /\ Release(h)
       \/ /\ pc' = [pc EXCEPT ![h] = IF @ = "pollOwn" THEN "waitOwn" ELSE "waitAny"]
          /\ UNCHANGED lock
    /\ UNCHANGED <<pinned, rec, hrec, hsalt, proxyVars>>

\* The hundred rounds are over: report Failed and drop the guard.
GiveUp(h) ==
    /\ pc[h] \in Waiting
    /\ pc' = [pc EXCEPT ![h] = "failed"]
    /\ Release(h)
    /\ UNCHANGED <<pinned, rec, hrec, hsalt, proxyVars>>

\* The hook process is killed; the lock file stays.
HookDies(h) ==
    /\ pc[h] \notin {"idle", "ours", "failed", "dead"}
    /\ pc' = [pc EXCEPT ![h] = "dead"]
    /\ UNCHANGED <<pinned, rec, lock, hrec, hsalt, proxyVars>>

(***************************************************************************)
(* The proxy's main                                                        *)
(***************************************************************************)

\* Mutant: a taken static port falls back to any free one.
BindChoicesFallback ==
    LET free == {p \in Ports : listener[p] = Free}
    IN  IF pinned \in free THEN {pinned} ELSE free

\* bind_listener: the static pin or nothing; else the sticky last_port of the
\* record if it is free, else any free port.
BindChoices ==
    LET free == {p \in Ports : listener[p] = Free}
    IN  IF pinned # NoPort THEN free \cap {pinned}
        ELSE IF rec # NoRec /\ rec.port \in free THEN {rec.port} ELSE free

Bind(n) ==
    /\ proxy[n] = "starting"
    /\ \E p \in BindChoices :
          /\ listener' = [listener EXCEPT ![p] = n]
          /\ proxy' = [proxy EXCEPT ![n] = "bound"]
    /\ UNCHANGED <<pinned, rec, lock, pidLive, signalled, overtaken, hookVars>>

\* write_rendezvous, before serving; a failed write is only logged.
Publish(n) ==
    /\ proxy[n] = "bound"
    /\ proxy' = [proxy EXCEPT ![n] = "published"]
    /\ \/ \E p \in Ports :
             /\ listener[p] = n
             /\ rec' = [nonce |-> n, port |-> p, salt |-> hsalt[n]]
             /\ overtaken' = overtaken \cup {m \in Hooks : proxy[m] = "unlinking"}
       \/ UNCHANGED <<pinned, rec, overtaken>>
    /\ UNCHANGED <<pinned, lock, listener, pidLive, signalled, hookVars>>

Serve(n) ==
    /\ proxy[n] = "published"
    /\ proxy' = [proxy EXCEPT ![n] = "serving"]
    /\ UNCHANGED <<pinned, rec, lock, listener, pidLive, signalled, overtaken, hookVars>>

\* shutdown_signal: the listener closes, open requests drain.
Drain(n) ==
    /\ proxy[n] = "serving"
    /\ n \in signalled
    /\ proxy' = [proxy EXCEPT ![n] = "draining"]
    /\ listener' = Unbound(n)
    /\ UNCHANGED <<pinned, rec, lock, pidLive, signalled, overtaken, hookVars>>

\* Mutant: the record is removed whoever published it.
CleanupCheckBlind(n) ==
    /\ proxy[n] = "draining"
    /\ proxy' = [proxy EXCEPT ![n] = "unlinking"]
    /\ UNCHANGED <<pinned, rec, lock, listener, pidLive, signalled, overtaken, hookVars>>

\* rendezvous_remove_if_owned: read and compare nonce and pid ...
CleanupCheck(n) ==
    /\ proxy[n] = "draining"
    /\ IF rec # NoRec /\ rec.nonce = n
       THEN proxy' = [proxy EXCEPT ![n] = "unlinking"] /\ UNCHANGED pidLive
       ELSE proxy' = [proxy EXCEPT ![n] = "dead"] /\ pidLive' = pidLive \ {n}
    /\ UNCHANGED <<pinned, rec, lock, listener, signalled, overtaken, hookVars>>

\* ... then remove the file by path, and exit.
CleanupRemove(n) ==
    /\ proxy[n] = "unlinking"
    /\ proxy' = [proxy EXCEPT ![n] = "dead"]
    /\ pidLive' = pidLive \ {n}
    /\ rec' = NoRec
    /\ UNCHANGED <<pinned, lock, listener, signalled, overtaken, hookVars>>

\* The proxy crashes, is killed, or refuses to start (bind failure).
ProxyDies(n) ==
    /\ proxy[n] \notin {"none", "dead"}
    /\ Vanish(n)
    /\ UNCHANGED <<pinned, rec, lock, signalled, overtaken, hookVars>>

(***************************************************************************)
(* Environment                                                             *)
(***************************************************************************)

\* The user or the operating system asks a proxy to stop.
Terminate(n) ==
    /\ proxy[n] = "serving"
    /\ signalled' = signalled \cup {n}
    /\ UNCHANGED <<pinned, rec, lock, listener, pidLive, proxy, overtaken, hookVars>>

ForeignTakesPort(p) ==
    /\ listener[p] = Free
    /\ listener' = [listener EXCEPT ![p] = Foreign]
    /\ UNCHANGED <<pinned, rec, lock, pidLive, signalled, proxy, overtaken, hookVars>>

ForeignLeavesPort(p) ==
    /\ listener[p] = Foreign
    /\ listener' = [listener EXCEPT ![p] = Free]
    /\ UNCHANGED <<pinned, rec, lock, pidLive, signalled, proxy, overtaken, hookVars>>

\* A dead proxy's pid names some other process.
PidReuse(n) ==
    /\ proxy[n] = "dead"
    /\ pidLive' = pidLive \cup {n}
    /\ UNCHANGED <<pinned, rec, lock, listener, signalled, proxy, overtaken, hookVars>>

HookStep(h) ==
    \/ ReadRecord(h) \/ Probe(h) \/ Signal(h) \/ StopProxy(h)
    \/ ReadSalt(h) \/ TryLaunchLock(h) \/ Spawn(h)
    \/ PollRecord(h) \/ PollProbe(h) \/ GiveUp(h) \/ HookDies(h)

ProxyStep(n) ==
    \/ Bind(n) \/ Publish(n) \/ Serve(n) \/ Drain(n)
    \/ CleanupCheck(n) \/ CleanupRemove(n) \/ ProxyDies(n)

Environment ==
    \/ \E n \in Hooks : Terminate(n) \/ PidReuse(n)
    \/ \E p \in Ports : ForeignTakesPort(p) \/ ForeignLeavesPort(p)

Next == (\E h \in Hooks : HookStep(h) \/ ProxyStep(h)) \/ Environment

Spec == Init /\ [][Next]_vars

-----------------------------------------------------------------------------
Serving == {n \in Hooks : proxy[n] = "serving"}

(***************************************************************************)
(* ensure_up reports EnsureOutcome::Ours only while a proxy of this        *)
(* project is serving on the reported port, however ports are stolen and   *)
(* pids reused: the session is never routed to a foreign process.  A hook  *)
(* that spawned a proxy reports Ours only for that very instance, which    *)
(* carries the salt the hook handed over; a concurrent publish is never    *)
(* mistaken for it.                                                        *)
(***************************************************************************)
AdoptsOnlyOurProxy ==
    [][\A h \in Hooks :
          pc[h] # "ours" /\ pc'[h] = "ours" =>
              /\ listener[hrec[h].port] \in Serving
              /\ pc[h] = "pollOwn" => proxy[h] = "serving" /\ hrec[h].salt = hsalt[h]]_vars

(***************************************************************************)
(* rendezvous_remove_if_owned never clobbers a successor, except inside    *)
(* the gap its comment concedes: a record disappears only when its own     *)
(* proxy removes it, or when a proxy that had already found its own record *)
(* was overtaken by the publish before it unlinked the path.               *)
(***************************************************************************)
SuccessorRecordSurvives ==
    [][rec # NoRec /\ rec' = NoRec
       => \E n \in {rec.nonce} \cup overtaken :
             proxy[n] = "unlinking" /\ proxy'[n] = "dead"]_vars

(***************************************************************************)
(* Under a static [proxy] port a second launch of the project cannot get a *)
(* second proxy on the network: bind_listener refuses instead of probing   *)
(* another port, so two launchers never end up routing to two proxies.     *)
(***************************************************************************)
SinglePinnedProxy ==
    /\ TypeOK
    /\ pinned # NoPort =>
          Cardinality({n \in Hooks : \E p \in Ports : listener[p] = n}) <= 1
=============================================================================

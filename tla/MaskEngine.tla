------------------------------ MODULE MaskEngine ------------------------------
(***************************************************************************)
(* The request path of the masking engine against its live control plane.  *)
(* Requests walk their text leaves through MaskEngine::mask (after an      *)
(* optional batched prewarm) while an operator swaps the policy, the cache *)
(* capacity and the ML settings, background tasks load models, and the     *)
(* start-up task installs the registered secrets.  Every action is one     *)
(* critical section of the code: one acquisition of the policy, secrets,   *)
(* ml, cache or ml_gate lock.                                              *)
(*                                                                         *)
(* A detection result is abstracted to the inputs it was computed from;    *)
(* a fingerprint is abstracted to the thing it identifies.                 *)
(***************************************************************************)
EXTENDS Naturals, FiniteSets

CONSTANTS
    Requests,   \* concurrent LLM requests
    Leaves,     \* the text leaves every request carries
    HugeResults, \* <<leaf, policy>>: more than MAX_CACHED_DETECTIONS spans
    Configs,    \* configurations the operator may put
    StartConfig,
    Models,     \* model parameter sets (the same_model_params classes)
    NoModel,    \* no recognizer: the regex-only key space
    NoRequest,
    SecretSpecs, \* the configured secrets: "none", "optional" or "required"
    MaxOps      \* bound: number of control-plane operations

\* What a configuration contributes: detection fingerprint, cache capacity,
\* model parameters and [engine.ml] required.
Config == [policy : Nat, cap : Nat, model : Models, required : BOOLEAN]

ASSUME ConfigAssumption  == Configs \subseteq Config /\ StartConfig \in Config
ASSUME ModelAssumption   == NoModel \notin Models
ASSUME RequestAssumption == NoRequest \notin Requests
ASSUME LeafAssumption    == IsFiniteSet(Leaves) /\ HugeResults \subseteq Leaves \X Nat
ASSUME SpecsAssumption   == SecretSpecs \in {"none", "optional", "required"}
ASSUME BoundAssumption   == MaxOps \in Nat

VARIABLES
    config,   \* the Policy behind MaskEngine.policy
    enabled,  \* its master switch
    mlOn,     \* its [engine.ml] enabled
    secrets,  \* MaskEngine.secrets: the set installed
    ready,    \* AppState.secrets_ready
    resolver, \* the start-up task that resolves the secrets
    ml,       \* MaskEngine.ml: MlRuntime
    cache,    \* DetectionCache: entries
    cap,      \* DetectionCache.cap
    gate,     \* holder of ml_gate
    loads,    \* background load tasks in flight
    admin,    \* the control-plane operation holding config_control
    ops,      \* control-plane operations so far
    req,      \* the state of each request
    ever      \* history: inputs that were live since each request started

policyVars == <<config, enabled, mlOn>>
secretVars == <<secrets, ready, resolver>>
cacheVars  == <<cache, cap>>
adminVars  == <<admin, ops>>
vars == <<policyVars, secretVars, ml, cacheVars, gate, loads, adminVars, req, ever>>

-----------------------------------------------------------------------------
(* Types.                                                                  *)

\* "reserved" holds only the admin-key rule, "partial" misses a required
\* secret, "complete" has every required one.
SecretSets == {"reserved", "partial", "complete"}
MlStatus   == {"Disabled", "Loading", "Ready", "Failed"}
MaybeModel == Models \cup {NoModel}
Generation == 0 .. MaxOps + 1

\* A cache key, and also the inputs that a detection was computed from.
CacheKey == [leaf : Leaves, policy : Nat, secrets : SecretSets, model : MaybeModel]

MlRuntime ==
    [status : MlStatus, recognizer : MaybeModel,
     desired : MaybeModel, required : BOOLEAN,
     generation : Generation, fp : MaybeModel,
     noted : BOOLEAN]             \* last_runtime_error.is_some()

Steps == {"idle", "prewarm", "policy", "secrets", "ml", "lookup", "gate",
          "recheck", "detect", "insert", "done", "refused"}

\* The policy, secrets and ML snapshots of one call of mask or prewarm_batch.
Snapshot ==
    [policy : Nat, on : BOOLEAN, secrets : SecretSets, recognizer : MaybeModel,
     fp : MaybeModel, generation : Generation]

Request ==
    [pc : Steps,
     warming : BOOLEAN,           \* in prewarm_batch rather than in mask
     todo : SUBSET Leaves,        \* leaves not masked yet
     batch : SUBSET Leaves,       \* leaves this call still has to detect
     snap : Snapshot,
     out : SUBSET [dets : CacheKey, on : BOOLEAN]]  \* what was spliced

\* A control-plane operation between its critical sections.
Operation == [step : {"none", "cap", "reconcile", "load", "update", "disable"},
              by : {"put", "enable", "disable"}]

\* Types; the cache never outgrows its live capacity and a disabled one is empty
\* (DetectionCache::insert, set_cap).
TypeOK ==
    /\ config \in Configs \cup {StartConfig}
    /\ enabled \in BOOLEAN /\ mlOn \in BOOLEAN
    /\ secrets \in SecretSets
    /\ ready \in BOOLEAN
    /\ resolver \in {"resolving", "installed", "ended"}
    /\ ml \in MlRuntime
    /\ cache \subseteq [key : CacheKey, dets : CacheKey]
    /\ cap \in Nat /\ Cardinality(cache) <= cap
    /\ gate \in Requests \cup {NoRequest}
    /\ loads \subseteq [generation : Generation, model : Models]
    /\ admin \in Operation
    /\ ops \in 0 .. MaxOps
    /\ req \in [Requests -> Request]

-----------------------------------------------------------------------------
(* The ML slot.  Each operator is the slot after one engine call.          *)

Active(s) == IF s.status = "Ready" THEN s.recognizer ELSE NoModel

\* compute_ml_fp: only a Ready recognizer contributes its (desired) params.
WithFp(s) ==
    [s EXCEPT !.fp = IF s.status = "Ready" /\ s.recognizer # NoModel
                     THEN s.desired ELSE NoModel]

\* ml_begin_load(desired)
BeginLoad(s, model, required) ==
    WithFp([status |-> "Loading", recognizer |-> NoModel, desired |-> model,
            required |-> required, generation |-> s.generation + 1,
            fp |-> s.fp, noted |-> FALSE])

\* Mutant: a finished load installs without comparing generations.
SetReadyUnchecked(s, load) ==
    WithFp([s EXCEPT !.status = "Ready", !.recognizer = load.model, !.noted = FALSE])

\* ml_set_ready(generation, recognizer)
SetReady(s, load) ==
    IF s.generation # load.generation THEN s
    ELSE WithFp([s EXCEPT !.status = "Ready", !.recognizer = load.model,
                          !.noted = FALSE])

\* ml_set_failed(generation, error)
SetFailed(s, load) ==
    IF s.generation # load.generation THEN s
    ELSE WithFp([s EXCEPT !.status = "Failed", !.recognizer = NoModel])

\* ml_disable()
Disable(s) ==
    WithFp([status |-> "Disabled", recognizer |-> NoModel, desired |-> NoModel,
            required |-> FALSE, generation |-> s.generation + 1,
            fp |-> s.fp, noted |-> FALSE])

\* ml_update_required(required)
UpdateRequired(s, required) ==
    IF s.desired = NoModel THEN s ELSE [s EXCEPT !.required = required]

\* ml_note_runtime_failure(generation) and ml_clear_runtime_failure(generation)
NoteFailure(s, generation) ==
    IF s.generation # generation THEN s ELSE [s EXCEPT !.noted = TRUE]
ClearFailure(s, generation) ==
    IF s.generation # generation THEN s ELSE [s EXCEPT !.noted = FALSE]

\* Mutant: only a failed load refuses, a loading one degrades.
RefusesOnlyFailed(s) == s.desired # NoModel /\ s.required /\ s.status = "Failed"

\* The required-mode refusal of ml_for_mask.
Refuses(s) == s.desired # NoModel /\ s.required /\ s.status # "Ready"

InitialMl == [status |-> "Disabled", recognizer |-> NoModel, desired |-> NoModel,
              required |-> FALSE, generation |-> 0, fp |-> NoModel, noted |-> FALSE]

-----------------------------------------------------------------------------
(* History: what was live while a request ran.                             *)

\* The inputs that are live in the current state.
Live ==
    [policy |-> {config.policy}, on |-> {enabled}, secrets |-> {secrets},
     model |-> {Active(ml)}, strict |-> enabled /\ ml.desired # NoModel /\ ml.required]

Extended(h, live) ==
    [policy  |-> h.policy \cup live.policy, on |-> h.on \cup live.on,
     secrets |-> h.secrets \cup live.secrets, model |-> h.model \cup live.model,
     strict  |-> h.strict /\ live.strict]

\* The history of a request that has not started is what is live now.
Observe ==
    ever' = [r \in Requests |-> IF req'[r].pc = "idle" THEN Live'
                                ELSE Extended(ever[r], Live')]

-----------------------------------------------------------------------------
(* The detection cache.  Which entry the LRU order gives up is left open.  *)

Cached(key) == {e \in cache : e.key = key}

\* DetectionCache::get
Hit(key) == cap # 0 /\ Cached(key) # {}

\* DetectionCache::insert
Insert(key, dets) ==
    IF cap = 0 \/ <<dets.leaf, dets.policy>> \in HugeResults
    THEN UNCHANGED cacheVars
    ELSE /\ UNCHANGED cap
         /\ LET others == cache \ Cached(key)
            IN  \E kept \in SUBSET others :
                  /\ Cardinality(kept) = IF Cardinality(others) < cap
                                         THEN Cardinality(others) ELSE cap - 1
                  /\ cache' = kept \cup {[key |-> key, dets |-> dets]}

\* DetectionCache::set_cap
SetCap(n) ==
    /\ cap' = n
    /\ \E kept \in SUBSET cache :
         /\ Cardinality(kept) = IF Cardinality(cache) < n THEN Cardinality(cache) ELSE n
         /\ cache' = kept

-----------------------------------------------------------------------------
(* Requests.                                                               *)

NoSnapshot == [policy |-> 0, on |-> FALSE, secrets |-> "reserved",
               recognizer |-> NoModel, fp |-> NoModel, generation |-> 0]

At(r, step) == req[r].pc = step
Warming(r)  == req[r].warming
Snap(r)     == req[r].snap

\* Mutant: the cache key forgets the secret set.
KeyWithoutSecrets(r, leaf) ==
    [leaf |-> leaf, policy |-> Snap(r).policy, secrets |-> "reserved", model |-> Snap(r).fp]

\* Mutant: the cache key forgets the policy.
KeyWithoutPolicy(r, leaf) ==
    [leaf |-> leaf, policy |-> 0, secrets |-> Snap(r).secrets, model |-> Snap(r).fp]

\* The cache key of a leaf, and the inputs its detection reads.
KeyOf(r, leaf) ==
    [leaf |-> leaf, policy |-> Snap(r).policy, secrets |-> Snap(r).secrets,
     model |-> Snap(r).fp]
InputsOf(r, leaf) ==
    [leaf |-> leaf, policy |-> Snap(r).policy, secrets |-> Snap(r).secrets,
     model |-> Snap(r).recognizer]

Goto(r, step) == req' = [req EXCEPT ![r].pc = step]

\* prewarm_batch returns: the mask walk follows.
WithoutWarm(r) ==
    [req[r] EXCEPT !.pc = "policy", !.warming = FALSE, !.batch = {}, !.snap = NoSnapshot]

\* mask returns Ok for the leaf of this call, spliced from dets.
WithLeaf(r, dets) ==
    LET todo == req[r].todo \ req[r].batch
    IN  [req[r] EXCEPT !.pc = IF todo = {} THEN "done" ELSE "policy",
                       !.todo = todo, !.batch = {}, !.snap = NoSnapshot,
                       !.out = @ \cup {[dets |-> dets, on |-> req[r].snap.on]}]

\* mask returns Err: mask_body answers 500 and nothing is forwarded.
WithRefusal(r) == [req[r] EXCEPT !.pc = "refused", !.batch = {}, !.snap = NoSnapshot]

Becomes(r, state) == req' = [req EXCEPT ![r] = state]

\* Intake: secrets_gate, then mask_body, on the executor or on a blocking thread.
Start(r) ==
    /\ At(r, "idle")
    /\ ready
    /\ Becomes(r, [req[r] EXCEPT !.pc = "prewarm"])
    /\ UNCHANGED <<policyVars, secretVars, ml, cacheVars, gate, loads, adminVars>>
    /\ Observe

\* prewarm_request: only a typed body is prewarmed, and only with a live model.
Prewarm(r) ==
    /\ At(r, "prewarm")
    /\ \E typed \in BOOLEAN :
         Becomes(r, [req[r] EXCEPT !.pc = "policy",
                                   !.warming = typed /\ ml.status = "Ready"])
    /\ UNCHANGED <<policyVars, secretVars, ml, cacheVars, gate, loads, adminVars>>
    /\ Observe

\* The policy snapshot that opens prewarm_batch and mask.
ReadPolicy(r) ==
    /\ At(r, "policy")
    /\ IF Warming(r) /\ ~enabled
       THEN Becomes(r, WithoutWarm(r))
       ELSE \E batch \in IF Warming(r) THEN {req[r].todo} ELSE {{l} : l \in req[r].todo} :
              Becomes(r, [req[r] EXCEPT !.pc = "secrets", !.batch = batch,
                                        !.snap.policy = config.policy,
                                        !.snap.on = enabled])
    /\ UNCHANGED <<policyVars, secretVars, ml, cacheVars, gate, loads, adminVars>>
    /\ Observe

\* The secrets snapshot.  With the master switch off mask is then a
\* passthrough that still masks the registered secrets.
ReadSecrets(r) ==
    /\ At(r, "secrets")
    /\ LET dets(l) == [leaf |-> l, policy |-> Snap(r).policy, secrets |-> secrets,
                       model |-> NoModel]
       IN  IF Snap(r).on
           THEN Becomes(r, [req[r] EXCEPT !.pc = "ml", !.snap.secrets = secrets])
           ELSE \E l \in req[r].batch : Becomes(r, WithLeaf(r, dets(l)))
    /\ UNCHANGED <<policyVars, secretVars, ml, cacheVars, gate, loads, adminVars>>
    /\ Observe

\* ml_for_mask: recognizer, fingerprint, generation and refusal in one read.
ReadMl(r) ==
    /\ At(r, "ml")
    /\ Becomes(r,
         CASE Warming(r) /\ (Refuses(ml) \/ Active(ml) = NoModel) -> WithoutWarm(r)
           [] ~Warming(r) /\ Refuses(ml) -> WithRefusal(r)
           [] OTHER -> [req[r] EXCEPT !.pc = "lookup",
                                      !.snap.recognizer = Active(ml),
                                      !.snap.fp = ml.fp,
                                      !.snap.generation = ml.generation])
    /\ UNCHANGED <<policyVars, secretVars, ml, cacheVars, gate, loads, adminVars>>
    /\ Observe

Misses(r) == {l \in req[r].batch : ~Hit(KeyOf(r, l))}

\* A cache lookup of the call's leaves: everything hit, or go on to step.
LookUp(r, step) ==
    IF Misses(r) # {} THEN Becomes(r, [req[r] EXCEPT !.pc = step, !.batch = Misses(r)])
    ELSE IF Warming(r) THEN Becomes(r, WithoutWarm(r))
    ELSE \E l \in req[r].batch : \E e \in Cached(KeyOf(r, l)) :
           Becomes(r, WithLeaf(r, e.dets))

\* The first lookup: a miss takes the ML gate only if a model will run.
Lookup(r) ==
    /\ At(r, "lookup")
    /\ LookUp(r, IF Snap(r).recognizer = NoModel THEN "detect" ELSE "gate")
    /\ UNCHANGED <<policyVars, secretVars, ml, cacheVars, gate, loads, adminVars>>
    /\ Observe

\* ml_gate.lock(), a poisoned guard recovered.
TakeGate(r) ==
    /\ At(r, "gate")
    /\ gate = NoRequest
    /\ gate' = r
    /\ Goto(r, "recheck")
    /\ UNCHANGED <<policyVars, secretVars, ml, cacheVars, loads, adminVars>>
    /\ Observe

\* The re-check under the gate; a hit drops the guard.
Recheck(r) ==
    /\ At(r, "recheck")
    /\ LookUp(r, "detect")
    /\ gate' = IF Misses(r) # {} THEN gate ELSE NoRequest
    /\ UNCHANGED <<policyVars, secretVars, ml, cacheVars, loads, adminVars>>
    /\ Observe

\* The call releases ml_gate if it runs a model.
Release(r) == gate' = IF Snap(r).recognizer = NoModel THEN gate ELSE NoRequest

\* run_detection succeeds.  mask clears the runtime-failure note of its own
\* recognizer; prewarm_batch leaves the note alone.
DetectOk(r) ==
    /\ At(r, "detect")
    /\ Goto(r, "insert")
    /\ ml' = IF Warming(r) \/ Snap(r).recognizer = NoModel THEN ml
             ELSE ClearFailure(ml, Snap(r).generation)
    /\ UNCHANGED <<policyVars, secretVars, cacheVars, gate, loads, adminVars>>
    /\ Observe

\* run_detection fails: mask notes the failure and refuses, prewarm_batch only
\* gives up.  Nothing is cached.
DetectErr(r) ==
    /\ At(r, "detect")
    /\ Becomes(r, IF Warming(r) THEN WithoutWarm(r) ELSE WithRefusal(r))
    /\ ml' = IF Warming(r) \/ Snap(r).recognizer = NoModel THEN ml
             ELSE NoteFailure(ml, Snap(r).generation)
    /\ Release(r)
    /\ UNCHANGED <<policyVars, secretVars, cacheVars, loads, adminVars>>
    /\ Observe

\* Mutant: a panic does not give the gate back.
DetectPanicKeepsGate(r) ==
    /\ At(r, "detect")
    /\ Snap(r).recognizer # NoModel
    /\ Becomes(r, WithRefusal(r))
    /\ UNCHANGED <<policyVars, secretVars, ml, cacheVars, gate, loads, adminVars>>
    /\ Observe

\* A recognizer panics: the guard is dropped poisoned, the task's JoinError
\* (or the unwound handler) refuses the request.
DetectPanic(r) ==
    /\ At(r, "detect")
    /\ Snap(r).recognizer # NoModel
    /\ Becomes(r, WithRefusal(r))
    /\ Release(r)
    /\ UNCHANGED <<policyVars, secretVars, ml, cacheVars, loads, adminVars>>
    /\ Observe

\* Cache one detection list.  mask then splices its leaf; prewarm_batch goes
\* on to the next pending leaf and returns after the last.
InsertLeaf(r) ==
    /\ At(r, "insert")
    /\ \E l \in req[r].batch :
         /\ Insert(KeyOf(r, l), InputsOf(r, l))
         /\ CASE ~Warming(r) ->
                   Becomes(r, WithLeaf(r, InputsOf(r, l))) /\ Release(r)
              [] Warming(r) /\ req[r].batch = {l} ->
                   Becomes(r, WithoutWarm(r)) /\ Release(r)
              [] OTHER ->
                   Becomes(r, [req[r] EXCEPT !.batch = @ \ {l}]) /\ UNCHANGED gate
    /\ UNCHANGED <<policyVars, secretVars, ml, loads, adminVars>>
    /\ Observe

RequestStep(r) ==
    \/ Start(r) \/ Prewarm(r)
    \/ ReadPolicy(r) \/ ReadSecrets(r) \/ ReadMl(r)
    \/ Lookup(r) \/ TakeGate(r) \/ Recheck(r)
    \/ DetectOk(r) \/ DetectErr(r) \/ DetectPanic(r) \/ InsertLeaf(r)

-----------------------------------------------------------------------------
(* The control plane.  config_control (and ml_control) serialise it, so at *)
(* most one operation is between its critical sections.                    *)

Quiet == [step |-> "none", by |-> "put"]

Begin(operation) ==
    /\ admin = Quiet
    /\ ops < MaxOps
    /\ admin' = operation
    /\ ops' = ops + 1
    /\ UNCHANGED <<enabled, secretVars, ml, cacheVars, gate, loads, req>>

\* put_config and reload: the new policy keeps the live-owned switches.
PutConfig ==
    /\ Begin([step |-> "cap", by |-> "put"])
    /\ config' \in Configs \ {config}
    /\ mlOn' = (ml.status # "Disabled")
    /\ Observe

\* ml_enable
MlEnable ==
    /\ Begin([step |-> "cap", by |-> "enable"])
    /\ mlOn' = TRUE
    /\ UNCHANGED config
    /\ Observe

\* ml_disable
MlDisable ==
    /\ Begin([step |-> "cap", by |-> "disable"])
    /\ mlOn' = FALSE
    /\ UNCHANGED config
    /\ Observe

\* set_enabled, a single swap of the policy
ToggleEnabled ==
    /\ admin = Quiet
    /\ ops < MaxOps
    /\ ops' = ops + 1
    /\ enabled' = ~enabled
    /\ UNCHANGED <<config, mlOn, secretVars, ml, cacheVars, gate, loads, admin, req>>
    /\ Observe

\* The tail of set_config.  ml_disable goes straight to the slot; the others
\* reconcile it.
ApplyCap ==
    /\ admin.step = "cap"
    /\ SetCap(config.cap)
    /\ admin' = [admin EXCEPT !.step = IF admin.by = "disable" THEN "disable"
                                       ELSE "reconcile"]
    /\ UNCHANGED <<policyVars, secretVars, ml, gate, loads, ops, req>>
    /\ Observe

\* reconcile_ml decides from a snapshot of the slot.  Only an explicit enable
\* retries a failed load.
NeedsLoad(s, model, retry) ==
    CASE s.status = "Disabled" -> TRUE
      [] s.status = "Failed"   -> retry \/ s.desired # model
      [] OTHER                 -> s.desired # model

Reconcile ==
    /\ admin.step = "reconcile"
    /\ admin' =
         CASE ~mlOn /\ ml.status = "Disabled" -> Quiet
           [] ~mlOn /\ ml.status # "Disabled" -> [admin EXCEPT !.step = "disable"]
           [] mlOn -> [admin EXCEPT !.step =
                         IF NeedsLoad(ml, config.model, admin.by = "enable")
                         THEN "load" ELSE "update"]
    /\ UNCHANGED <<policyVars, secretVars, ml, cacheVars, gate, loads, ops, req>>
    /\ Observe

\* spawn_ml_load: ml_begin_load, then a background task.
SpawnLoad ==
    /\ admin.step = "load"
    /\ admin' = Quiet
    /\ ml' = BeginLoad(ml, config.model, config.required)
    /\ loads' = loads \cup {[generation |-> ml'.generation, model |-> config.model]}
    /\ UNCHANGED <<policyVars, secretVars, cacheVars, gate, ops, req>>
    /\ Observe

ApplyRequired ==
    /\ admin.step = "update"
    /\ admin' = Quiet
    /\ ml' = UpdateRequired(ml, config.required)
    /\ UNCHANGED <<policyVars, secretVars, cacheVars, gate, loads, ops, req>>
    /\ Observe

ApplyDisable ==
    /\ admin.step = "disable"
    /\ admin' = Quiet
    /\ ml' = Disable(ml)
    /\ UNCHANGED <<policyVars, secretVars, cacheVars, gate, loads, ops, req>>
    /\ Observe

-----------------------------------------------------------------------------
(* Background tasks.                                                       *)

\* A load task ends: the recognizer is built, or building it fails or panics.
FinishLoad(load) ==
    /\ load \in loads
    /\ loads' = loads \ {load}
    /\ ml' \in {SetReady(ml, load), SetFailed(ml, load)}
    /\ UNCHANGED <<policyVars, secretVars, cacheVars, gate, adminVars, req>>
    /\ Observe

\* resolve_and_install replaces the rule set; a rejected set leaves the old one.
InstallSecrets ==
    /\ resolver = "resolving"
    /\ resolver' = "installed"
    /\ secrets' \in SecretSets
    /\ UNCHANGED <<policyVars, ready, ml, cacheVars, gate, loads, adminVars, req>>
    /\ Observe

\* The task opens the readiness gate if every required secret is installed.
OpenIntake ==
    /\ resolver = "installed"
    /\ resolver' = "ended"
    /\ ready' = (ready \/ secrets = "complete")
    /\ UNCHANGED <<policyVars, secrets, ml, cacheVars, gate, loads, adminVars, req>>
    /\ Observe

-----------------------------------------------------------------------------
(* The specification.                                                      *)

InitialRequest ==
    [pc |-> "idle", warming |-> FALSE, todo |-> Leaves,
     batch |-> {}, snap |-> NoSnapshot, out |-> {}]

\* The process serves once the engine is built, the admin-key rule installed
\* and, if configured, the first load begun.
Init ==
    /\ config = StartConfig
    /\ enabled \in BOOLEAN /\ mlOn \in BOOLEAN
    /\ secrets = "reserved"
    /\ ready = (SecretSpecs # "required")
    /\ resolver = IF SecretSpecs = "none" THEN "ended" ELSE "resolving"
    /\ IF mlOn
       THEN /\ ml = BeginLoad(InitialMl, config.model, config.required)
            /\ loads = {[generation |-> 1, model |-> config.model]}
       ELSE ml = InitialMl /\ loads = {}
    /\ cache = {} /\ cap = config.cap
    /\ gate = NoRequest
    /\ admin = Quiet /\ ops = 0
    /\ req = [r \in Requests |-> InitialRequest]
    /\ ever = [r \in Requests |-> Live]

Next ==
    \/ \E r \in Requests : RequestStep(r)
    \/ PutConfig \/ MlEnable \/ MlDisable \/ ToggleEnabled
    \/ ApplyCap \/ Reconcile \/ SpawnLoad \/ ApplyRequired \/ ApplyDisable
    \/ \E load \in loads : FinishLoad(load)
    \/ InstallSecrets \/ OpenIntake

Spec == Init /\ [][Next]_vars

\* Fairness: a blocking thread or the executor runs every started walk, a
\* recognizer returns or fails, and a free mutex is handed out.
FairSpec == Spec /\ \A r \in Requests : WF_vars(RequestStep(r))

-----------------------------------------------------------------------------
(* Properties.                                                             *)

\* Every detection spliced into a request was computed under inputs that were
\* live at some moment of that request: whatever the cache or a slow model
\* supplied, no policy, secret set or model retired before the request began
\* decides what it sends (CacheKey, DetectionCache, mask).
MaskedUnderLiveInputs ==
    \A r \in Requests : \A o \in req[r].out :
        /\ o.dets.policy \in ever[r].policy
        /\ o.dets.secrets \in ever[r].secrets
        /\ o.on => o.dets.model \in ever[r].model
        /\ o.on \in ever[r].on

\* A request is never masked with less than it asks for.  With ML required
\* throughout it, no leaf is spliced from regex-only detections, whatever the
\* model slot did meanwhile (ml_for_mask, "refusing to send text with regex-only
\* scanning"); and while a configured secret is required, nothing is masked
\* without the full set of required secrets (secrets_gate, secrets_ready).
NeverDegraded ==
    \A r \in Requests : \A o \in req[r].out :
        /\ ever[r].strict => o.dets.model # NoModel
        /\ SecretSpecs = "required" => o.dets.secrets = "complete"

\* The ML slot agrees with itself: a Ready slot holds the desired model under
\* its own fingerprint, a Loading slot has the load that will settle it, and
\* no superseded load ever installs (generation, ml_set_ready, ml_set_failed).
\* A reported outage is one of the recognizer that is serving: a slow failure
\* never marks a slot reloaded or disabled meanwhile (ml_note_runtime_failure).
\* Between control-plane operations slot and cache are what the live
\* configuration asks for (set_config, reconcile_ml, ml_control).  The cache
\* stays within its capacity (TypeOK), and under the ML gate no leaf is scanned
\* that it already answers (the re-check of mask and prewarm_batch:
\* "single-flight").
EngineConsistent ==
    /\ TypeOK
    /\ \A r \in Requests : At(r, "detect") /\ gate = r =>
           \A l \in req[r].batch : ~Hit(KeyOf(r, l))
    /\ ml.noted => ml.status = "Ready"
    /\ ml.fp = Active(ml)
    /\ ml.status = "Ready" => ml.recognizer = ml.desired /\ ml.desired # NoModel
    /\ ml.status = "Loading" <=>
         [generation |-> ml.generation, model |-> ml.desired] \in loads
    /\ admin = Quiet =>
          /\ mlOn <=> ml.status # "Disabled"
          /\ mlOn => ml.desired = config.model /\ ml.required = config.required
          /\ cap = config.cap

\* Every request that starts is answered: masked or refused.  No failure,
\* panic or reload leaves the ML gate taken (ml_gate).
RequestsEnd ==
    \A r \in Requests : At(r, "prewarm") ~> (At(r, "done") \/ At(r, "refused"))

=============================================================================

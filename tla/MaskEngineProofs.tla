-------------------------- MODULE MaskEngineProofs --------------------------
(***************************************************************************)
(* For any requests, leaves, configurations and models: the masking engine *)
(* is consistent, masks every leaf under inputs that were live during its  *)
(* request, and never with less than the request asks for.                 *)
(*                                                                         *)
(* The argument has five inductive invariants, each using the ones before: *)
(* TypeInv (types, the cache bound, one generation per operation), SlotInv *)
(* (the model slot and the control plane), GateInv (the ML gate and the    *)
(* cache keys), HistoryInv (snapshots against what was live) and IntakeInv *)
(* (the readiness gate).                                                   *)
(***************************************************************************)
EXTENDS MaskEngine, FiniteSetTheorems, TLAPS

\* Types, a finite cache, and at most one new generation per operation.
TypeInv ==
    /\ TypeOK
    /\ IsFiniteSet(cache)
    /\ ml.generation <= ops + (IF admin = Quiet THEN 1 ELSE 0)

(***************************************************************************)
(* DetectionCache::insert evicts until there is room for the new entry.    *)
(***************************************************************************)
LEMMA InsertBounded ==
    ASSUME IsFiniteSet(cache), cap \in Nat, Cardinality(cache) <= cap,
           NEW key, NEW dets, Insert(key, dets)
    PROVE  /\ IsFiniteSet(cache') /\ cap' = cap /\ Cardinality(cache') <= cap'
           /\ cache' \subseteq cache \cup {[key |-> key, dets |-> dets]}
<1>1. CASE cap = 0 \/ <<dets.leaf, dets.policy>> \in HugeResults
  BY <1>1 DEF Insert, cacheVars
<1>2. CASE ~(cap = 0 \/ <<dets.leaf, dets.policy>> \in HugeResults)
  <2> DEFINE others == cache \ Cached(key)
             new == [key |-> key, dets |-> dets]
  <2>1. PICK kept \in SUBSET others :
             /\ Cardinality(kept) = IF Cardinality(others) < cap
                                    THEN Cardinality(others) ELSE cap - 1
             /\ cache' = kept \cup {new}
    BY <1>2 DEF Insert
  <2>2. cap' = cap /\ cap # 0
    BY <1>2 DEF Insert
  <2>3. IsFiniteSet(others) /\ IsFiniteSet(kept)
    BY <2>1, FS_Subset DEF Cached
  <2>4. Cardinality(kept) \in Nat /\ Cardinality(kept) <= cap - 1
    <3>1. Cardinality(kept) \in Nat /\ Cardinality(others) \in Nat
      BY <2>3, FS_CardinalityType
    <3> HIDE DEF others
    <3> QED
      BY <2>1, <2>2, <3>1
  <2> HIDE DEF new, others
  <2>5. IsFiniteSet(cache') /\ Cardinality(cache') <= Cardinality(kept) + 1
    <3>1. /\ IsFiniteSet(kept \cup {new})
          /\ Cardinality(kept \cup {new}) = IF new \in kept THEN Cardinality(kept)
                                            ELSE Cardinality(kept) + 1
      BY <2>3, FS_AddElement
    <3> QED
      BY <2>1, <2>4, <3>1
  <2>6. Cardinality(cache') <= cap
    BY <2>2, <2>4, <2>5, FS_CardinalityType
  <2> QED
    BY <2>1, <2>2, <2>5, <2>6 DEF new, others, Cached
<1>3. QED
  BY <1>1, <1>2

(***************************************************************************)
(* DetectionCache::set_cap evicts down to the new capacity.                *)
(***************************************************************************)
LEMMA SetCapBounded ==
    ASSUME IsFiniteSet(cache), NEW n \in Nat, SetCap(n)
    PROVE  /\ IsFiniteSet(cache') /\ cap' = n /\ Cardinality(cache') <= cap'
           /\ cache' \subseteq cache
<1>1. PICK kept \in SUBSET cache :
           /\ Cardinality(kept) = IF Cardinality(cache) < n THEN Cardinality(cache) ELSE n
           /\ cache' = kept
  BY DEF SetCap
<1>2. IsFiniteSet(kept) /\ Cardinality(cache) \in Nat
  BY <1>1, FS_Subset, FS_CardinalityType
<1>3. Cardinality(kept) <= n
  BY <1>1, <1>2
<1>4. QED
  BY <1>1, <1>2, <1>3 DEF SetCap

(***************************************************************************)
(* What a configuration holds.                                             *)
(***************************************************************************)
LEMMA ConfigFields ==
    ASSUME config \in Configs \cup {StartConfig}
    PROVE  /\ config.policy \in Nat /\ config.cap \in Nat
           /\ config.model \in Models /\ config.required \in BOOLEAN
BY ConfigAssumption DEF Config

(***************************************************************************)
(* Every engine call on the ML slot leaves a slot of the right type, and   *)
(* only a begun load and a disable advance its generation.                 *)
(***************************************************************************)
LEMMA SlotTypes ==
    ASSUME NEW s \in MlRuntime
    PROVE  /\ \A model \in Models, required \in BOOLEAN :
                  s.generation + 1 \in Generation =>
                      /\ BeginLoad(s, model, required) \in MlRuntime
                      /\ BeginLoad(s, model, required).generation = s.generation + 1
           /\ s.generation + 1 \in Generation =>
                  /\ Disable(s) \in MlRuntime
                  /\ Disable(s).generation = s.generation + 1
           /\ \A load \in [generation : Generation, model : Models] :
                  /\ SetReady(s, load) \in MlRuntime
                  /\ SetReady(s, load).generation = s.generation
                  /\ SetFailed(s, load) \in MlRuntime
                  /\ SetFailed(s, load).generation = s.generation
           /\ \A required \in BOOLEAN :
                  /\ UpdateRequired(s, required) \in MlRuntime
                  /\ UpdateRequired(s, required).generation = s.generation
           /\ \A g \in Generation :
                  /\ NoteFailure(s, g) \in MlRuntime
                  /\ NoteFailure(s, g).generation = s.generation
                  /\ ClearFailure(s, g) \in MlRuntime
                  /\ ClearFailure(s, g).generation = s.generation
<1> USE DEF MlRuntime, MlStatus, MaybeModel
<1>1. ASSUME NEW model \in Models, NEW required \in BOOLEAN,
             s.generation + 1 \in Generation
      PROVE  /\ BeginLoad(s, model, required) \in MlRuntime
             /\ BeginLoad(s, model, required).generation = s.generation + 1
  BY <1>1 DEF BeginLoad, WithFp
<1>2. ASSUME s.generation + 1 \in Generation
      PROVE  /\ Disable(s) \in MlRuntime
             /\ Disable(s).generation = s.generation + 1
  BY <1>2 DEF Disable, WithFp
<1>3. ASSUME NEW load \in [generation : Generation, model : Models]
      PROVE  /\ SetReady(s, load) \in MlRuntime
             /\ SetReady(s, load).generation = s.generation
             /\ SetFailed(s, load) \in MlRuntime
             /\ SetFailed(s, load).generation = s.generation
  BY DEF SetReady, SetFailed, WithFp
<1>4. ASSUME NEW required \in BOOLEAN
      PROVE  /\ UpdateRequired(s, required) \in MlRuntime
             /\ UpdateRequired(s, required).generation = s.generation
  BY DEF UpdateRequired
<1>5. ASSUME NEW g \in Generation
      PROVE  /\ NoteFailure(s, g) \in MlRuntime
             /\ NoteFailure(s, g).generation = s.generation
             /\ ClearFailure(s, g) \in MlRuntime
             /\ ClearFailure(s, g).generation = s.generation
  BY DEF NoteFailure, ClearFailure
<1>6. QED
  BY <1>1, <1>2, <1>3, <1>4, <1>5

(***************************************************************************)
(* The three ways a call of mask or prewarm_batch returns.                 *)
(***************************************************************************)
LEMMA Returns ==
    ASSUME TypeOK, NEW r \in Requests
    PROVE  /\ WithoutWarm(r) \in Request
           /\ WithRefusal(r) \in Request
           /\ \A dets \in CacheKey : WithLeaf(r, dets) \in Request
<1> USE DEF Request, Steps
<1>1. req[r] \in Request /\ NoSnapshot \in Snapshot
  <2>1. req[r] \in Request
    BY DEF TypeOK
  <2>2. NoSnapshot \in Snapshot
    BY BoundAssumption DEF NoSnapshot, Snapshot, SecretSets, MaybeModel, Generation
  <2>3. QED
    BY <2>1, <2>2
<1>2. WithoutWarm(r) \in Request /\ WithRefusal(r) \in Request
  BY <1>1 DEF WithoutWarm, WithRefusal
<1>3. ASSUME NEW dets \in CacheKey
      PROVE  WithLeaf(r, dets) \in Request
  <2> DEFINE Splice == [dets : CacheKey, on : BOOLEAN]
             new == [dets |-> dets, on |-> req[r].snap.on]
             todo == req[r].todo \ req[r].batch
             step == IF todo = {} THEN "done" ELSE "policy"
  <2>1. new \in Splice
    BY <1>1 DEF Snapshot
  <2>2. step \in Steps /\ todo \in SUBSET Leaves
    BY <1>1
  <2>3. WithLeaf(r, dets) = [req[r] EXCEPT !.pc = step, !.todo = todo, !.batch = {},
                                           !.snap = NoSnapshot, !.out = @ \cup {new}]
    BY DEF WithLeaf
  <2> HIDE DEF Splice, new, todo, step
  <2>4. req[r].out \cup {new} \in SUBSET Splice
    BY <1>1, <2>1 DEF Splice
  <2>5. QED
    BY <1>1, <2>2, <2>3, <2>4 DEF Splice
<1>4. QED
  BY <1>2, <1>3

(***************************************************************************)
(* Every variable keeps its type, the cache stays within its capacity and  *)
(* finite, and a control-plane operation advances the generation once.     *)
(***************************************************************************)
LEMMA TypeInvHolds == Spec => []TypeInv
<1> USE ConfigAssumption, BoundAssumption
<1>1. Init => TypeInv
  <2> SUFFICES ASSUME Init PROVE TypeInv
    OBVIOUS
  <2>1. config.cap \in Nat /\ config.model \in Models /\ config.required \in BOOLEAN
    BY DEF Init, Config
  <2>2. InitialRequest \in Request
    BY DEF InitialRequest, Request, Steps, NoSnapshot, Snapshot, SecretSets, MaybeModel,
           Generation
  <2>3. InitialMl \in MlRuntime /\ InitialMl.generation = 0
    BY DEF InitialMl, MlRuntime, MlStatus, MaybeModel, Generation
  <2>4. /\ ml \in MlRuntime /\ ml.generation <= 1
        /\ loads \subseteq [generation : Generation, model : Models]
    <3>1. 1 \in Generation
      BY DEF Generation
    <3>2. CASE mlOn
      BY <2>1, <2>3, <3>1, <3>2, SlotTypes DEF Init
    <3>3. CASE ~mlOn
      BY <2>3, <3>3 DEF Init
    <3>4. QED
      BY <3>2, <3>3
  <2>5. IsFiniteSet(cache) /\ Cardinality(cache) = 0
    BY FS_EmptySet DEF Init
  <2>6. ml.generation <= ops + (IF admin = Quiet THEN 1 ELSE 0)
    BY <2>4 DEF Init
  <2>7. QED
    BY <2>1, <2>2, <2>4, <2>5, <2>6, SpecsAssumption
       DEF Init, TypeInv, TypeOK, SecretSets, Operation, Quiet
<1>2. TypeInv /\ [Next]_vars => TypeInv'
  <2> SUFFICES ASSUME TypeInv, [Next]_vars
               PROVE  TypeInv'
    OBVIOUS
  <2> DEFINE Engine == /\ config' \in Configs \cup {StartConfig}
                       /\ enabled' \in BOOLEAN /\ mlOn' \in BOOLEAN
                       /\ secrets' \in SecretSets
                       /\ ready' \in BOOLEAN
                       /\ resolver' \in {"resolving", "installed", "ended"}
             Control == /\ loads' \subseteq [generation : Generation, model : Models]
                        /\ admin' \in Operation
                        /\ ops' \in 0 .. MaxOps
             Slot == ml' \in MlRuntime /\ ml'.generation = ml.generation
             Cache == /\ cache' \subseteq [key : CacheKey, dets : CacheKey]
                      /\ cap' \in Nat /\ Cardinality(cache') <= cap'
                      /\ IsFiniteSet(cache')
  <2>split. Engine /\ Control /\ Cache /\ ml' \in MlRuntime
            /\ ml'.generation <= ops' + (IF admin' = Quiet THEN 1 ELSE 0)
            /\ gate' \in Requests \cup {NoRequest} /\ req' \in [Requests -> Request]
            => TypeInv'
    BY DEF TypeInv, TypeOK
  <2>type. TypeOK
    BY DEF TypeInv
  <2>key. \A r \in Requests : \A l \in req[r].batch :
              KeyOf(r, l) \in CacheKey /\ InputsOf(r, l) \in CacheKey
    <3> TAKE r \in Requests
    <3> TAKE l \in req[r].batch
    <3>1. req[r] \in Request
      BY <2>type DEF TypeOK
    <3>2. QED
      BY <3>1 DEF KeyOf, InputsOf, Snap, CacheKey, Request, Snapshot
  <2>policy. UNCHANGED <<policyVars, secretVars>> => Engine
    BY <2>type DEF TypeOK, policyVars, secretVars
  <2>control. UNCHANGED <<loads, adminVars>> => Control
    BY <2>type DEF TypeOK, adminVars
  <2>cache. UNCHANGED cacheVars => Cache
    BY DEF TypeInv, TypeOK, cacheVars
  <2>slot. UNCHANGED ml => Slot
    BY <2>type DEF TypeOK
  <2>req. \A r \in Requests : \A q \in Request : Becomes(r, q) => req' \in [Requests -> Request]
    BY <2>type DEF TypeOK, Becomes
  <2>frame. Slot /\ UNCHANGED adminVars =>
              ml' \in MlRuntime /\ ml'.generation <= ops' + (IF admin' = Quiet THEN 1 ELSE 0)
    BY DEF TypeInv, adminVars
  <2>request. ASSUME NEW r \in Requests, RequestStep(r)
              PROVE  TypeInv'
    <3>q. req[r] \in Request /\ gate \in Requests \cup {NoRequest}
      BY <2>type DEF TypeOK
    <3>leaf. \A dets \in CacheKey : WithLeaf(r, dets) \in Request
      BY <2>type, Returns
    <3>end. WithoutWarm(r) \in Request /\ WithRefusal(r) \in Request
      BY <2>type, Returns
    <3> SUFFICES /\ Engine /\ Control /\ Cache /\ Slot /\ UNCHANGED adminVars
                 /\ gate' \in Requests \cup {NoRequest} /\ req' \in [Requests -> Request]
      BY <2>split, <2>frame
    <3> HIDE DEF Engine, Control, Cache, Slot
    <3>look. ASSUME NEW step \in Steps, LookUp(r, step)
             PROVE  req' \in [Requests -> Request]
      <4>1. [req[r] EXCEPT !.pc = step, !.batch = Misses(r)] \in Request
        BY <3>q DEF Request, Misses
      <4>2. \A l \in req[r].batch : \A e \in Cached(KeyOf(r, l)) : e.dets \in CacheKey
        BY <2>type DEF TypeOK, Cached
      <4>3. QED
        BY <2>req, <3>look, <3>leaf, <3>end, <4>1, <4>2 DEF LookUp
    <3>1. CASE Start(r)
      <4>1. [req[r] EXCEPT !.pc = "prewarm"] \in Request
        BY <3>q DEF Request, Steps
      <4>2. QED
        BY <2>policy, <2>control, <2>cache, <2>slot, <2>req, <3>q, <3>1, <4>1
           DEF Start, adminVars
    <3>2. CASE Prewarm(r)
      <4>1. \A warm \in BOOLEAN :
              [req[r] EXCEPT !.pc = "policy", !.warming = warm] \in Request
        BY <3>q DEF Request, Steps
      <4>2. PICK typed \in BOOLEAN :
              Becomes(r, [req[r] EXCEPT !.pc = "policy",
                                        !.warming = typed /\ ml.status = "Ready"])
        BY <3>2 DEF Prewarm
      <4>3. (typed /\ ml.status = "Ready") \in BOOLEAN
        OBVIOUS
      <4>4. QED
        BY <2>policy, <2>control, <2>cache, <2>slot, <2>req, <3>q, <3>2, <4>1, <4>2, <4>3
           DEF Prewarm, adminVars
    <3>3. CASE ReadPolicy(r)
      <4>1. \A batch \in SUBSET Leaves :
              [req[r] EXCEPT !.pc = "secrets", !.batch = batch,
                             !.snap.policy = config.policy, !.snap.on = enabled]
                \in Request
        BY <2>type, <3>q, ConfigFields DEF TypeOK, Request, Steps, Snapshot
      <4>2. req[r].todo \in SUBSET Leaves
        BY <3>q DEF Request
      <4>3. req' \in [Requests -> Request]
        BY <2>req, <3>end, <3>3, <4>1, <4>2 DEF ReadPolicy
      <4>4. QED
        BY <2>policy, <2>control, <2>cache, <2>slot, <3>q, <3>3, <4>3
           DEF ReadPolicy, adminVars
    <3>4. CASE ReadSecrets(r)
      <4>1. [req[r] EXCEPT !.pc = "ml", !.snap.secrets = secrets] \in Request
        BY <2>type, <3>q DEF TypeOK, Request, Steps, Snapshot
      <4>2. \A l \in req[r].batch :
              [leaf |-> l, policy |-> Snap(r).policy, secrets |-> secrets,
               model |-> NoModel] \in CacheKey
        BY <2>type, <3>q DEF TypeOK, Request, Snapshot, Snap, CacheKey, MaybeModel
      <4>3. req' \in [Requests -> Request]
        BY <2>req, <3>leaf, <3>4, <4>1, <4>2 DEF ReadSecrets
      <4>4. QED
        BY <2>policy, <2>control, <2>cache, <2>slot, <3>q, <3>4, <4>3
           DEF ReadSecrets, adminVars
    <3>5. CASE ReadMl(r)
      <4>1. [req[r] EXCEPT !.pc = "lookup", !.snap.recognizer = Active(ml),
                           !.snap.fp = ml.fp, !.snap.generation = ml.generation]
              \in Request
        BY <2>type, <3>q
           DEF TypeOK, Request, Steps, Snapshot, Active, MlRuntime, MaybeModel
      <4>2. req' \in [Requests -> Request]
        BY <2>req, <3>end, <3>5, <4>1 DEF ReadMl
      <4>3. QED
        BY <2>policy, <2>control, <2>cache, <2>slot, <3>q, <3>5, <4>2
           DEF ReadMl, adminVars
    <3>6. CASE Lookup(r)
      BY <2>policy, <2>control, <2>cache, <2>slot, <3>q, <3>look, <3>6
         DEF Lookup, adminVars, Steps
    <3>7. CASE TakeGate(r)
      BY <2>type, <2>policy, <2>control, <2>cache, <2>slot, <3>q, <3>7
         DEF TypeOK, TakeGate, Goto, Request, Steps, adminVars
    <3>8. CASE Recheck(r)
      BY <2>policy, <2>control, <2>cache, <2>slot, <3>q, <3>look, <3>8
         DEF Recheck, adminVars, Steps
    <3>9. CASE DetectOk(r)
      <4>1. Slot
        BY <2>type, <2>slot, <3>q, <3>9, SlotTypes
           DEF Slot, TypeOK, DetectOk, Request, Snapshot, Snap
      <4>2. QED
        BY <2>type, <2>policy, <2>control, <2>cache, <3>q, <3>9, <4>1
           DEF TypeOK, DetectOk, Goto, Request, Steps, adminVars
    <3>10. CASE DetectErr(r)
      <4>1. Slot
        BY <2>type, <2>slot, <3>q, <3>10, SlotTypes
           DEF Slot, TypeOK, DetectErr, Request, Snapshot, Snap
      <4>2. req' \in [Requests -> Request]
        BY <2>req, <3>end, <3>10 DEF DetectErr
      <4>3. QED
        BY <2>policy, <2>control, <2>cache, <3>q, <3>10, <4>1, <4>2
           DEF DetectErr, Release, adminVars
    <3>11. CASE DetectPanic(r)
      BY <2>policy, <2>control, <2>cache, <2>slot, <2>req, <3>q, <3>end, <3>11
         DEF DetectPanic, Release, adminVars
    <3>12. CASE InsertLeaf(r)
      <4>1. PICK l \in req[r].batch :
              /\ Insert(KeyOf(r, l), InputsOf(r, l))
              /\ CASE ~Warming(r) ->
                        Becomes(r, WithLeaf(r, InputsOf(r, l))) /\ Release(r)
                   [] Warming(r) /\ req[r].batch = {l} ->
                        Becomes(r, WithoutWarm(r)) /\ Release(r)
                   [] OTHER ->
                        Becomes(r, [req[r] EXCEPT !.batch = @ \ {l}]) /\ UNCHANGED gate
        BY <3>12 DEF InsertLeaf
      <4>2. KeyOf(r, l) \in CacheKey /\ InputsOf(r, l) \in CacheKey
        BY <2>key
      <4>3. Cache
        <5>1. /\ IsFiniteSet(cache') /\ cap' = cap /\ Cardinality(cache') <= cap'
              /\ cache' \subseteq cache \cup {[key |-> KeyOf(r, l), dets |-> InputsOf(r, l)]}
          BY <2>type, <4>1, InsertBounded DEF TypeInv, TypeOK
        <5>2. QED
          BY <2>type, <4>2, <5>1 DEF Cache, TypeOK
      <4>4. [req[r] EXCEPT !.batch = @ \ {l}] \in Request
        BY <3>q DEF Request
      <4>5. /\ req' \in [Requests -> Request]
            /\ gate' \in Requests \cup {NoRequest}
        BY <2>req, <3>q, <3>leaf, <3>end, <4>1, <4>2, <4>4 DEF Release
      <4>6. QED
        BY <2>policy, <2>control, <2>slot, <3>12, <4>3, <4>5 DEF InsertLeaf, adminVars
    <3>13. QED
      BY <2>request, <3>1, <3>2, <3>3, <3>4, <3>5, <3>6, <3>7, <3>8, <3>9, <3>10, <3>11,
         <3>12 DEF RequestStep
  <2>same. UNCHANGED <<gate, req>> =>
             gate' \in Requests \cup {NoRequest} /\ req' \in [Requests -> Request]
    BY <2>type DEF TypeOK
  <2>live. config' \in Configs \cup {StartConfig} /\ mlOn' \in BOOLEAN
           /\ UNCHANGED <<enabled, secretVars>> => Engine
    BY <2>type DEF TypeOK, secretVars
  <2>ops. admin \in Operation /\ ops \in 0 .. MaxOps /\ ml.generation \in Nat
    BY <2>type DEF TypeOK, MlRuntime, Generation
  <2>begin. ASSUME NEW op \in Operation, op.step # "none", Begin(op),
                   config' \in Configs \cup {StartConfig}, mlOn' \in BOOLEAN
            PROVE  TypeInv'
    <3>1. op # Quiet
      BY <2>begin DEF Quiet
    <3>2. ml' \in MlRuntime /\ ml'.generation <= ops' + (IF admin' = Quiet THEN 1 ELSE 0)
      BY <2>type, <2>ops, <2>begin, <3>1 DEF Begin, TypeInv, TypeOK
    <3>3. Control
      BY <2>type, <2>ops, <2>begin DEF Begin, TypeOK
    <3>4. QED
      BY <2>split, <2>live, <2>cache, <2>same, <2>begin, <3>2, <3>3 DEF Begin
  <2>put. CASE PutConfig
    BY <2>begin, <2>put DEF PutConfig, Operation
  <2>enable. CASE MlEnable
    BY <2>type, <2>begin, <2>enable DEF MlEnable, Operation, TypeOK
  <2>disable. CASE MlDisable
    BY <2>type, <2>begin, <2>disable DEF MlDisable, Operation, TypeOK
  <2>toggle. CASE ToggleEnabled
    <3>1. Engine
      BY <2>type, <2>toggle DEF ToggleEnabled, TypeOK, secretVars
    <3>2. Control /\ ml' \in MlRuntime
          /\ ml'.generation <= ops' + (IF admin' = Quiet THEN 1 ELSE 0)
      BY <2>type, <2>ops, <2>toggle DEF ToggleEnabled, TypeInv, TypeOK
    <3>3. QED
      BY <2>split, <2>cache, <2>same, <2>toggle, <3>1, <3>2 DEF ToggleEnabled
  <2>step. \A st \in {"disable", "reconcile", "load", "update"} :
              /\ [admin EXCEPT !.step = st] \in Operation
              /\ [admin EXCEPT !.step = st] # Quiet
    BY <2>ops DEF Operation, Quiet
  <2>applycap. CASE ApplyCap
    <3>1. Cache
      <4>1. IsFiniteSet(cache) /\ config.cap \in Nat
        BY <2>type, ConfigFields DEF TypeInv, TypeOK
      <4>2. /\ IsFiniteSet(cache') /\ cap' = config.cap /\ Cardinality(cache') <= cap'
            /\ cache' \subseteq cache
        BY <2>applycap, <4>1, SetCapBounded DEF ApplyCap
      <4>3. QED
        BY <2>type, <4>1, <4>2 DEF TypeOK
    <3>2. Control /\ admin # Quiet /\ admin' # Quiet
      BY <2>type, <2>ops, <2>step, <2>applycap DEF ApplyCap, Quiet, TypeOK
    <3>3. ml' \in MlRuntime /\ ml'.generation <= ops' + (IF admin' = Quiet THEN 1 ELSE 0)
      BY <2>type, <2>applycap, <3>2 DEF ApplyCap, TypeInv, TypeOK
    <3>4. QED
      BY <2>split, <2>policy, <2>same, <2>applycap, <3>1, <3>2, <3>3 DEF ApplyCap
  <2>reconcile. CASE Reconcile
    <3>1. admin' \in Operation /\ admin # Quiet
      BY <2>type, <2>ops, <2>step, <2>reconcile DEF Reconcile, Quiet, Operation, TypeOK
    <3>2. Control
      BY <2>type, <2>reconcile, <3>1 DEF Reconcile, TypeOK
    <3>3. ml' \in MlRuntime /\ ml'.generation <= ops' + (IF admin' = Quiet THEN 1 ELSE 0)
      BY <2>type, <2>ops, <2>reconcile, <3>1 DEF Reconcile, TypeInv, TypeOK
    <3>4. QED
      BY <2>split, <2>policy, <2>cache, <2>same, <2>reconcile, <3>2, <3>3 DEF Reconcile
  <2>next. admin.step # "none" => ml.generation + 1 \in Generation
    BY <2>ops DEF TypeInv, Quiet, Generation
  <2>quiet. Quiet \in Operation
    BY DEF Quiet, Operation
  <2>spawn. CASE SpawnLoad
    <3>1. /\ ml' \in MlRuntime /\ ml'.generation = ml.generation + 1
          /\ ml.generation + 1 \in Generation /\ config.model \in Models
      BY <2>type, <2>next, <2>spawn, SlotTypes, ConfigFields DEF SpawnLoad, TypeOK
    <3>2. Control
      BY <2>type, <2>quiet, <2>spawn, <3>1 DEF SpawnLoad, TypeOK
    <3>3. ml'.generation <= ops' + (IF admin' = Quiet THEN 1 ELSE 0)
      BY <2>ops, <2>spawn, <3>1 DEF SpawnLoad, TypeInv, Quiet
    <3>4. QED
      BY <2>split, <2>policy, <2>cache, <2>same, <2>spawn, <3>1, <3>2, <3>3 DEF SpawnLoad
  <2>update. CASE ApplyRequired
    <3>1. ml' \in MlRuntime /\ ml'.generation = ml.generation
      BY <2>type, <2>update, SlotTypes, ConfigFields DEF ApplyRequired, TypeOK
    <3>2. Control
      BY <2>type, <2>quiet, <2>update DEF ApplyRequired, TypeOK
    <3>3. ml'.generation <= ops' + (IF admin' = Quiet THEN 1 ELSE 0)
      BY <2>ops, <2>update, <3>1 DEF ApplyRequired, TypeInv, Quiet
    <3>4. QED
      BY <2>split, <2>policy, <2>cache, <2>same, <2>update, <3>1, <3>2, <3>3
         DEF ApplyRequired
  <2>off. CASE ApplyDisable
    <3>1. ml' \in MlRuntime /\ ml'.generation = ml.generation + 1
      BY <2>type, <2>next, <2>off, SlotTypes DEF ApplyDisable, TypeOK
    <3>2. Control
      BY <2>type, <2>quiet, <2>off DEF ApplyDisable, TypeOK
    <3>3. ml'.generation <= ops' + (IF admin' = Quiet THEN 1 ELSE 0)
      BY <2>ops, <2>off, <3>1 DEF ApplyDisable, TypeInv, Quiet
    <3>4. QED
      BY <2>split, <2>policy, <2>cache, <2>same, <2>off, <3>1, <3>2, <3>3
         DEF ApplyDisable
  <2>finish. ASSUME NEW load \in loads, FinishLoad(load)
             PROVE  TypeInv'
    <3>1. Slot
      BY <2>type, <2>finish, SlotTypes DEF FinishLoad, TypeOK
    <3>2. Control
      BY <2>type, <2>finish DEF FinishLoad, TypeOK, adminVars
    <3>3. QED
      BY <2>split, <2>frame, <2>policy, <2>cache, <2>same, <2>finish, <3>1, <3>2
         DEF FinishLoad
  <2>install. CASE InstallSecrets
    <3>1. Engine
      BY <2>type, <2>install DEF InstallSecrets, TypeOK, policyVars
    <3>2. QED
      BY <2>split, <2>frame, <2>slot, <2>control, <2>cache, <2>same, <2>install, <3>1
         DEF InstallSecrets, adminVars
  <2>open. CASE OpenIntake
    <3>1. Engine
      BY <2>type, <2>open DEF OpenIntake, TypeOK, policyVars
    <3>2. QED
      BY <2>split, <2>frame, <2>slot, <2>control, <2>cache, <2>same, <2>open, <3>1
         DEF OpenIntake, adminVars
  <2>idle. CASE UNCHANGED vars
    BY <2>split, <2>frame, <2>policy, <2>slot, <2>control, <2>cache, <2>same, <2>idle
       DEF vars, adminVars
  <2> QED
    BY <2>request, <2>put, <2>enable, <2>disable, <2>toggle, <2>applycap, <2>reconcile,
       <2>spawn, <2>update, <2>off, <2>finish, <2>install, <2>open, <2>idle DEF Next
<1> QED
  BY <1>1, <1>2, PTL DEF Spec

-----------------------------------------------------------------------------
(* How one step moves a request.                                           *)

AfterMl      == {"lookup", "gate", "recheck", "detect", "insert"}
AfterSecrets == {"ml"} \cup AfterMl
AfterPolicy  == {"secrets"} \cup AfterSecrets

\* A snapshot field is read once and then carried along until the call ends.
CarriesSnapshot(r) ==
    LET old == req[r]  new == req'[r]
    IN  /\ new.pc \in AfterPolicy =>
             \/ /\ old.pc \in AfterPolicy
                /\ new.snap.policy = old.snap.policy /\ new.snap.on = old.snap.on
             \/ /\ old.pc = "policy"
                /\ new.snap.policy = config.policy /\ new.snap.on = enabled
        /\ new.pc \in AfterSecrets =>
             \/ /\ old.pc \in AfterSecrets
                /\ new.snap.on = old.snap.on /\ new.snap.secrets = old.snap.secrets
             \/ old.pc = "secrets" /\ new.snap.on /\ new.snap.secrets = secrets
        /\ new.pc \in AfterMl =>
             \/ /\ old.pc \in AfterMl
                /\ new.snap.recognizer = old.snap.recognizer
                /\ new.snap.fp = old.snap.fp
                /\ new.snap.generation = old.snap.generation
             \/ /\ old.pc = "ml" /\ ~Refuses(ml)
                /\ new.snap.recognizer = Active(ml)
                /\ new.snap.fp = ml.fp
                /\ new.snap.generation = ml.generation

\* The detections a leaf may be spliced from.
Spliced(r, dets) ==
    \/ /\ req[r].pc = "secrets" /\ ~req[r].snap.on
       /\ dets.policy = req[r].snap.policy /\ dets.secrets = secrets
       /\ dets.model = NoModel
    \/ /\ req[r].pc \in AfterMl
       /\ \E l \in req[r].batch :
            dets = InputsOf(r, l) \/ \E e \in cache : e.key = KeyOf(r, l) /\ dets = e.dets

\* What is spliced joins what was spliced before; nothing else does.
SplicesOne(r) ==
    \/ req'[r].out = req[r].out
    \/ \E dets \in CacheKey :
         /\ Spliced(r, dets)
         /\ req'[r].out = req[r].out \cup {[dets |-> dets, on |-> req[r].snap.on]}

(***************************************************************************)
(* A step of one request leaves every other request alone, never returns   *)
(* to intake, enters only through the readiness gate, carries its          *)
(* snapshots, and splices at most one leaf.                                *)
(***************************************************************************)
LEMMA RequestMoves ==
    ASSUME TypeInv, NEW r \in Requests, RequestStep(r)
    PROVE  /\ \A q \in Requests \ {r} : req'[q] = req[q]
           /\ req'[r].pc # "idle"
           /\ req[r].pc = "idle" => ready
           /\ CarriesSnapshot(r)
           /\ SplicesOne(r)
           /\ UNCHANGED <<policyVars, secretVars, loads, adminVars, cap>>
<1> DEFINE Goal == /\ \A q \in Requests \ {r} : req'[q] = req[q]
                   /\ req'[r].pc # "idle"
                   /\ req[r].pc = "idle" => ready
                   /\ CarriesSnapshot(r)
                   /\ SplicesOne(r)
                   /\ UNCHANGED <<policyVars, secretVars, loads, adminVars, cap>>
<1> SUFFICES Goal
  OBVIOUS
<1>type. TypeOK /\ req \in [Requests -> Request] /\ req[r] \in Request
  BY DEF TypeInv, TypeOK
<1>becomes. \A q : Becomes(r, q) => req'[r] = q /\ \A p \in Requests \ {r} : req'[p] = req[p]
  BY <1>type DEF Becomes
<1>back. /\ WithoutWarm(r).pc = "policy" /\ WithoutWarm(r).out = req[r].out
         /\ WithRefusal(r).pc = "refused" /\ WithRefusal(r).out = req[r].out
  BY <1>type DEF WithoutWarm, WithRefusal, Request
<1>leaf. \A dets : /\ WithLeaf(r, dets).pc \in {"done", "policy"}
                   /\ WithLeaf(r, dets).out =
                        req[r].out \cup {[dets |-> dets, on |-> req[r].snap.on]}
  BY <1>type DEF WithLeaf, Request
<1>ends. ASSUME NEW q, Becomes(r, q), q.pc \in {"policy", "refused", "done"}
         PROVE  /\ \A p \in Requests \ {r} : req'[p] = req[p]
                /\ req'[r].pc # "idle"
                /\ CarriesSnapshot(r)
  BY <1>becomes, <1>ends DEF CarriesSnapshot, AfterPolicy, AfterSecrets, AfterMl
<1>returns. ASSUME NEW q \in {WithoutWarm(r), WithRefusal(r)}, Becomes(r, q), ~At(r, "idle"),
                 UNCHANGED <<policyVars, secretVars, loads, adminVars, cap>>
          PROVE  Goal
  BY <1>becomes, <1>back, <1>ends, <1>returns DEF SplicesOne, At
<1>splice. ASSUME NEW dets \in CacheKey, Becomes(r, WithLeaf(r, dets)), Spliced(r, dets),
                  UNCHANGED <<policyVars, secretVars, loads, adminVars, cap>>
           PROVE  Goal
  <2>1. ~At(r, "idle")
    BY <1>splice DEF Spliced, At, AfterMl
  <2>2. QED
    BY <1>becomes, <1>leaf, <1>ends, <1>splice, <2>1 DEF SplicesOne, At
<1>look. ASSUME NEW step \in AfterMl, LookUp(r, step), req[r].pc \in AfterMl,
                UNCHANGED <<policyVars, secretVars, loads, adminVars, cap>>
         PROVE  Goal
  <2>0. ~At(r, "idle")
    BY <1>look DEF At, AfterMl
  <2>1. CASE Misses(r) # {}
    <3>1. Becomes(r, [req[r] EXCEPT !.pc = step, !.batch = Misses(r)])
      BY <1>look, <2>1 DEF LookUp
    <3>2. req'[r] = [req[r] EXCEPT !.pc = step, !.batch = Misses(r)]
      BY <1>becomes, <3>1
    <3>3. req'[r].pc = step /\ req'[r].snap = req[r].snap /\ req'[r].out = req[r].out
      BY <1>type, <3>2 DEF Request
    <3>4. QED
      BY <1>becomes, <1>look, <2>0, <3>1, <3>3
         DEF At, CarriesSnapshot, SplicesOne, AfterPolicy, AfterSecrets, AfterMl
  <2>2. CASE Misses(r) = {} /\ Warming(r)
    BY <1>returns, <1>look, <2>0, <2>2 DEF LookUp
  <2>3. CASE Misses(r) = {} /\ ~Warming(r)
    <3>0. PICK l \in req[r].batch :
              \E e \in Cached(KeyOf(r, l)) : Becomes(r, WithLeaf(r, e.dets))
      BY <1>look, <2>3 DEF LookUp
    <3>1. PICK e \in Cached(KeyOf(r, l)) : Becomes(r, WithLeaf(r, e.dets))
      BY <3>0
    <3>2. e \in cache /\ e.key = KeyOf(r, l) /\ e.dets \in CacheKey
      BY <1>type, <3>1 DEF Cached, TypeOK
    <3>3. Spliced(r, e.dets)
      BY <1>look, <3>1, <3>2 DEF Spliced
    <3>4. QED
      BY <1>splice, <1>look, <3>1, <3>2, <3>3
  <2>4. QED
    BY <2>1, <2>2, <2>3
<1>keep. UNCHANGED <<policyVars, secretVars, loads, adminVars, cacheVars>> =>
           UNCHANGED <<policyVars, secretVars, loads, adminVars, cap>>
  BY DEF cacheVars
<1> USE DEF At
<1>1. CASE Start(r)
  <2>1. /\ req'[r] = [req[r] EXCEPT !.pc = "prewarm"] /\ ready
        /\ UNCHANGED <<policyVars, secretVars, loads, adminVars, cap>>
    BY <1>becomes, <1>keep, <1>1 DEF Start
  <2>2. req'[r].pc = "prewarm" /\ req'[r].out = req[r].out
    BY <1>type, <2>1 DEF Request
  <2>3. QED
    BY <1>becomes, <1>1, <2>1, <2>2
       DEF Start, CarriesSnapshot, SplicesOne, AfterPolicy, AfterSecrets, AfterMl
<1>2. CASE Prewarm(r)
  <2>1. PICK warm \in BOOLEAN :
          Becomes(r, [req[r] EXCEPT !.pc = "policy", !.warming = warm])
    BY <1>2 DEF Prewarm
  <2>e. req'[r] = [req[r] EXCEPT !.pc = "policy", !.warming = warm]
    BY <1>becomes, <2>1
  <2>2. req'[r].pc = "policy" /\ req'[r].out = req[r].out
    BY <1>type, <2>e DEF Request
  <2>3. QED
    BY <1>becomes, <1>keep, <1>2, <2>1, <2>2
       DEF Prewarm, CarriesSnapshot, SplicesOne, AfterPolicy, AfterSecrets, AfterMl
<1>3. CASE ReadPolicy(r)
  <2>0. UNCHANGED <<policyVars, secretVars, loads, adminVars, cap>> /\ req[r].pc = "policy"
    BY <1>keep, <1>3 DEF ReadPolicy
  <2>1. CASE Warming(r) /\ ~enabled
    BY <1>returns, <1>3, <2>0, <2>1 DEF ReadPolicy
  <2>2. CASE ~(Warming(r) /\ ~enabled)
    <3>1. PICK batch :
            Becomes(r, [req[r] EXCEPT !.pc = "secrets", !.batch = batch,
                                      !.snap.policy = config.policy,
                                      !.snap.on = enabled])
      BY <1>3, <2>2 DEF ReadPolicy
    <3>e. req'[r] = [req[r] EXCEPT !.pc = "secrets", !.batch = batch,
                                   !.snap.policy = config.policy, !.snap.on = enabled]
      BY <1>becomes, <3>1
    <3>s. /\ req'[r].pc = "secrets" /\ req'[r].out = req[r].out
          /\ req'[r].snap = [req[r].snap EXCEPT !.policy = config.policy, !.on = enabled]
      BY <1>type, <3>e DEF Request, Snapshot
    <3>2. req'[r].snap.policy = config.policy /\ req'[r].snap.on = enabled
      BY <1>type, <3>s DEF Request, Snapshot
    <3>3. QED
      BY <1>becomes, <2>0, <3>1, <3>s, <3>2
         DEF CarriesSnapshot, SplicesOne, AfterPolicy, AfterSecrets, AfterMl
  <2>3. QED
    BY <2>1, <2>2
<1>4. CASE ReadSecrets(r)
  <2>0. UNCHANGED <<policyVars, secretVars, loads, adminVars, cap>> /\ req[r].pc = "secrets"
    BY <1>keep, <1>4 DEF ReadSecrets
  <2>1. CASE Snap(r).on
    <3>1. Becomes(r, [req[r] EXCEPT !.pc = "ml", !.snap.secrets = secrets])
      BY <1>4, <2>1 DEF ReadSecrets
    <3>e. req'[r] = [req[r] EXCEPT !.pc = "ml", !.snap.secrets = secrets]
      BY <1>becomes, <3>1
    <3>2. /\ req'[r].pc = "ml" /\ req'[r].out = req[r].out
          /\ req'[r].snap.policy = req[r].snap.policy /\ req'[r].snap.on = req[r].snap.on
          /\ req'[r].snap.secrets = secrets
      BY <1>type, <3>e DEF Request, Snapshot
    <3>3. QED
      BY <1>becomes, <2>0, <2>1, <3>1, <3>2
         DEF Snap, CarriesSnapshot, SplicesOne, AfterPolicy, AfterSecrets, AfterMl
  <2>2. CASE ~Snap(r).on
    <3> DEFINE dets(l) == [leaf |-> l, policy |-> Snap(r).policy, secrets |-> secrets,
                           model |-> NoModel]
    <3>1. PICK l \in req[r].batch : Becomes(r, WithLeaf(r, dets(l)))
      BY <1>4, <2>2 DEF ReadSecrets
    <3>2. dets(l) \in CacheKey /\ Spliced(r, dets(l))
      BY <1>type, <2>0, <2>2, <3>1
         DEF TypeOK, Request, Snapshot, Snap, CacheKey, MaybeModel, Spliced
    <3> HIDE DEF dets
    <3>3. QED
      BY <1>splice, <2>0, <3>1, <3>2
  <2>3. QED
    BY <2>1, <2>2
<1>5. CASE ReadMl(r)
  <2>0. UNCHANGED <<policyVars, secretVars, loads, adminVars, cap>> /\ req[r].pc = "ml"
    BY <1>keep, <1>5 DEF ReadMl
  <2> DEFINE read == [req[r] EXCEPT !.pc = "lookup", !.snap.recognizer = Active(ml),
                                    !.snap.fp = ml.fp, !.snap.generation = ml.generation]
  <2>1. \/ Becomes(r, WithoutWarm(r)) \/ Becomes(r, WithRefusal(r))
        \/ Becomes(r, read) /\ ~Refuses(ml)
    BY <1>5 DEF ReadMl
  <2>2. CASE Becomes(r, WithoutWarm(r)) \/ Becomes(r, WithRefusal(r))
    BY <1>returns, <2>0, <2>2
  <2>3. CASE Becomes(r, read) /\ ~Refuses(ml)
    <3>e. req'[r] = read
      BY <1>becomes, <2>3
    <3>s. /\ req'[r].pc = "lookup" /\ req'[r].out = req[r].out
          /\ req'[r].snap = [req[r].snap EXCEPT !.recognizer = Active(ml), !.fp = ml.fp,
                                                !.generation = ml.generation]
      BY <1>type, <3>e DEF Request, Snapshot
    <3>1. /\ req'[r].snap.policy = req[r].snap.policy /\ req'[r].snap.on = req[r].snap.on
          /\ req'[r].snap.secrets = req[r].snap.secrets
          /\ req'[r].snap.recognizer = Active(ml) /\ req'[r].snap.fp = ml.fp
          /\ req'[r].snap.generation = ml.generation
      BY <1>type, <3>s DEF Request, Snapshot
    <3>2. QED
      BY <1>becomes, <2>0, <2>3, <3>s, <3>1
         DEF CarriesSnapshot, SplicesOne, AfterPolicy, AfterSecrets, AfterMl
  <2>4. QED
    BY <2>1, <2>2, <2>3
<1>6. CASE Lookup(r)
  BY <1>keep, <1>look, <1>6 DEF Lookup, AfterMl
<1>walk. ASSUME req[r].pc \in AfterMl, NEW step \in AfterMl, Goto(r, step),
                UNCHANGED <<policyVars, secretVars, loads, adminVars, cap>>
         PROVE  Goal
  <2>1. /\ req'[r].pc = step /\ req'[r].snap = req[r].snap /\ req'[r].out = req[r].out
        /\ \A q \in Requests \ {r} : req'[q] = req[q]
    BY <1>type, <1>walk DEF Goto, Request
  <2>2. QED
    BY <1>walk, <2>1 DEF CarriesSnapshot, SplicesOne, AfterPolicy, AfterSecrets, AfterMl
<1>7. CASE TakeGate(r)
  BY <1>keep, <1>walk, <1>7 DEF TakeGate, AfterMl
<1>8. CASE Recheck(r)
  BY <1>keep, <1>look, <1>8 DEF Recheck, AfterMl
<1>9. CASE DetectOk(r)
  BY <1>keep, <1>walk, <1>9 DEF DetectOk, AfterMl
<1>10. CASE DetectErr(r)
  BY <1>keep, <1>returns, <1>10 DEF DetectErr
<1>11. CASE DetectPanic(r)
  BY <1>keep, <1>returns, <1>11 DEF DetectPanic
<1>12. CASE InsertLeaf(r)
  <2>0. /\ UNCHANGED <<policyVars, secretVars, loads, adminVars, cap>>
        /\ req[r].pc = "insert"
    BY <1>12 DEF InsertLeaf, Insert, cacheVars
  <2>1. PICK l \in req[r].batch :
          \/ Becomes(r, WithLeaf(r, InputsOf(r, l)))
          \/ Becomes(r, WithoutWarm(r))
          \/ Becomes(r, [req[r] EXCEPT !.batch = @ \ {l}])
    BY <1>12 DEF InsertLeaf
  <2>2. CASE Becomes(r, WithLeaf(r, InputsOf(r, l)))
    <3>1. InputsOf(r, l) \in CacheKey
      BY <1>type, <2>1 DEF InputsOf, Snap, CacheKey, Request, Snapshot
    <3>2. Spliced(r, InputsOf(r, l))
      BY <2>0, <2>1 DEF Spliced, AfterMl
    <3>3. QED
      BY <1>splice, <2>0, <2>2, <3>1, <3>2
  <2>3. CASE Becomes(r, WithoutWarm(r))
    BY <1>returns, <2>0, <2>3
  <2>4. CASE Becomes(r, [req[r] EXCEPT !.batch = @ \ {l}])
    <3>1. req'[r].pc = req[r].pc /\ req'[r].snap = req[r].snap /\ req'[r].out = req[r].out
      BY <1>type, <1>becomes, <2>4 DEF Request
    <3>2. QED
      BY <1>becomes, <2>0, <2>4, <3>1
         DEF CarriesSnapshot, SplicesOne, AfterPolicy, AfterSecrets, AfterMl
  <2>5. QED
    BY <2>1, <2>2, <2>3, <2>4
<1>13. QED
  BY <1>1, <1>2, <1>3, <1>4, <1>5, <1>6, <1>7, <1>8, <1>9, <1>10, <1>11, <1>12
     DEF RequestStep

(***************************************************************************)
(* A request touches the slot only by noting or clearing a failure of its  *)
(* own recognizer's generation, and adds to the cache only what it has     *)
(* just detected.                                                          *)
(***************************************************************************)
LEMMA RequestTouches ==
    ASSUME TypeInv, NEW r \in Requests, RequestStep(r)
    PROVE  /\ \/ ml' = ml
              \/ ml' = [ml EXCEPT !.noted = FALSE]
              \/ /\ ml' = [ml EXCEPT !.noted = TRUE]
                 /\ req[r].pc \in AfterMl /\ req[r].snap.recognizer # NoModel
                 /\ req[r].snap.generation = ml.generation
           /\ \A e \in cache' :
                \/ e \in cache
                \/ /\ req[r].pc = "insert"
                   /\ \E l \in req[r].batch :
                        e = [key |-> KeyOf(r, l), dets |-> InputsOf(r, l)]
<1>1. CASE InsertLeaf(r)
  <2>1. PICK l \in req[r].batch : Insert(KeyOf(r, l), InputsOf(r, l))
    BY <1>1 DEF InsertLeaf
  <2>2. cache' \subseteq cache \cup {[key |-> KeyOf(r, l), dets |-> InputsOf(r, l)]}
    BY <2>1, InsertBounded DEF TypeInv, TypeOK
  <2>3. QED
    BY <1>1, <2>2 DEF InsertLeaf, At
<1>2. CASE DetectOk(r)
  BY <1>2 DEF DetectOk, ClearFailure, cacheVars
<1>3. CASE DetectErr(r)
  BY <1>3 DEF DetectErr, NoteFailure, cacheVars, At, Snap, AfterMl
<1>4. CASE ~InsertLeaf(r) /\ ~DetectOk(r) /\ ~DetectErr(r)
  <2>1. UNCHANGED <<ml, cache>>
    BY <1>4 DEF RequestStep, Start, Prewarm, ReadPolicy, ReadSecrets, ReadMl, Lookup,
                TakeGate, Recheck, DetectPanic, cacheVars
  <2>2. QED
    BY <2>1
<1>5. QED
  BY <1>1, <1>2, <1>3, <1>4

-----------------------------------------------------------------------------
(* The ML slot and the control plane.                                      *)

\* The slot agrees with itself.
SlotAgrees ==
    /\ ml.noted => ml.status = "Ready"
    /\ ml.fp = Active(ml)
    /\ ml.status = "Ready" => ml.recognizer = ml.desired /\ ml.desired # NoModel
    /\ ml.status = "Loading" =>
         [generation |-> ml.generation, model |-> ml.desired] \in loads

\* A load in flight is of an earlier generation, or the one being waited for.
LoadsAgree ==
    \A load \in loads :
        /\ load.generation <= ml.generation
        /\ load.generation = ml.generation =>
             ml.status = "Loading" /\ load.model = ml.desired

\* A recognizer in use is of an earlier generation, or the one still serving.
RecognizersAgree ==
    \A r \in Requests :
        req[r].pc \in AfterMl /\ req[r].snap.recognizer # NoModel =>
            /\ req[r].snap.generation <= ml.generation
            /\ req[r].snap.generation = ml.generation => ml.status = "Ready"

\* What each step of a control-plane operation may rely on.
ControlAgrees ==
    /\ admin.step # "cap" => cap = config.cap
    /\ admin.by = "disable" => ~mlOn
    /\ admin.step = "disable" => ~mlOn
    /\ admin.step = "load" => mlOn
    /\ admin.step = "update" =>
         mlOn /\ ml.status # "Disabled" /\ ml.desired = config.model
    /\ admin = Quiet =>
         /\ mlOn <=> ml.status # "Disabled"
         /\ mlOn => ml.desired = config.model /\ ml.required = config.required

SlotInv == SlotAgrees /\ LoadsAgree /\ RecognizersAgree /\ ControlAgrees

(***************************************************************************)
(* The slot never installs a superseded load, is never marked by a failure *)
(* of a recognizer it no longer serves, and between operations is what the *)
(* live configuration asks for.                                            *)
(***************************************************************************)
LEMMA SlotInvHolds == Spec => []SlotInv
<1> USE ConfigAssumption, ModelAssumption, BoundAssumption
<1> USE DEF SlotInv
<1>1. Init => SlotInv
  <2> SUFFICES ASSUME Init PROVE SlotInv
    OBVIOUS
  <2>1. config.model \in Models
    BY DEF Init, Config
  <2>2. RecognizersAgree
    BY DEF Init, InitialRequest, RecognizersAgree, AfterMl
  <2>3. CASE mlOn
    <3>1. ml = [status |-> "Loading", recognizer |-> NoModel, desired |-> config.model,
                required |-> config.required, generation |-> 1, fp |-> NoModel,
                noted |-> FALSE]
      BY <2>3 DEF Init, BeginLoad, InitialMl, WithFp
    <3>2. QED
      BY <2>1, <2>2, <2>3, <3>1
         DEF Init, SlotAgrees, LoadsAgree, ControlAgrees, Active, Quiet
  <2>4. CASE ~mlOn
    BY <2>2, <2>4 DEF Init, InitialMl, SlotAgrees, LoadsAgree, ControlAgrees, Active, Quiet
  <2>5. QED
    BY <2>3, <2>4
<1>2. TypeInv /\ SlotInv /\ [Next]_vars => SlotInv'
  <2> SUFFICES ASSUME TypeInv, SlotInv, [Next]_vars
               PROVE  SlotInv'
    OBVIOUS
  <2>type. TypeOK /\ ml \in MlRuntime /\ ml.generation \in Nat
    BY DEF TypeInv, TypeOK, MlRuntime, Generation
  <2>gen. \A r \in Requests : req[r].snap.generation \in Nat
    BY <2>type DEF TypeOK, Request, Snapshot, Generation
  <2>loads. \A load \in loads : load.generation \in Nat /\ load.model \in Models
    BY <2>type DEF TypeOK, Generation
  <2>request. ASSUME NEW r \in Requests, RequestStep(r)
              PROVE  SlotInv'
    <3>1. /\ UNCHANGED <<config, mlOn, loads, admin, cap>>
          /\ ml' \in {ml, [ml EXCEPT !.noted = FALSE], [ml EXCEPT !.noted = TRUE]}
      BY <2>request, RequestMoves, RequestTouches DEF policyVars, adminVars
    <3>2. /\ ml'.status = ml.status /\ ml'.recognizer = ml.recognizer
          /\ ml'.desired = ml.desired /\ ml'.required = ml.required
          /\ ml'.generation = ml.generation /\ ml'.fp = ml.fp
          /\ ml'.noted => ml.noted \/ ml' = [ml EXCEPT !.noted = TRUE]
      BY <2>type, <3>1 DEF MlRuntime
    <3>3. ml'.noted => ml.status = "Ready"
      <4>1. CASE ml.noted
        BY <4>1 DEF SlotAgrees
      <4>2. CASE ~ml.noted /\ ml'.noted
        <5>1. ml' # ml /\ ml' # [ml EXCEPT !.noted = FALSE]
          BY <2>type, <4>2 DEF MlRuntime
        <5>2. QED
          BY <2>request, <5>1, RequestTouches DEF RecognizersAgree
      <4>3. QED
        BY <4>1, <4>2
    <3>4. SlotAgrees' /\ LoadsAgree' /\ ControlAgrees'
      BY <3>1, <3>2, <3>3 DEF SlotAgrees, LoadsAgree, ControlAgrees, Active
    <3>5. RecognizersAgree'
      <4> SUFFICES ASSUME NEW q \in Requests, req'[q].pc \in AfterMl,
                          req'[q].snap.recognizer # NoModel
                   PROVE  /\ req'[q].snap.generation <= ml.generation
                          /\ req'[q].snap.generation = ml.generation => ml.status = "Ready"
        BY <3>2 DEF RecognizersAgree
      <4>1. CASE q # r
        BY <2>request, <4>1, RequestMoves DEF RecognizersAgree
      <4>2. CASE q = r
        <5>1. \/ /\ req[q].pc \in AfterMl
                 /\ req'[q].snap.recognizer = req[q].snap.recognizer
                 /\ req'[q].snap.generation = req[q].snap.generation
              \/ /\ req'[q].snap.recognizer = Active(ml)
                 /\ req'[q].snap.generation = ml.generation
          BY <2>request, <4>2, RequestMoves DEF CarriesSnapshot
        <5>2. QED
          BY <2>type, <5>1 DEF RecognizersAgree, Active
      <4>3. QED
        BY <4>1, <4>2
    <3>6. QED
      BY <3>4, <3>5
  <2>config. config' \in Configs \cup {StartConfig} => config'.model \in Models
    BY DEF Config
  <2>steady. UNCHANGED <<ml, loads>> => SlotAgrees' /\ LoadsAgree'
    BY DEF SlotAgrees, LoadsAgree, Active
  <2>serving. UNCHANGED req /\ ml'.generation = ml.generation
              /\ (ml.status = "Ready" => ml'.status = "Ready") => RecognizersAgree'
    BY DEF RecognizersAgree
  <2>later. UNCHANGED req /\ ml'.generation = ml.generation + 1 => RecognizersAgree'
    BY <2>type, <2>gen DEF RecognizersAgree
  <2>put. CASE PutConfig
    <3>1. ControlAgrees'
      BY <2>put DEF PutConfig, Begin, ControlAgrees, Quiet
    <3>2. QED
      BY <2>steady, <2>serving, <2>put, <3>1 DEF PutConfig, Begin
  <2>enable. CASE MlEnable
    <3>1. ControlAgrees'
      BY <2>enable DEF MlEnable, Begin, ControlAgrees, Quiet
    <3>2. QED
      BY <2>steady, <2>serving, <2>enable, <3>1 DEF MlEnable, Begin
  <2>disable. CASE MlDisable
    <3>1. ControlAgrees'
      BY <2>disable DEF MlDisable, Begin, ControlAgrees, Quiet
    <3>2. QED
      BY <2>steady, <2>serving, <2>disable, <3>1 DEF MlDisable, Begin
  <2>toggle. CASE ToggleEnabled
    <3>1. ControlAgrees'
      BY <2>toggle DEF ToggleEnabled, ControlAgrees, cacheVars
    <3>2. QED
      BY <2>steady, <2>serving, <2>toggle, <3>1 DEF ToggleEnabled
  <2>admin. \A st \in STRING : /\ [admin EXCEPT !.step = st].step = st
                               /\ [admin EXCEPT !.step = st].by = admin.by
    BY <2>type DEF TypeOK, Operation
  <2>quiet. \A st \in {"disable", "reconcile", "load", "update"} :
              [admin EXCEPT !.step = st] # Quiet
    BY <2>admin DEF Quiet
  <2>applycap. CASE ApplyCap
    <3>1. ControlAgrees'
      <4>1. /\ cap' = config'.cap /\ UNCHANGED <<config, mlOn, ml>>
            /\ admin' = [admin EXCEPT !.step = IF admin.by = "disable" THEN "disable"
                                               ELSE "reconcile"]
        BY <2>applycap DEF ApplyCap, SetCap, policyVars
      <4>2. /\ admin'.step = IF admin.by = "disable" THEN "disable" ELSE "reconcile"
            /\ admin'.by = admin.by /\ admin' # Quiet
        BY <2>admin, <2>quiet, <4>1
      <4>3. QED
        BY <4>1, <4>2 DEF ControlAgrees
    <3>2. QED
      BY <2>steady, <2>serving, <2>applycap, <3>1 DEF ApplyCap
  <2>reconcile. CASE Reconcile
    <3>1. ControlAgrees'
      <4>1. UNCHANGED <<config, mlOn, ml, cap>> /\ admin.step = "reconcile"
        BY <2>reconcile DEF Reconcile, policyVars, cacheVars
      <4>2. CASE ~mlOn /\ ml.status = "Disabled"
        BY <2>reconcile, <4>1, <4>2 DEF Reconcile, ControlAgrees, Quiet
      <4>3. CASE ~mlOn /\ ml.status # "Disabled"
        <5>1. admin' = [admin EXCEPT !.step = "disable"]
          BY <2>reconcile, <4>3 DEF Reconcile
        <5>2. QED
          BY <2>admin, <2>quiet, <4>1, <4>3, <5>1 DEF ControlAgrees
      <4>4. CASE mlOn
        <5>1. PICK st \in {"load", "update"} :
                /\ admin' = [admin EXCEPT !.step = st]
                /\ st = "update" => ml.status # "Disabled" /\ ml.desired = config.model
          BY <2>reconcile, <4>4 DEF Reconcile, NeedsLoad
        <5>2. admin'.step = st /\ admin'.by = admin.by /\ admin' # Quiet
          BY <2>admin, <2>quiet, <5>1
        <5>3. QED
          BY <4>1, <4>4, <5>1, <5>2 DEF ControlAgrees
      <4>5. QED
        BY <2>type, <4>2, <4>3, <4>4 DEF TypeOK
    <3>2. QED
      BY <2>steady, <2>serving, <2>reconcile, <3>1 DEF Reconcile
  <2>model. config.model \in Models
    BY <2>type, ConfigFields DEF TypeOK
  <2>spawn. CASE SpawnLoad
    <3>1. ml' = [status |-> "Loading", recognizer |-> NoModel, desired |-> config.model,
                 required |-> config.required, generation |-> ml.generation + 1,
                 fp |-> NoModel, noted |-> FALSE]
      BY <2>spawn DEF SpawnLoad, BeginLoad, WithFp
    <3>2. /\ ml'.status = "Loading" /\ ml'.desired = config.model
          /\ ml'.required = config.required
          /\ ml'.generation = ml.generation + 1 /\ ml'.fp = NoModel /\ ~ml'.noted
      BY <3>1
    <3>3. loads' = loads \cup {[generation |-> ml'.generation, model |-> config.model]}
      BY <2>spawn DEF SpawnLoad
    <3>4. SlotAgrees' /\ LoadsAgree'
      BY <2>type, <2>loads, <3>2, <3>3 DEF SlotAgrees, LoadsAgree, Active
    <3>5. ControlAgrees'
      BY <2>spawn, <3>2 DEF SpawnLoad, ControlAgrees, Quiet, policyVars, cacheVars
    <3>6. QED
      BY <2>later, <2>spawn, <3>2, <3>4, <3>5 DEF SpawnLoad
  <2>update. CASE ApplyRequired
    <3>1. /\ mlOn /\ ml.status # "Disabled" /\ ml.desired = config.model
          /\ ml.desired # NoModel
      BY <2>update, <2>model DEF ApplyRequired, ControlAgrees
    <3>2. ml' = [ml EXCEPT !.required = config.required]
      BY <2>update, <3>1 DEF ApplyRequired, UpdateRequired
    <3>3. /\ ml'.status = ml.status /\ ml'.recognizer = ml.recognizer
          /\ ml'.desired = ml.desired /\ ml'.required = config.required
          /\ ml'.generation = ml.generation /\ ml'.fp = ml.fp /\ ml'.noted = ml.noted
      BY <2>type, <3>2 DEF MlRuntime
    <3>4. SlotAgrees' /\ LoadsAgree'
      BY <2>update, <3>3 DEF ApplyRequired, SlotAgrees, LoadsAgree, Active
    <3>5. ControlAgrees'
      BY <2>update, <3>1, <3>3
         DEF ApplyRequired, ControlAgrees, Quiet, policyVars, cacheVars
    <3>6. QED
      BY <2>serving, <2>update, <3>3, <3>4, <3>5 DEF ApplyRequired
  <2>off. CASE ApplyDisable
    <3>1. ml' = [status |-> "Disabled", recognizer |-> NoModel, desired |-> NoModel,
                 required |-> FALSE, generation |-> ml.generation + 1,
                 fp |-> NoModel, noted |-> FALSE]
      BY <2>off DEF ApplyDisable, Disable, WithFp
    <3>2. /\ ml'.status = "Disabled" /\ ml'.generation = ml.generation + 1
          /\ ml'.fp = NoModel /\ ~ml'.noted
      BY <3>1
    <3>3. SlotAgrees' /\ LoadsAgree'
      BY <2>type, <2>loads, <2>off, <3>2 DEF ApplyDisable, SlotAgrees, LoadsAgree, Active
    <3>4. ControlAgrees'
      BY <2>off, <3>2 DEF ApplyDisable, ControlAgrees, Quiet, policyVars, cacheVars
    <3>5. QED
      BY <2>later, <2>off, <3>2, <3>3, <3>4 DEF ApplyDisable
  <2>finish. ASSUME NEW load \in loads, FinishLoad(load)
             PROVE  SlotInv'
    <3>0. /\ UNCHANGED <<config, mlOn, admin, cap, req>>
          /\ loads' = loads \ {load}
      BY <2>finish DEF FinishLoad, policyVars, adminVars, cacheVars
    <3>1. CASE load.generation # ml.generation
      <4>1. ml' = ml
        BY <2>finish, <3>1 DEF FinishLoad, SetReady, SetFailed
      <4>2. SlotAgrees' /\ LoadsAgree'
        BY <3>0, <3>1, <4>1 DEF SlotAgrees, LoadsAgree, Active
      <4>3. ControlAgrees'
        BY <3>0, <4>1 DEF ControlAgrees
      <4>4. QED
        BY <2>serving, <3>0, <4>1, <4>2, <4>3
    <3>2. CASE load.generation = ml.generation
      <4>1. ml.status = "Loading" /\ load.model = ml.desired /\ ml.desired # NoModel
        BY <2>loads, <3>2 DEF LoadsAgree
      <4>2. /\ ml'.generation = ml.generation /\ ml'.desired = ml.desired
            /\ ml'.required = ml.required
            /\ \/ /\ ml'.status = "Ready" /\ ml'.recognizer = ml.desired
                  /\ ml'.fp = ml.desired /\ ~ml'.noted
               \/ ml'.status = "Failed" /\ ml'.fp = NoModel /\ ml'.noted = ml.noted
        <5>1. CASE ml' = SetReady(ml, load)
          BY <2>type, <3>2, <4>1, <5>1 DEF SetReady, WithFp, MlRuntime
        <5>2. CASE ml' = SetFailed(ml, load)
          BY <2>type, <3>2, <4>1, <5>2 DEF SetFailed, WithFp, MlRuntime
        <5>3. QED
          BY <2>finish, <5>1, <5>2 DEF FinishLoad
      <4>3. LoadsAgree'
        <5> SUFFICES ASSUME NEW other \in loads' 
                     PROVE  other.generation <= ml.generation /\ other.generation # ml.generation
          BY <4>2 DEF LoadsAgree
        <5>1. other \in loads /\ other # load
          BY <3>0
        <5>2. other.generation = ml.generation => other.model = load.model
          BY <4>1, <5>1 DEF LoadsAgree
        <5>3. other.generation = load.generation /\ other.model = load.model => other = load
          BY <2>type, <5>1 DEF TypeOK
        <5>4. QED
          BY <3>2, <5>1, <5>2, <5>3 DEF LoadsAgree
      <4>4. SlotAgrees' /\ ControlAgrees'
        BY <3>0, <4>1, <4>2 DEF SlotAgrees, ControlAgrees, Active
      <4>5. QED
        BY <2>serving, <3>0, <4>1, <4>2, <4>3, <4>4
    <3>3. QED
      BY <3>1, <3>2
  <2>install. CASE InstallSecrets \/ OpenIntake
    <3>1. UNCHANGED <<config, mlOn, ml, loads, cap, admin, req>>
      BY <2>install DEF InstallSecrets, OpenIntake, policyVars, cacheVars, adminVars
    <3>2. QED
      BY <2>steady, <2>serving, <3>1 DEF ControlAgrees
  <2>idle. CASE UNCHANGED vars
    <3>1. UNCHANGED <<config, mlOn, ml, loads, cap, admin, req>>
      BY <2>idle DEF vars, policyVars, cacheVars, adminVars
    <3>2. QED
      BY <2>steady, <2>serving, <3>1 DEF ControlAgrees
  <2> QED
    BY <2>request, <2>put, <2>enable, <2>disable, <2>toggle, <2>applycap, <2>reconcile,
       <2>spawn, <2>update, <2>off, <2>finish, <2>install, <2>idle DEF Next
<1> QED
  BY <1>1, <1>2, TypeInvHolds, PTL DEF Spec

-----------------------------------------------------------------------------
(* The ML gate.                                                            *)

HoldsGate(r) ==
    req[r].pc \in {"recheck", "detect", "insert"} /\ req[r].snap.recognizer # NoModel

\* The gate is with the one request that is scanning with a model.
GateAgrees ==
    \A r \in Requests :
        /\ gate = r <=> HoldsGate(r)
        /\ req[r].pc \in {"gate", "recheck"} => req[r].snap.recognizer # NoModel

\* The recognizer a call runs is the one its cache keys name.
KeysNameTheModel ==
    \A r \in Requests : req[r].pc \in AfterMl => req[r].snap.fp = req[r].snap.recognizer

\* Under the gate no leaf is scanned that the cache already answers.
SingleFlight ==
    \A r \in Requests : At(r, "detect") /\ gate = r =>
        \A l \in req[r].batch : ~Hit(KeyOf(r, l))

GateInv == GateAgrees /\ KeysNameTheModel /\ SingleFlight

(***************************************************************************)
(* A step takes the gate only when it is free and gives back only its own; *)
(* every way out of a scan, a panic included, gives it back.               *)
(***************************************************************************)
LEMMA GateMoves ==
    ASSUME TypeInv, GateAgrees, NEW r \in Requests, RequestStep(r)
    PROVE  /\ gate' = r <=> HoldsGate(r)'
           /\ req'[r].pc \in {"gate", "recheck"} => req'[r].snap.recognizer # NoModel
           /\ gate' # gate => {gate, gate'} = {r, NoRequest}
           /\ At(r, "detect")' /\ gate' = r =>
                At(r, "recheck") /\ req'[r].batch = Misses(r)
<1> DEFINE Goal == /\ gate' = r <=> HoldsGate(r)'
                   /\ req'[r].pc \in {"gate", "recheck"} => req'[r].snap.recognizer # NoModel
                   /\ gate' # gate => {gate, gate'} = {r, NoRequest}
                   /\ At(r, "detect")' /\ gate' = r =>
                        At(r, "recheck") /\ req'[r].batch = Misses(r)
<1> USE RequestAssumption DEF At, HoldsGate
<1>type. req \in [Requests -> Request] /\ req[r] \in Request
  BY DEF TypeInv, TypeOK
<1>becomes. \A q : Becomes(r, q) => req'[r] = q
  BY <1>type DEF Becomes
<1>ends. /\ WithoutWarm(r).pc = "policy" /\ WithRefusal(r).pc = "refused"
         /\ \A dets : WithLeaf(r, dets).pc \in {"done", "policy"}
  BY <1>type DEF WithoutWarm, WithRefusal, WithLeaf, Request
<1>free. req[r].pc \in {"idle", "prewarm", "policy", "secrets", "ml", "lookup", "gate"} =>
            gate # r
  BY DEF GateAgrees
<1>out. ASSUME req'[r].pc \in {"prewarm", "policy", "secrets", "ml", "lookup", "done",
                               "refused"},
               gate' = IF gate = r THEN NoRequest ELSE gate
        PROVE  Goal
  BY <1>out
<1>release. ASSUME Release(r), req[r].pc \in {"detect", "insert"}
            PROVE  gate' = IF gate = r THEN NoRequest ELSE gate
  BY <1>release DEF Release, Snap, GateAgrees
<1>1. CASE Start(r) \/ Prewarm(r) \/ ReadPolicy(r) \/ ReadSecrets(r) \/ ReadMl(r)
  <2>1. gate' = gate /\ gate # r
    BY <1>free, <1>1 DEF Start, Prewarm, ReadPolicy, ReadSecrets, ReadMl
  <2>2. req'[r].pc \in {"prewarm", "policy", "secrets", "ml", "lookup", "done", "refused"}
    <3>1. CASE Start(r)
      BY <1>type, <3>1 DEF Start, Becomes, Request
    <3>2. CASE Prewarm(r)
      BY <1>type, <3>2 DEF Prewarm, Becomes, Request
    <3>3. CASE ReadPolicy(r)
      <4> DEFINE read(b) == [req[r] EXCEPT !.pc = "secrets", !.batch = b,
                                !.snap.policy = config.policy, !.snap.on = enabled]
      <4>1. \A b : read(b).pc = "secrets"
        BY <1>type DEF Request
      <4>2. Becomes(r, WithoutWarm(r)) \/ \E b : Becomes(r, read(b))
        BY <3>3 DEF ReadPolicy
      <4> HIDE DEF read
      <4>3. QED
        BY <1>becomes, <1>ends, <4>1, <4>2
    <3>4. CASE ReadSecrets(r)
      <4>1. [req[r] EXCEPT !.pc = "ml", !.snap.secrets = secrets].pc = "ml"
        BY <1>type DEF Request
      <4>2. QED
        BY <1>becomes, <1>ends, <3>4, <4>1 DEF ReadSecrets
    <3>5. CASE ReadMl(r)
      <4> DEFINE read == [req[r] EXCEPT !.pc = "lookup", !.snap.recognizer = Active(ml),
                                !.snap.fp = ml.fp, !.snap.generation = ml.generation]
      <4>1. read.pc = "lookup"
        BY <1>type DEF Request
      <4>2. \/ Becomes(r, WithoutWarm(r)) \/ Becomes(r, WithRefusal(r)) \/ Becomes(r, read)
        BY <3>5 DEF ReadMl
      <4> HIDE DEF read
      <4>3. QED
        BY <1>becomes, <1>ends, <4>1, <4>2
    <3>6. QED
      BY <1>1, <3>1, <3>2, <3>3, <3>4, <3>5
  <2>3. QED
    BY <1>out, <2>1, <2>2
<1>look. ASSUME NEW step, LookUp(r, step)
         PROVE  \/ /\ Misses(r) # {} /\ req'[r].pc = step /\ req'[r].snap = req[r].snap
                   /\ req'[r].batch = Misses(r)
                \/ Misses(r) = {} /\ req'[r].pc \in {"policy", "done"}
  <2>1. CASE Misses(r) # {}
    <3>1. req'[r] = [req[r] EXCEPT !.pc = step, !.batch = Misses(r)]
      BY <1>becomes, <1>look, <2>1 DEF LookUp
    <3>2. QED
      BY <1>type, <2>1, <3>1 DEF Request
  <2>2. CASE Misses(r) = {}
    BY <1>becomes, <1>ends, <1>look, <2>2 DEF LookUp
  <2>3. QED
    BY <2>1, <2>2
<1>2. CASE Lookup(r)
  <2>1. gate' = gate /\ gate # r
    BY <1>free, <1>2 DEF Lookup
  <2>2. LookUp(r, IF Snap(r).recognizer = NoModel THEN "detect" ELSE "gate")
    BY <1>2 DEF Lookup
  <2>3. QED
    BY <1>out, <1>look, <2>1, <2>2 DEF Snap
<1>3. CASE TakeGate(r)
  <2>1. gate = NoRequest /\ gate' = r /\ req[r].snap.recognizer # NoModel
    BY <1>3 DEF TakeGate, GateAgrees
  <2>2. req'[r].pc = "recheck" /\ req'[r].snap = req[r].snap
    BY <1>type, <1>3 DEF TakeGate, Goto, Request
  <2>3. QED
    BY <2>1, <2>2
<1>4. CASE Recheck(r)
  <2>1. gate = r /\ req[r].snap.recognizer # NoModel
    BY <1>4 DEF Recheck, GateAgrees
  <2>2. LookUp(r, "detect") /\ gate' = IF Misses(r) # {} THEN gate ELSE NoRequest
    BY <1>4 DEF Recheck
  <2>3. QED
    BY <1>look, <1>4, <2>1, <2>2 DEF Recheck
<1>5. CASE DetectOk(r)
  <2>1. req'[r].pc = "insert" /\ req'[r].snap = req[r].snap
    BY <1>type, <1>5 DEF DetectOk, Goto, Request
  <2>2. QED
    BY <1>5, <2>1 DEF DetectOk, GateAgrees
<1>6. CASE DetectErr(r) \/ DetectPanic(r)
  <2>1. req'[r].pc \in {"policy", "refused"}
    BY <1>becomes, <1>ends, <1>6 DEF DetectErr, DetectPanic
  <2>2. QED
    BY <1>out, <1>release, <1>6, <2>1 DEF DetectErr, DetectPanic
<1>7. CASE InsertLeaf(r)
  <2>1. PICK l \in req[r].batch :
          \/ Becomes(r, WithLeaf(r, InputsOf(r, l))) /\ Release(r)
          \/ Becomes(r, WithoutWarm(r)) /\ Release(r)
          \/ Becomes(r, [req[r] EXCEPT !.batch = @ \ {l}]) /\ UNCHANGED gate
    BY <1>7 DEF InsertLeaf
  <2>2. CASE Release(r) /\ (\/ Becomes(r, WithLeaf(r, InputsOf(r, l)))
                            \/ Becomes(r, WithoutWarm(r)))
    <3>1. req'[r].pc \in {"policy", "done"}
      BY <1>becomes, <1>ends, <2>2
    <3>2. QED
      BY <1>out, <1>release, <1>7, <2>2, <3>1 DEF InsertLeaf
  <2>3. CASE Becomes(r, [req[r] EXCEPT !.batch = @ \ {l}]) /\ UNCHANGED gate
    <3>1. req'[r].pc = req[r].pc /\ req'[r].snap = req[r].snap
      BY <1>type, <1>becomes, <2>3 DEF Request
    <3>2. QED
      BY <1>7, <2>3, <3>1 DEF InsertLeaf, GateAgrees
  <2>4. QED
    BY <2>1, <2>2, <2>3
<1>8. QED
  BY <1>1, <1>2, <1>3, <1>4, <1>5, <1>6, <1>7 DEF RequestStep

(***************************************************************************)
(* The gate is never left taken and never shared, and single flight holds: *)
(* only a gate holder adds entries under a model's key.                    *)
(***************************************************************************)
LEMMA GateInvHolds == Spec => []GateInv
<1> USE RequestAssumption
<1> USE DEF GateInv, At
<1>1. Init => GateInv
  BY DEF Init, InitialRequest, GateAgrees, HoldsGate, KeysNameTheModel, SingleFlight, AfterMl
<1>2. TypeInv /\ TypeInv' /\ SlotInv /\ GateInv /\ [Next]_vars => GateInv'
  <2> SUFFICES ASSUME TypeInv, TypeInv', SlotInv, GateInv, [Next]_vars
               PROVE  GateInv'
    OBVIOUS
  <2>request. ASSUME NEW r \in Requests, RequestStep(r)
              PROVE  GateInv'
    <3>others. \A q \in Requests \ {r} : req'[q] = req[q]
      BY <2>request, RequestMoves
    <3>gate. \A q \in Requests \ {r} : gate' = q <=> gate = q
      <4> TAKE q \in Requests \ {r}
      <4>1. CASE gate' = gate
        BY <4>1
      <4>2. CASE gate' # gate
        <5>1. {gate, gate'} = {r, NoRequest}
          BY <2>request, <4>2, GateMoves
        <5>2. QED
          BY <5>1
      <4>3. QED
        BY <4>1, <4>2
    <3>1. GateAgrees'
      <4> SUFFICES ASSUME NEW q \in Requests
                   PROVE  /\ gate' = q <=> HoldsGate(q)'
                          /\ req'[q].pc \in {"gate", "recheck"} =>
                               req'[q].snap.recognizer # NoModel
        BY DEF GateAgrees
      <4>1. CASE q = r
        BY <2>request, <4>1, GateMoves
      <4>2. CASE q # r
        BY <3>others, <3>gate, <4>2 DEF GateAgrees, HoldsGate
      <4>3. QED
        BY <4>1, <4>2
    <3>2. KeysNameTheModel'
      <4> SUFFICES ASSUME NEW q \in Requests, req'[q].pc \in AfterMl
                   PROVE  req'[q].snap.fp = req'[q].snap.recognizer
        BY DEF KeysNameTheModel
      <4>1. CASE q = r
        <5>1. CarriesSnapshot(r)
          BY <2>request, RequestMoves
        <5>2. QED
          BY <4>1, <5>1 DEF CarriesSnapshot, KeysNameTheModel, SlotInv, SlotAgrees
      <4>2. CASE q # r
        BY <3>others, <4>2 DEF KeysNameTheModel
      <4>3. QED
        BY <4>1, <4>2
    <3>3. SingleFlight'
      <4> SUFFICES ASSUME NEW q \in Requests, At(q, "detect")', gate' = q,
                          NEW l \in req'[q].batch, Hit(KeyOf(q, l))'
                   PROVE  FALSE
        BY DEF SingleFlight
      <4>1. PICK e \in cache' : e.key = KeyOf(q, l)'
        BY DEF Hit, Cached
      <4>2. cap' = cap /\ cap # 0
        BY <2>request, RequestMoves DEF Hit
      <4>3. CASE q = r
        <5>1. req[q].pc = "recheck" /\ req'[q].batch = Misses(q)
          BY <2>request, <4>3, GateMoves
        <5>2. KeyOf(q, l)' = KeyOf(q, l)
          <6>1. CarriesSnapshot(r)
            BY <2>request, RequestMoves
          <6>2. QED
            BY <4>3, <5>1, <6>1
               DEF CarriesSnapshot, KeyOf, Snap, AfterPolicy, AfterSecrets, AfterMl
        <5>3. e \in cache
          BY <2>request, <4>3, <5>1, RequestTouches
        <5>4. QED
          BY <4>1, <4>2, <5>1, <5>2, <5>3 DEF Misses, Hit, Cached
      <4>4. CASE q # r
        <5>1. req'[q] = req[q] /\ gate = q
          BY <3>others, <3>gate, <4>4
        <5>2. KeyOf(q, l)' = KeyOf(q, l)
          BY <5>1 DEF KeyOf, Snap
        <5>3. e \notin cache
          BY <4>1, <4>2, <5>1, <5>2 DEF SingleFlight, Hit, Cached
        <5>4. PICK m \in req[r].batch :
                req[r].pc = "insert" /\ e = [key |-> KeyOf(r, m), dets |-> InputsOf(r, m)]
          BY <2>request, <4>1, <5>3, RequestTouches
        <5>5. req[q].snap.recognizer # NoModel /\ req[q].snap.fp = req[q].snap.recognizer
          BY <5>1 DEF GateAgrees, HoldsGate, KeysNameTheModel, AfterMl
        <5>6. req[r].snap.recognizer = NoModel /\ req[r].snap.fp = NoModel
          BY <4>4, <5>1, <5>4 DEF GateAgrees, HoldsGate, KeysNameTheModel, AfterMl
        <5>7. KeyOf(r, m) = KeyOf(q, l)
          BY <4>1, <5>2, <5>4
        <5>8. KeyOf(r, m).model = req[r].snap.fp /\ KeyOf(q, l).model = req[q].snap.fp
          BY DEF KeyOf, Snap
        <5>9. QED
          BY <5>5, <5>6, <5>7, <5>8
      <4>5. QED
        BY <4>3, <4>4
    <3>4. QED
      BY <3>1, <3>2, <3>3
  <2>applycap. CASE ApplyCap
    <3>1. UNCHANGED <<gate, req>> /\ cache' \subseteq cache
      BY <2>applycap DEF ApplyCap, SetCap
    <3>2. cap = 0 => cache = {}
      <4>1. IsFiniteSet(cache) /\ Cardinality(cache) \in Nat /\ cap \in Nat
            /\ Cardinality(cache) <= cap
        BY FS_CardinalityType DEF TypeInv, TypeOK
      <4>2. cap = 0 => Cardinality(cache) = 0
        BY <4>1
      <4>3. QED
        BY <4>1, <4>2, FS_EmptySet
    <3>3. GateAgrees' /\ KeysNameTheModel'
      BY <3>1 DEF GateAgrees, HoldsGate, KeysNameTheModel
    <3>4. SingleFlight'
      BY <3>1, <3>2 DEF SingleFlight, Hit, Cached, KeyOf, Snap
    <3>5. QED
      BY <3>3, <3>4
  <2>other. CASE UNCHANGED <<gate, req, cache, cap>>
    <3>1. GateAgrees' /\ KeysNameTheModel'
      BY <2>other DEF GateAgrees, HoldsGate, KeysNameTheModel
    <3>2. SingleFlight'
      BY <2>other DEF SingleFlight, Hit, Cached, KeyOf, Snap
    <3>3. QED
      BY <3>1, <3>2
  <2>rest. \/ \E r \in Requests : RequestStep(r)
           \/ ApplyCap
           \/ UNCHANGED <<gate, req, cache, cap>>
    BY DEF Next, vars, cacheVars, PutConfig, MlEnable, MlDisable, Begin, ToggleEnabled,
           Reconcile, SpawnLoad, ApplyRequired, ApplyDisable, FinishLoad, InstallSecrets,
           OpenIntake
  <2> QED
    BY <2>request, <2>applycap, <2>other, <2>rest
<1> QED
  BY <1>1, <1>2, TypeInvHolds, SlotInvHolds, PTL DEF Spec

(***************************************************************************)
(* The engine is consistent in every reachable state, for any number of    *)
(* requests, leaves, configurations and models: types and cache bound,     *)
(* single flight under ml_gate, the slot's agreement with its fingerprint, *)
(* its load and its generation, and slot and cache as the configuration    *)
(* asks between operations (ml_set_ready, reconcile_ml, set_config).       *)
(***************************************************************************)
THEOREM Consistent == Spec => []EngineConsistent
<1>1. TypeInv /\ SlotInv /\ GateInv => EngineConsistent
  <2> SUFFICES ASSUME TypeInv, SlotInv, GateInv
               PROVE  EngineConsistent
    OBVIOUS
  <2>1. TypeOK
    BY DEF TypeInv
  <2>2. [generation |-> ml.generation, model |-> ml.desired] \in loads =>
          ml.status = "Loading"
    BY DEF SlotInv, LoadsAgree
  <2>3. admin = Quiet => admin.step # "cap"
    BY DEF Quiet
  <2>4. QED
    BY <2>1, <2>2, <2>3
       DEF SlotInv, SlotAgrees, ControlAgrees, GateInv, SingleFlight, EngineConsistent
<1>2. QED
  BY <1>1, TypeInvHolds, SlotInvHolds, GateInvHolds, PTL

-----------------------------------------------------------------------------
(* What a request is masked with.                                          *)

\* The inputs that are live now are in the history of every request.
LiveIsKnown ==
    \A r \in Requests :
        /\ config.policy \in ever[r].policy /\ enabled \in ever[r].on
        /\ secrets \in ever[r].secrets /\ Active(ml) \in ever[r].model
        /\ ever[r].strict => enabled /\ ml.desired # NoModel /\ ml.required

\* So are the snapshots of the call a request is in; a strict request is
\* neither in a passthrough nor without a recognizer.
SnapshotsAreKnown ==
    \A r \in Requests :
        /\ req[r].pc \in AfterPolicy =>
             /\ req[r].snap.policy \in ever[r].policy /\ req[r].snap.on \in ever[r].on
             /\ ever[r].strict => req[r].snap.on
        /\ req[r].pc \in AfterSecrets =>
             req[r].snap.on /\ req[r].snap.secrets \in ever[r].secrets
        /\ req[r].pc \in AfterMl =>
             /\ req[r].snap.recognizer \in ever[r].model
             /\ ever[r].strict => req[r].snap.recognizer # NoModel

\* A cache entry was computed from the very inputs its key names.
EntriesAreTrue == \A e \in cache : e.dets = e.key

\* Nothing is spliced before intake.
NothingBeforeIntake == \A r \in Requests : req[r].pc = "idle" => req[r].out = {}

StrictIsScanned ==
    \A r \in Requests : \A o \in req[r].out : ever[r].strict => o.dets.model # NoModel

HistoryInv ==
    /\ LiveIsKnown /\ SnapshotsAreKnown /\ EntriesAreTrue /\ NothingBeforeIntake
    /\ MaskedUnderLiveInputs /\ StrictIsScanned

(***************************************************************************)
(* The history of a request that has started only grows, always holds what *)
(* is live, and stops being strict for good.                               *)
(***************************************************************************)
LEMMA HistoryGrows ==
    ASSUME Observe, NEW r \in Requests
    PROVE  /\ config'.policy \in ever'[r].policy /\ enabled' \in ever'[r].on
           /\ secrets' \in ever'[r].secrets /\ Active(ml)' \in ever'[r].model
           /\ ever'[r].strict => enabled' /\ ml'.desired # NoModel /\ ml'.required
           /\ req'[r].pc # "idle" =>
                /\ ever[r].policy \subseteq ever'[r].policy
                /\ ever[r].on \subseteq ever'[r].on
                /\ ever[r].secrets \subseteq ever'[r].secrets
                /\ ever[r].model \subseteq ever'[r].model
                /\ ever'[r].strict => ever[r].strict
<1>live. /\ Live'.policy = {config'.policy} /\ Live'.on = {enabled'}
         /\ Live'.secrets = {secrets'} /\ Live'.model = {Active(ml)'}
         /\ Live'.strict = (enabled' /\ ml'.desired # NoModel /\ ml'.required)
  BY DEF Live
<1>1. CASE req'[r].pc = "idle"
  <2>1. ever'[r] = Live'
    BY <1>1 DEF Observe
  <2>2. QED
    BY <1>live, <1>1, <2>1
<1>2. CASE req'[r].pc # "idle"
  <2>1. ever'[r] = Extended(ever[r], Live')
    BY <1>2 DEF Observe
  <2>2. /\ ever'[r].policy = ever[r].policy \cup Live'.policy
        /\ ever'[r].on = ever[r].on \cup Live'.on
        /\ ever'[r].secrets = ever[r].secrets \cup Live'.secrets
        /\ ever'[r].model = ever[r].model \cup Live'.model
        /\ ever'[r].strict = (ever[r].strict /\ Live'.strict)
    BY <2>1 DEF Extended
  <2>3. QED
    BY <1>live, <2>2
<1>3. QED
  BY <1>1, <1>2

(***************************************************************************)
(* The history invariant: it needs the slot's own agreement (a Ready slot  *)
(* has a recognizer, under its own fingerprint) and that a call's cache    *)
(* keys name the recognizer it runs.                                       *)
(***************************************************************************)
LEMMA HistoryInvHolds == Spec => []HistoryInv
<1> USE ModelAssumption
<1> USE DEF HistoryInv
<1>1. Init => HistoryInv
  <2> SUFFICES ASSUME Init PROVE HistoryInv
    OBVIOUS
  <2>1. \A r \in Requests : req[r].pc = "idle" /\ req[r].out = {} /\ ever[r] = Live
    BY DEF Init, InitialRequest
  <2>2. /\ Live.policy = {config.policy} /\ Live.on = {enabled}
        /\ Live.secrets = {secrets} /\ Live.model = {Active(ml)}
        /\ Live.strict = (enabled /\ ml.desired # NoModel /\ ml.required)
    BY DEF Live
  <2>3. LiveIsKnown
    BY <2>1, <2>2 DEF LiveIsKnown
  <2>4. SnapshotsAreKnown /\ NothingBeforeIntake /\ MaskedUnderLiveInputs /\ StrictIsScanned
    BY <2>1 DEF SnapshotsAreKnown, NothingBeforeIntake, MaskedUnderLiveInputs,
                StrictIsScanned, AfterPolicy, AfterSecrets, AfterMl
  <2>5. QED
    BY <2>3, <2>4 DEF Init, EntriesAreTrue
<1>2. TypeInv /\ SlotInv /\ GateInv /\ HistoryInv /\ [Next]_vars => HistoryInv'
  <2> SUFFICES ASSUME TypeInv, SlotInv, GateInv, HistoryInv, [Next]_vars
               PROVE  HistoryInv'
    OBVIOUS
  <2>idle. CASE UNCHANGED vars
    BY <2>idle
       DEF vars, policyVars, secretVars, cacheVars, LiveIsKnown, SnapshotsAreKnown,
           EntriesAreTrue, NothingBeforeIntake, MaskedUnderLiveInputs, StrictIsScanned, Active
  <2>observe. ~UNCHANGED vars => Observe
    BY DEF Next, RequestStep, Start, Prewarm, ReadPolicy, ReadSecrets, ReadMl, Lookup,
           TakeGate, Recheck, DetectOk, DetectErr, DetectPanic, InsertLeaf, PutConfig,
           MlEnable, MlDisable, ToggleEnabled, ApplyCap, Reconcile, SpawnLoad,
           ApplyRequired, ApplyDisable, FinishLoad, InstallSecrets, OpenIntake
  <2>live. Observe => LiveIsKnown'
    BY HistoryGrows DEF LiveIsKnown
  <2>still. ASSUME Observe, NEW q \in Requests, req'[q] = req[q]
            PROVE  /\ req'[q].pc \in AfterPolicy =>
                        /\ req'[q].snap.policy \in ever'[q].policy
                        /\ req'[q].snap.on \in ever'[q].on
                        /\ ever'[q].strict => req'[q].snap.on
                   /\ req'[q].pc \in AfterSecrets =>
                        req'[q].snap.on /\ req'[q].snap.secrets \in ever'[q].secrets
                   /\ req'[q].pc \in AfterMl =>
                        /\ req'[q].snap.recognizer \in ever'[q].model
                        /\ ever'[q].strict => req'[q].snap.recognizer # NoModel
                   /\ req'[q].pc = "idle" => req'[q].out = {}
                   /\ \A o \in req'[q].out :
                        /\ o.dets.policy \in ever'[q].policy
                        /\ o.dets.secrets \in ever'[q].secrets
                        /\ o.on => o.dets.model \in ever'[q].model
                        /\ o.on \in ever'[q].on
                        /\ ever'[q].strict => o.dets.model # NoModel
    <3>1. CASE req[q].pc = "idle"
      BY <2>still, <3>1 DEF NothingBeforeIntake, AfterPolicy, AfterSecrets, AfterMl
    <3>2. CASE req[q].pc # "idle"
      BY <2>still, <3>2, HistoryGrows
         DEF SnapshotsAreKnown, MaskedUnderLiveInputs, StrictIsScanned
    <3>3. QED
      BY <3>1, <3>2
  <2>request. ASSUME Observe, NEW r \in Requests, RequestStep(r)
              PROVE  HistoryInv'
    <3>moves. /\ \A q \in Requests \ {r} : req'[q] = req[q]
              /\ req'[r].pc # "idle" /\ CarriesSnapshot(r) /\ SplicesOne(r)
              /\ UNCHANGED <<config, enabled, secrets>>
      BY <2>request, RequestMoves DEF policyVars, secretVars
    <3>grows. /\ ever[r].policy \subseteq ever'[r].policy
              /\ ever[r].on \subseteq ever'[r].on
              /\ ever[r].secrets \subseteq ever'[r].secrets
              /\ ever[r].model \subseteq ever'[r].model
              /\ ever'[r].strict => ever[r].strict
      BY <2>request, <3>moves, HistoryGrows
    <3>1. SnapshotsAreKnown'
      <4> SUFFICES /\ req'[r].pc \in AfterPolicy =>
                        /\ req'[r].snap.policy \in ever'[r].policy
                        /\ req'[r].snap.on \in ever'[r].on
                        /\ ever'[r].strict => req'[r].snap.on
                   /\ req'[r].pc \in AfterSecrets =>
                        req'[r].snap.on /\ req'[r].snap.secrets \in ever'[r].secrets
                   /\ req'[r].pc \in AfterMl =>
                        /\ req'[r].snap.recognizer \in ever'[r].model
                        /\ ever'[r].strict => req'[r].snap.recognizer # NoModel
        BY <2>request, <2>still, <3>moves DEF SnapshotsAreKnown
      <4>1. ASSUME req'[r].pc \in AfterPolicy
            PROVE  /\ req'[r].snap.policy \in ever'[r].policy
                   /\ req'[r].snap.on \in ever'[r].on
                   /\ ever'[r].strict => req'[r].snap.on
        BY <3>moves, <3>grows, <4>1 DEF CarriesSnapshot, SnapshotsAreKnown, LiveIsKnown
      <4>2. ASSUME req'[r].pc \in AfterSecrets
            PROVE  req'[r].snap.on /\ req'[r].snap.secrets \in ever'[r].secrets
        BY <3>moves, <3>grows, <4>2 DEF CarriesSnapshot, SnapshotsAreKnown, LiveIsKnown
      <4>3. ASSUME req'[r].pc \in AfterMl
            PROVE  /\ req'[r].snap.recognizer \in ever'[r].model
                   /\ ever'[r].strict => req'[r].snap.recognizer # NoModel
        <5>1. CASE req[r].pc = "ml" /\ ~Refuses(ml) /\ req'[r].snap.recognizer = Active(ml)
          BY <3>grows, <5>1 DEF LiveIsKnown, Refuses, Active, SlotInv, SlotAgrees
        <5>2. CASE req[r].pc \in AfterMl /\ req'[r].snap.recognizer = req[r].snap.recognizer
          BY <3>grows, <5>2 DEF SnapshotsAreKnown
        <5>3. QED
          BY <3>moves, <4>3, <5>1, <5>2 DEF CarriesSnapshot
      <4>4. QED
        BY <4>1, <4>2, <4>3
    <3>2. EntriesAreTrue'
      <4> SUFFICES ASSUME NEW e \in cache', e \notin cache
                   PROVE  e.dets = e.key
        BY DEF EntriesAreTrue
      <4>1. PICK l \in req[r].batch :
              req[r].pc = "insert" /\ e = [key |-> KeyOf(r, l), dets |-> InputsOf(r, l)]
        BY <2>request, RequestTouches
      <4>2. req[r].snap.fp = req[r].snap.recognizer
        BY <4>1 DEF GateInv, KeysNameTheModel, AfterMl
      <4>3. QED
        BY <4>1, <4>2 DEF KeyOf, InputsOf, Snap
    <3>3. NothingBeforeIntake'
      BY <2>request, <2>still, <3>moves DEF NothingBeforeIntake
    <3>4. \A o \in req'[r].out :
            /\ o.dets.policy \in ever'[r].policy
            /\ o.dets.secrets \in ever'[r].secrets
            /\ o.on => o.dets.model \in ever'[r].model
            /\ o.on \in ever'[r].on
            /\ ever'[r].strict => o.dets.model # NoModel
      <4> SUFFICES ASSUME NEW o \in req'[r].out
                   PROVE  /\ o.dets.policy \in ever'[r].policy
                          /\ o.dets.secrets \in ever'[r].secrets
                          /\ o.on => o.dets.model \in ever'[r].model
                          /\ o.on \in ever'[r].on
                          /\ ever'[r].strict => o.dets.model # NoModel
        OBVIOUS
      <4>1. CASE o \in req[r].out
        BY <3>grows, <4>1 DEF MaskedUnderLiveInputs, StrictIsScanned
      <4>2. CASE o \notin req[r].out
        <5>1. PICK dets \in CacheKey :
                Spliced(r, dets) /\ o = [dets |-> dets, on |-> req[r].snap.on]
          BY <3>moves, <4>2 DEF SplicesOne
        <5>2. o.dets = dets /\ o.on = req[r].snap.on
          BY <5>1
        <5>3. CASE /\ req[r].pc = "secrets" /\ ~req[r].snap.on
                   /\ dets.policy = req[r].snap.policy /\ dets.secrets = secrets
                   /\ dets.model = NoModel
          BY <3>grows, <5>2, <5>3 DEF SnapshotsAreKnown, LiveIsKnown, AfterPolicy
        <5>4. CASE /\ req[r].pc \in AfterMl
                   /\ \E l \in req[r].batch :
                        \/ dets = InputsOf(r, l)
                        \/ \E e \in cache : e.key = KeyOf(r, l) /\ dets = e.dets
          <6>1. req[r].snap.fp = req[r].snap.recognizer
            BY <5>4 DEF GateInv, KeysNameTheModel
          <6>2. PICK l \in req[r].batch : dets = InputsOf(r, l)
            BY <5>4, <6>1 DEF EntriesAreTrue, InputsOf, KeyOf, Snap
          <6>3. /\ dets.policy = req[r].snap.policy /\ dets.secrets = req[r].snap.secrets
                /\ dets.model = req[r].snap.recognizer
            BY <6>2 DEF InputsOf, Snap
          <6>4. QED
            BY <3>grows, <5>2, <5>4, <6>3
               DEF SnapshotsAreKnown, AfterPolicy, AfterSecrets
        <5>5. QED
          BY <5>1, <5>3, <5>4 DEF Spliced
      <4>3. QED
        BY <4>1, <4>2
    <3>5. MaskedUnderLiveInputs' /\ StrictIsScanned'
      BY <2>request, <2>still, <3>moves, <3>4 DEF MaskedUnderLiveInputs, StrictIsScanned
    <3>6. QED
      BY <2>live, <2>request, <3>1, <3>2, <3>3, <3>5
  <2>other. ASSUME Observe, UNCHANGED req, cache' \subseteq cache
            PROVE  HistoryInv'
    <3>1. EntriesAreTrue'
      BY <2>other DEF EntriesAreTrue
    <3>2. SnapshotsAreKnown' /\ NothingBeforeIntake'
      BY <2>other, <2>still DEF SnapshotsAreKnown, NothingBeforeIntake
    <3>3. MaskedUnderLiveInputs' /\ StrictIsScanned'
      BY <2>other, <2>still DEF MaskedUnderLiveInputs, StrictIsScanned
    <3>4. QED
      BY <2>live, <2>other, <3>1, <3>2, <3>3
  <2>rest. \/ \E r \in Requests : RequestStep(r)
           \/ UNCHANGED req /\ cache' \subseteq cache
    BY DEF Next, vars, cacheVars, PutConfig, MlEnable, MlDisable, Begin, ToggleEnabled,
           ApplyCap, SetCap, Reconcile, SpawnLoad, ApplyRequired, ApplyDisable, FinishLoad,
           InstallSecrets, OpenIntake
  <2> QED
    BY <2>idle, <2>observe, <2>request, <2>other, <2>rest
<1> QED
  BY <1>1, <1>2, TypeInvHolds, SlotInvHolds, GateInvHolds, PTL DEF Spec

(***************************************************************************)
(* Whatever the cache, a slow recognizer or a reload in between supplies,  *)
(* every leaf a request sends was masked under a policy, a secret set, a   *)
(* model and a master switch that were live since that request began       *)
(* (CacheKey, DetectionCache, mask).                                       *)
(***************************************************************************)
THEOREM LiveInputs == Spec => []MaskedUnderLiveInputs
BY HistoryInvHolds, PTL DEF HistoryInv

\* With a required secret, intake opens only on the full set, which stays.
IntakeInv ==
    SecretSpecs = "required" =>
        /\ ready => secrets = "complete" /\ resolver = "ended"
        /\ \A r \in Requests :
             /\ req[r].pc # "idle" => ready
             /\ req[r].pc = "idle" => req[r].out = {}
             /\ req[r].pc \in AfterSecrets => req[r].snap.secrets = "complete"
             /\ \A o \in req[r].out : o.dets.secrets = "complete"

(***************************************************************************)
(* secrets_gate and the start-up task: nothing is masked before the full   *)
(* set is installed, and no cache entry of an earlier set is used after.   *)
(***************************************************************************)
LEMMA IntakeInvHolds == Spec => []IntakeInv
<1>1. Init => IntakeInv
  <2> SUFFICES ASSUME Init, SecretSpecs = "required" PROVE IntakeInv
    BY DEF IntakeInv
  <2>1. ~ready /\ \A r \in Requests : req[r].pc = "idle" /\ req[r].out = {}
    BY DEF Init, InitialRequest
  <2>2. QED
    BY <2>1 DEF IntakeInv, AfterSecrets, AfterMl
<1>2. TypeInv /\ HistoryInv /\ IntakeInv /\ [Next]_vars => IntakeInv'
  <2> SUFFICES ASSUME TypeInv, HistoryInv, IntakeInv, [Next]_vars, SecretSpecs = "required"
               PROVE  IntakeInv'
    BY DEF IntakeInv
  <2>request. ASSUME NEW r \in Requests, RequestStep(r)
              PROVE  IntakeInv'
    <3>moves. /\ \A q \in Requests \ {r} : req'[q] = req[q]
              /\ req'[r].pc # "idle" /\ CarriesSnapshot(r) /\ SplicesOne(r)
              /\ UNCHANGED <<secrets, ready, resolver>>
              /\ req[r].pc = "idle" => ready
      BY <2>request, RequestMoves DEF secretVars
    <3>ready. ready /\ secrets = "complete" /\ resolver = "ended"
      BY <3>moves DEF IntakeInv
    <3>1. req'[r].pc \in AfterSecrets => req'[r].snap.secrets = "complete"
      BY <3>moves, <3>ready DEF CarriesSnapshot, IntakeInv
    <3>2. ASSUME NEW o \in req'[r].out PROVE o.dets.secrets = "complete"
      <4>1. CASE o \in req[r].out
        BY <4>1 DEF IntakeInv
      <4>2. CASE o \notin req[r].out
        <5>1. PICK dets \in CacheKey :
                Spliced(r, dets) /\ o = [dets |-> dets, on |-> req[r].snap.on]
          BY <3>moves, <3>2, <4>2 DEF SplicesOne
        <5>2. CASE req[r].pc = "secrets"
          BY <3>ready, <5>1, <5>2 DEF Spliced, AfterMl
        <5>3. CASE req[r].pc # "secrets"
          <6>1. PICK l \in req[r].batch :
                  dets = InputsOf(r, l) \/ \E e \in cache : e.key = KeyOf(r, l) /\ dets = e.dets
            BY <5>1, <5>3 DEF Spliced
          <6>2. dets.secrets = req[r].snap.secrets
            BY <6>1 DEF HistoryInv, EntriesAreTrue, InputsOf, KeyOf, Snap
          <6>3. req[r].pc \in AfterSecrets
            BY <5>1, <5>3 DEF Spliced, AfterSecrets
          <6>4. QED
            BY <5>1, <6>2, <6>3 DEF IntakeInv
        <5>4. QED
          BY <5>2, <5>3
      <4>3. QED
        BY <4>1, <4>2
    <3>3. QED
      BY <3>moves, <3>ready, <3>1, <3>2 DEF IntakeInv
  <2>install. CASE InstallSecrets
    <3>1. ~ready /\ UNCHANGED <<ready, req>>
      BY <2>install DEF InstallSecrets, IntakeInv
    <3>2. QED
      BY <3>1 DEF IntakeInv
  <2>open. CASE OpenIntake
    <3>1. ~ready /\ UNCHANGED <<secrets, req>> /\ resolver' = "ended"
          /\ (ready' => secrets = "complete")
      BY <2>open DEF OpenIntake, IntakeInv
    <3>2. QED
      BY <3>1 DEF IntakeInv
  <2>other. CASE UNCHANGED <<secrets, ready, resolver, req>>
    BY <2>other DEF IntakeInv
  <2>rest. \/ \E r \in Requests : RequestStep(r)
           \/ InstallSecrets \/ OpenIntake
           \/ UNCHANGED <<secrets, ready, resolver, req>>
    BY DEF Next, vars, secretVars, PutConfig, MlEnable, MlDisable, Begin, ToggleEnabled,
           ApplyCap, Reconcile, SpawnLoad, ApplyRequired, ApplyDisable, FinishLoad
  <2> QED
    BY <2>request, <2>install, <2>open, <2>other, <2>rest
<1> QED
  BY <1>1, <1>2, TypeInvHolds, HistoryInvHolds, PTL DEF Spec

(***************************************************************************)
(* A request is never masked with less than it asks for: with ML required  *)
(* throughout it no leaf is spliced from regex-only detections, whatever   *)
(* loads, failures and reloads happen meanwhile (ml_for_mask); and with a  *)
(* required secret nothing is masked without the full set (secrets_gate).  *)
(***************************************************************************)
THEOREM NotDegraded == Spec => []NeverDegraded
<1>1. HistoryInv /\ IntakeInv => NeverDegraded
  BY DEF HistoryInv, StrictIsScanned, IntakeInv, NeverDegraded
<1>2. QED
  BY <1>1, HistoryInvHolds, IntakeInvHolds, PTL
=============================================================================

---------------------------- MODULE LaunchProofs ----------------------------
(***************************************************************************)
(* Launching a project's proxy, for any number of hooks, ports and port    *)
(* settings and any TTL.                                                   *)
(*                                                                         *)
(* The lock file of LaunchLock: its types, that two launchers can hold     *)
(* guards at once only after one of them had its lock file taken away by   *)
(* another launcher's rename or unlink, and that a rename which moves the  *)
(* lock that was judged moves an abandoned one.                            *)
(*                                                                         *)
(* The launches of ProxyLaunch: ensure_up adopts only a serving proxy of   *)
(* the project, a launcher only its own instance with its own salt, a      *)
(* successor's record survives outside the conceded gap, and a static port *)
(* never carries two proxies.                                              *)
(***************************************************************************)
EXTENDS LaunchLock, ProxyLaunch, FiniteSetTheorems, TLAPS

-----------------------------------------------------------------------------
(* The lock file.                                                          *)

(***************************************************************************)
(* Every variable keeps its type through every filesystem call, crash and  *)
(* clock step.                                                             *)
(***************************************************************************)
THEOREM LockTypes == LockSpec => []LockTypeOK
<1> USE TTLAssumption, TimeAssumption, NoLockAssumption
<1>1. LockInit => LockTypeOK
  BY DEF LockInit, LockTypeOK, Steps
<1>2. LockTypeOK /\ [LockNext]_lockVars => LockTypeOK'
  <2> SUFFICES ASSUME LockTypeOK, [LockNext]_lockVars
               PROVE  LockTypeOK'
    OBVIOUS
  <2> USE DEF LockTypeOK, Steps, Advance
  <2>attempt. ASSUME NEW p \in Launchers, Attempt(p)
        PROVE  LockTypeOK'
    <3>1. Body(p) \in LockBody
      BY DEF Body, LockBody
    <3>2. CASE Start(p)
      BY <3>2 DEF Start
    <3>3. CASE Create(p)
      BY <3>1, <3>3 DEF Create, TryCreateLock
    <3>4. CASE ReadLock(p)
      BY <3>4 DEF ReadLock
    <3>5. CASE Judge(p)
      BY <3>5 DEF Judge
    <3>6. CASE ClaimByRename(p)
      BY <3>6 DEF ClaimByRename, RemoveLock, LockBody
    <3>7. CASE Recreate(p)
      BY <3>1, <3>7 DEF Recreate, TryCreateLock
    <3>8. CASE IoError(p)
      BY <3>8 DEF IoError
    <3>9. QED
      BY <2>attempt, <3>2, <3>3, <3>4, <3>5, <3>6, <3>7, <3>8 DEF Attempt
  <2>drop. ASSUME NEW p \in Launchers, Drop(p)
        PROVE  LockTypeOK'
    <3>1. CASE DropCheck(p)
      BY <3>1 DEF DropCheck
    <3>2. CASE DropUnlink(p)
      BY <3>2 DEF DropUnlink, RemoveLock, LockBody
    <3>3. QED
      BY <2>drop, <3>1, <3>2 DEF Drop
  <2>die. ASSUME NEW p \in Launchers, Die(p)
        PROVE  LockTypeOK'
    BY <2>die DEF Die
  <2>reuse. ASSUME NEW p \in Launchers, PidReassigned(p)
        PROVE  LockTypeOK'
    BY <2>reuse DEF PidReassigned
  <2>tick. CASE Tick
    BY <2>tick DEF Tick
  <2>idle. CASE UNCHANGED lockVars
    BY <2>idle DEF lockVars
  <2> QED
    BY <2>attempt, <2>drop, <2>die, <2>reuse, <2>tick, <2>idle DEF LockNext
<1>3. QED
  BY <1>1, <1>2, PTL DEF LockSpec

(***************************************************************************)
(* A guard whose file nobody removed has its own body at the lock path.    *)
(* This is the inductive core: hard_link creates only on an empty path, a  *)
(* body is fixed before it is written, and every removal by another        *)
(* launcher is recorded in displaced.                                      *)
(***************************************************************************)
THEOREM HolderOwns == LockSpec => []HolderOwnsLock
<1> USE NoLockAssumption
<1>1. LockInit => HolderOwnsLock
  BY DEF LockInit, HolderOwnsLock, Holds
<1>2. LockTypeOK /\ HolderOwnsLock /\ [LockNext]_lockVars => HolderOwnsLock'
  <2> SUFFICES ASSUME LockTypeOK, HolderOwnsLock, [LockNext]_lockVars,
                      NEW h \in Launchers, Holds(h)', h \notin displaced'
               PROVE  (lockFile = Body(h))'
    BY DEF HolderOwnsLock
  <2> USE DEF LockTypeOK, Advance, Holds, Body
  <2>body. Body(h) # NoLock
    BY DEF LockBody
  <2>attempt. ASSUME NEW p \in Launchers, Attempt(p)
        PROVE  (lockFile = Body(h))'
    <3>1. CASE Start(p)
      BY <3>1 DEF Start, HolderOwnsLock
    <3>2. CASE Create(p)
      BY <2>body, <3>2 DEF Create, TryCreateLock, HolderOwnsLock
    <3>3. CASE ReadLock(p)
      BY <3>3 DEF ReadLock, HolderOwnsLock
    <3>4. CASE Judge(p)
      BY <3>4 DEF Judge, HolderOwnsLock
    <3>5. CASE ClaimByRename(p)
      BY <3>5 DEF ClaimByRename, RemoveLock, HolderOwnsLock
    <3>6. CASE Recreate(p)
      BY <2>body, <3>6 DEF Recreate, TryCreateLock, HolderOwnsLock
    <3>7. CASE IoError(p)
      BY <3>7 DEF IoError, HolderOwnsLock
    <3>8. QED
      BY <2>attempt, <3>1, <3>2, <3>3, <3>4, <3>5, <3>6, <3>7 DEF Attempt
  <2>drop. ASSUME NEW p \in Launchers, Drop(p)
        PROVE  (lockFile = Body(h))'
    <3>1. CASE DropCheck(p)
      BY <3>1 DEF DropCheck, HolderOwnsLock
    <3>2. CASE DropUnlink(p)
      BY <3>2 DEF DropUnlink, RemoveLock, HolderOwnsLock
    <3>3. QED
      BY <2>drop, <3>1, <3>2 DEF Drop
  <2>die. ASSUME NEW p \in Launchers, Die(p)
        PROVE  (lockFile = Body(h))'
    BY <2>die DEF Die, HolderOwnsLock
  <2>reuse. ASSUME NEW p \in Launchers, PidReassigned(p)
        PROVE  (lockFile = Body(h))'
    BY <2>reuse DEF PidReassigned, HolderOwnsLock
  <2>tick. CASE Tick
    BY <2>tick DEF Tick, HolderOwnsLock
  <2>idle. CASE UNCHANGED lockVars
    BY <2>idle DEF lockVars, HolderOwnsLock
  <2> QED
    BY <2>attempt, <2>drop, <2>die, <2>reuse, <2>tick, <2>idle DEF LockNext
<1>3. QED
  BY <1>1, <1>2, LockTypes, PTL DEF LockSpec

(***************************************************************************)
(* Two simultaneous guards imply that a third party's rename or a late     *)
(* unlink took one of the two lock files: without a reclaim, the launch    *)
(* lock of try_launch_lock is exclusive.                                   *)
(***************************************************************************)
THEOREM Exclusion == LockSpec => []SingleUndisplacedHolder
<1>1. HolderOwnsLock => SingleUndisplacedHolder
  BY DEF HolderOwnsLock, SingleUndisplacedHolder, Body
<1>2. QED
  BY <1>1, HolderOwns, PTL

-----------------------------------------------------------------------------
(* What a reclaim rests on, one part per fact.                             *)

\* kill(pid, 0) succeeds for every launcher that runs.
RunningIsLive ==
    \A p \in Launchers : step[p] \notin {"idle", "dead"} => p \in livePids

\* A body at the lock path, or read from it, was written by a launcher that ran.
BodiesAreOfStarted ==
    /\ lockFile # NoLock => step[lockFile.nonce] # "idle"
    /\ \A p \in Launchers : seen[p] # NoLock => step[seen[p].nonce] # "idle"

\* A launcher judges and claims only a body it has read.
JudgesWhatItRead ==
    \A p \in Launchers : step[p] \in {"judge", "claim"} => seen[p] # NoLock

\* The verdict of Judge still stands when the rename comes: a dead process
\* stays dead, even if its pid is reused, and an age only grows.
VerdictStands ==
    \A p \in Launchers : step[p] = "claim" => Abandoned(seen[p])

ReclaimInv == RunningIsLive /\ BodiesAreOfStarted /\ JudgesWhatItRead /\ VerdictStands

(***************************************************************************)
(* The nonce and the start time of a body that is not NoLock.              *)
(***************************************************************************)
LEMMA BodyFields ==
    ASSUME NEW b \in LockBody \cup {NoLock}, b # NoLock
    PROVE  b.nonce \in Launchers /\ b.started \in Nat
BY DEF LockBody

(***************************************************************************)
(* Between the liveness probe of is_reclaimable and the rename anything    *)
(* may happen: the pid may be given to a new process, the clock may        *)
(* advance, the lock may change hands.  Whenever the rename still finds    *)
(* the judged body, that body's launcher is dead or past the TTL.          *)
(***************************************************************************)
THEOREM JustClaims == LockSpec => []ClaimOfJudgedLockIsJust
<1> USE TTLAssumption, TimeAssumption, NoLockAssumption
<1>1. LockInit => ReclaimInv
  BY DEF LockInit, ReclaimInv, RunningIsLive, BodiesAreOfStarted, JudgesWhatItRead,
         VerdictStands
<1>2. LockTypeOK /\ ReclaimInv /\ [LockNext]_lockVars => ReclaimInv'
  <2> SUFFICES ASSUME LockTypeOK, ReclaimInv, [LockNext]_lockVars
               PROVE  ReclaimInv'
    OBVIOUS
  <2> USE DEF LockTypeOK, Advance, lockVars, LockNext, Attempt, Start, Create, TryCreateLock, ReadLock,
              Judge, ClaimByRename, RemoveLock, Recreate, IoError, Drop, DropCheck,
              DropUnlink, Die, PidReassigned, Tick
  <2>fields. /\ lockFile # NoLock => lockFile.nonce \in Launchers
             /\ \A p \in Launchers : seen[p] # NoLock =>
                   seen[p].nonce \in Launchers /\ seen[p].started \in Nat
    BY BodyFields
  <2>live. RunningIsLive'
    BY DEF ReclaimInv, RunningIsLive
  <2>started. \A p \in Launchers : step[p] # "idle" => step'[p] # "idle"
    OBVIOUS
  <2>lock. lockFile' # lockFile => \/ lockFile' = NoLock
                           \/ \E p \in Launchers : lockFile' = Body(p) /\ step'[p] = "held"
    OBVIOUS
  <2>seen. \A p \in Launchers : seen'[p] # seen[p] => seen'[p] \in {lockFile, NoLock}
    OBVIOUS
  <2>bodies. BodiesAreOfStarted'
    BY <2>fields, <2>started, <2>lock, <2>seen
       DEF ReclaimInv, BodiesAreOfStarted, Body
  <2>read. JudgesWhatItRead'
    BY DEF ReclaimInv, JudgesWhatItRead
  <2>verdict. VerdictStands'
    <3> SUFFICES ASSUME NEW p \in Launchers, step'[p] = "claim"
                 PROVE  Abandoned(seen[p])'
      BY DEF VerdictStands
    <3>same. seen'[p] = seen[p] /\ seen[p] # NoLock
      BY <2>read DEF JudgesWhatItRead
    <3>grows. \A b \in LockBody : Age(b) > TTL => (Age(b) > TTL)'
      <4>1. now' \in {now, now + 1}
        OBVIOUS
      <4>2. QED
        BY <4>1 DEF Age, LockBody
    <3>dead. step[seen[p].nonce] = "dead" => step'[seen[p].nonce] = "dead"
      BY <2>fields, <3>same
    <3>was. Abandoned(seen[p])
      <4>1. CASE step[p] = "claim"
        BY <4>1 DEF ReclaimInv, VerdictStands
      <4>2. CASE step[p] # "claim"
        <5>1. Judge(p)
          BY <4>2
        <5>2. IsReclaimable(seen[p])
          BY <5>1 DEF Judge
        <5>3. QED
          BY <2>fields, <3>same, <5>2
             DEF IsReclaimable, Abandoned, ReclaimInv, RunningIsLive, BodiesAreOfStarted
      <4>3. QED
        BY <4>1, <4>2
    <3>qed. QED
      BY <3>same, <3>grows, <3>dead, <3>was DEF Abandoned
  <2> QED
    BY <2>live, <2>bodies, <2>read, <2>verdict DEF ReclaimInv
<1>3. ReclaimInv => ClaimOfJudgedLockIsJust
  BY DEF ReclaimInv, VerdictStands, ClaimOfJudgedLockIsJust
<1>4. QED
  BY <1>1, <1>2, <1>3, LockTypes, PTL DEF LockSpec

-----------------------------------------------------------------------------
(* The launches.                                                           *)

\* A hook that has not spawned yet has no proxy.
Unspawned == {"idle", "probe", "signal", "stopping", "salt", "lock", "spawn"}
SpawnsOnce == \A h \in Hooks : pc[h] \in Unspawned => proxy[h] = "none"

\* The salt is fixed before the lock is tried, and every proxy was given one.
SaltIsFixed ==
    \A h \in Hooks :
        pc[h] \in {"lock", "spawn"} \/ proxy[h] # "none" => hsalt[h] \in Hooks

\* A record names a proxy that was spawned, and carries that proxy's salt.
IsOurs(r) == r # NoRec => proxy[r.nonce] # "none" /\ r.salt = hsalt[r.nonce]
RecordsAreOurs == IsOurs(rec) /\ \A h \in Hooks : IsOurs(hrec[h])

\* A hook probes, signals and stops only what it has read from a record.
ProbesWhatItRead ==
    \A h \in Hooks :
        pc[h] \in {"probe", "signal", "stopping", "pollOwn", "pollAny"} => hrec[h] # NoRec

LaunchInv == TypeOK /\ SpawnsOnce /\ SaltIsFixed /\ RecordsAreOurs /\ ProbesWhatItRead

(***************************************************************************)
(* Types, together with what they rest on: a publish writes the salt the   *)
(* hook handed over, and SIGKILL goes to a recorded pid.                   *)
(***************************************************************************)
LEMMA LaunchInvHolds == Spec => []LaunchInv
<1> USE PortAssumption, AbsentAssumption
<1> USE DEF LaunchInv
<1>1. Init => LaunchInv
  BY DEF Init, TypeOK, SpawnsOnce, SaltIsFixed, RecordsAreOurs, IsOurs, ProbesWhatItRead,
         ProxyStates, HookSteps, Unspawned
<1>2. LaunchInv /\ [Next]_vars => LaunchInv'
  <2> SUFFICES ASSUME LaunchInv, [Next]_vars
               PROVE  LaunchInv'
    OBVIOUS
  <2>fields. /\ rec # NoRec => rec.nonce \in Hooks /\ rec.port \in Ports /\ rec.salt \in Hooks
             /\ \A h \in Hooks : hrec[h] # NoRec =>
                  hrec[h].nonce \in Hooks /\ hrec[h].port \in Ports /\ hrec[h].salt \in Hooks
    BY DEF TypeOK, Record
  <2> USE DEF vars, hookVars, proxyVars, Goto, ProxyStates, HookSteps, Unspawned
  <2>hook. ASSUME NEW h \in Hooks, HookStep(h)
           PROVE  LaunchInv'
    <3>1. CASE ReadRecord(h)
      <4>1. TypeOK'
        BY <3>1 DEF ReadRecord, TypeOK
      <4>2. QED
        BY <3>1, <4>1 DEF ReadRecord, LiveRecord, TypeOK, SpawnsOnce, SaltIsFixed,
                          RecordsAreOurs, IsOurs, ProbesWhatItRead
    <3>2. CASE Probe(h)
      BY <3>2 DEF Probe, TypeOK, SpawnsOnce, SaltIsFixed, RecordsAreOurs, IsOurs,
                  ProbesWhatItRead
    <3>3. CASE Signal(h)
      BY <2>fields, <3>3 DEF Signal, TypeOK, SpawnsOnce, SaltIsFixed, RecordsAreOurs, IsOurs,
                  ProbesWhatItRead
    <3>4. CASE StopProxy(h)
      <4>0. hrec[h] # NoRec /\ hrec[h].nonce \in Hooks /\ proxy[hrec[h].nonce] # "none"
        BY <2>fields, <3>4 DEF StopProxy, ProbesWhatItRead, RecordsAreOurs, IsOurs
      <4>1. TypeOK'
        BY <3>4, <4>0 DEF StopProxy, Vanish, Unbound, TypeOK
      <4>2. QED
        BY <2>fields, <3>4, <4>0, <4>1 DEF StopProxy, Vanish, TypeOK, SpawnsOnce, SaltIsFixed,
                          RecordsAreOurs, IsOurs, ProbesWhatItRead
    <3>5. CASE ReadSalt(h)
      <4>1. TypeOK' /\ hsalt'[h] \in Hooks
        BY <2>fields, <3>5 DEF ReadSalt, TypeOK
      <4>2. proxy[h] = "none" /\ proxy' = proxy
        BY <3>5 DEF ReadSalt, SpawnsOnce
      <4>3. RecordsAreOurs'
        BY <2>fields, <3>5, <4>2 DEF ReadSalt, TypeOK, RecordsAreOurs, IsOurs
      <4>4. QED
        BY <3>5, <4>1, <4>2, <4>3 DEF ReadSalt, TypeOK, SpawnsOnce, SaltIsFixed,
                  ProbesWhatItRead
    <3>6. CASE TryLaunchLock(h)
      BY <3>6 DEF TryLaunchLock, TypeOK, SpawnsOnce, SaltIsFixed, RecordsAreOurs, IsOurs,
                  ProbesWhatItRead
    <3>7. CASE Spawn(h)
      <4>1. TypeOK'
        BY <3>7 DEF Spawn, Release, TypeOK
      <4>2. QED
        BY <2>fields, <3>7, <4>1 DEF Spawn, TypeOK, SpawnsOnce, SaltIsFixed, RecordsAreOurs,
                          IsOurs, ProbesWhatItRead
    <3>8. CASE PollRecord(h)
      BY <3>8 DEF PollRecord, Polling, Waiting, LiveRecord, TypeOK, SpawnsOnce, SaltIsFixed,
                  RecordsAreOurs, IsOurs, ProbesWhatItRead
    <3>9. CASE PollProbe(h)
      BY <3>9 DEF PollProbe, Release, TypeOK, SpawnsOnce, SaltIsFixed,
                  RecordsAreOurs, IsOurs, ProbesWhatItRead
    <3>10. CASE GiveUp(h)
      BY <3>10 DEF GiveUp, Release, Waiting, TypeOK, SpawnsOnce, SaltIsFixed,
                  RecordsAreOurs, IsOurs, ProbesWhatItRead
    <3>11. CASE HookDies(h)
      BY <3>11 DEF HookDies, TypeOK, SpawnsOnce, SaltIsFixed,
                  RecordsAreOurs, IsOurs, ProbesWhatItRead
    <3>12. QED
      BY <2>hook, <3>1, <3>2, <3>3, <3>4, <3>5, <3>6, <3>7, <3>8, <3>9, <3>10, <3>11
         DEF HookStep
  <2>proxy. ASSUME NEW n \in Hooks, ProxyStep(n)
            PROVE  LaunchInv'
    <3>0. /\ UNCHANGED hookVars /\ proxy' \in [Hooks -> ProxyStates]
          /\ \A m \in Hooks : proxy'[m] = "none" <=> proxy[m] = "none"
          /\ listener' \in [Ports -> Hooks \cup {Free, Foreign}]
      BY <2>proxy DEF TypeOK, ProxyStep, Bind, BindChoices, Publish, Serve, Drain,
                      CleanupCheck, CleanupRemove, ProxyDies, Vanish, Unbound
    <3>1. CASE Publish(n)
      <4>1. hsalt[n] \in Hooks
        BY <3>1 DEF Publish, SaltIsFixed
      <4>2. rec' \in Record \cup {NoRec} /\ IsOurs(rec)'
        BY <2>fields, <3>0, <3>1, <4>1 DEF Publish, TypeOK, Record, RecordsAreOurs, IsOurs
      <4>3. QED
        BY <2>fields, <3>0, <3>1, <4>2 DEF Publish, TypeOK, SpawnsOnce, SaltIsFixed,
                      RecordsAreOurs, IsOurs, ProbesWhatItRead
    <3>2. CASE ~Publish(n)
      <4>1. rec' \in {rec, NoRec} /\ TypeOK'
        BY <2>proxy, <3>0, <3>2
           DEF TypeOK, ProxyStep, Bind, Serve, Drain, CleanupCheck, CleanupRemove,
               ProxyDies, Vanish
      <4>2. QED
        BY <2>fields, <3>0, <4>1 DEF SpawnsOnce, SaltIsFixed,
                      RecordsAreOurs, IsOurs, ProbesWhatItRead
    <3>3. QED
      BY <3>1, <3>2
  <2>env. CASE Environment
    <3>1. /\ UNCHANGED <<hookVars, proxy, rec>> /\ TypeOK'
      BY <2>env DEF Environment, Terminate, PidReuse, ForeignTakesPort, ForeignLeavesPort,
                    TypeOK
    <3>2. QED
      BY <2>fields, <3>1 DEF SpawnsOnce, SaltIsFixed,
                      RecordsAreOurs, IsOurs, ProbesWhatItRead
  <2>idle. CASE UNCHANGED vars
    BY <2>idle DEF TypeOK, SpawnsOnce, SaltIsFixed, RecordsAreOurs, IsOurs, ProbesWhatItRead
  <2> QED
    BY <2>hook, <2>proxy, <2>env, <2>idle DEF Next
<1> QED
  BY <1>1, <1>2, PTL DEF Spec

(***************************************************************************)
(* ensure_up answers Ours only for a port on which a proxy of this project *)
(* is serving, and a hook that spawned only for its own instance, which    *)
(* carries the salt it handed over: stolen ports, reused pids and          *)
(* concurrent publishes never divert a session (proxy_identity,            *)
(* wait_for_live's expect_nonce).                                          *)
(***************************************************************************)
THEOREM AdoptsOurs == Spec => AdoptsOnlyOurProxy
<1> USE PortAssumption, AbsentAssumption
<1> DEFINE Adopts == \A h \in Hooks :
          pc[h] # "ours" /\ pc'[h] = "ours" =>
              /\ listener[hrec[h].port] \in Serving
              /\ pc[h] = "pollOwn" => proxy[h] = "serving" /\ hrec[h].salt = hsalt[h]
<1>1. LaunchInv /\ [Next]_vars => [Adopts]_vars
  <2> SUFFICES ASSUME LaunchInv, Next, NEW h \in Hooks, pc[h] # "ours", pc'[h] = "ours"
               PROVE  /\ listener[hrec[h].port] \in Serving
                      /\ pc[h] = "pollOwn" => proxy[h] = "serving" /\ hrec[h].salt = hsalt[h]
    OBVIOUS
  <2>1. Probe(h) \/ PollProbe(h)
    BY DEF LaunchInv, TypeOK, Next, HookStep, ReadRecord, Probe, Signal, StopProxy, ReadSalt,
           TryLaunchLock, Spawn, PollRecord, Polling, PollProbe, GiveUp, HookDies, ProxyStep,
           Bind, Publish, Serve, Drain, CleanupCheck, CleanupRemove, ProxyDies, Environment,
           Terminate, PidReuse, ForeignTakesPort, ForeignLeavesPort, Goto, hookVars
  <2>2. /\ Answers(hrec[h]) /\ pc[h] \in {"probe", "pollOwn", "pollAny"}
        /\ pc[h] = "pollOwn" => hrec[h].nonce = h
    BY <2>1 DEF LaunchInv, TypeOK, Probe, PollProbe, Acceptable, Goto
  <2>3. hrec[h] # NoRec /\ hrec[h].nonce \in Hooks /\ hrec[h].salt = hsalt[hrec[h].nonce]
    BY <2>2 DEF LaunchInv, TypeOK, Record, ProbesWhatItRead, RecordsAreOurs, IsOurs
  <2>4. QED
    BY <2>2, <2>3 DEF Answers, Serving
<1>2. QED
  BY <1>1, LaunchInvHolds, PTL DEF Spec, AdoptsOnlyOurProxy

\* A proxy that is about to unlink found its own record, or was overtaken.
UnlinksItsOwn ==
    \A n \in Hooks :
        proxy[n] = "unlinking" /\ rec # NoRec => rec.nonce = n \/ n \in overtaken

(***************************************************************************)
(* A record disappears only by its own proxy's cleanup, or by one that was *)
(* overtaken by a publish between its check and its unlink: the gap that   *)
(* rendezvous_remove_if_owned concedes is the only one.                    *)
(***************************************************************************)
THEOREM SuccessorSurvives == Spec => SuccessorRecordSurvives
<1> USE PortAssumption, AbsentAssumption
<1> USE DEF hookVars, proxyVars, Goto
<1> DEFINE Survives ==
        rec # NoRec /\ rec' = NoRec
        => \E n \in {rec.nonce} \cup overtaken :
              proxy[n] = "unlinking" /\ proxy'[n] = "dead"
<1>1. Init => UnlinksItsOwn
  BY DEF Init, UnlinksItsOwn
<1>2. LaunchInv /\ UnlinksItsOwn /\ [Next]_vars => UnlinksItsOwn'
  <2> SUFFICES ASSUME LaunchInv, UnlinksItsOwn, [Next]_vars
               PROVE  UnlinksItsOwn'
    OBVIOUS
  <2>hook. ASSUME NEW h \in Hooks, HookStep(h)
           PROVE  UnlinksItsOwn'
    <3>1. CASE StopProxy(h) \/ Spawn(h)
      <4>1. hrec[h].nonce \in Hooks \/ ~StopProxy(h)
        BY DEF StopProxy, LaunchInv, TypeOK, Record, ProbesWhatItRead
      <4>2. UNCHANGED <<rec, overtaken>>
            /\ \A n \in Hooks : proxy'[n] = "unlinking" => proxy[n] = "unlinking"
        BY <3>1, <4>1 DEF StopProxy, Spawn, Vanish, LaunchInv, TypeOK
      <4>3. QED
        BY <4>2 DEF UnlinksItsOwn
    <3>2. CASE ~StopProxy(h) /\ ~Spawn(h)
      <4>1. UNCHANGED <<rec, overtaken, proxy>>
        BY <2>hook, <3>2 DEF HookStep, ReadRecord, Probe, Signal, ReadSalt, TryLaunchLock,
                             PollRecord, PollProbe, GiveUp, HookDies
      <4>2. QED
        BY <4>1 DEF UnlinksItsOwn
    <3>3. QED
      BY <3>1, <3>2
  <2>proxy. ASSUME NEW n \in Hooks, ProxyStep(n)
            PROVE  UnlinksItsOwn'
    <3>1. CASE Publish(n)
      BY <3>1 DEF Publish, UnlinksItsOwn, LaunchInv, TypeOK
    <3>2. CASE CleanupCheck(n) \/ CleanupRemove(n)
      BY <3>2 DEF CleanupCheck, CleanupRemove, UnlinksItsOwn, LaunchInv, TypeOK
    <3>3. CASE Bind(n) \/ Serve(n) \/ Drain(n) \/ ProxyDies(n)
      BY <3>3 DEF Bind, Serve, Drain, ProxyDies, Vanish, UnlinksItsOwn, LaunchInv, TypeOK
    <3>4. QED
      BY <2>proxy, <3>1, <3>2, <3>3 DEF ProxyStep
  <2>env. CASE Environment
    BY <2>env DEF Environment, Terminate, PidReuse, ForeignTakesPort, ForeignLeavesPort,
                  UnlinksItsOwn
  <2>idle. CASE UNCHANGED vars
    BY <2>idle DEF vars, UnlinksItsOwn
  <2> QED
    BY <2>hook, <2>proxy, <2>env, <2>idle DEF Next
<1>3. LaunchInv /\ UnlinksItsOwn /\ [Next]_vars => [Survives]_vars
  <2> SUFFICES ASSUME LaunchInv, UnlinksItsOwn, Next, rec # NoRec, rec' = NoRec
               PROVE  \E n \in {rec.nonce} \cup overtaken :
                        proxy[n] = "unlinking" /\ proxy'[n] = "dead"
    OBVIOUS
  <2>1. PICK n \in Hooks : CleanupRemove(n)
    BY DEF LaunchInv, TypeOK, Record, Next, HookStep, ReadRecord, Probe, Signal, StopProxy,
           ReadSalt, TryLaunchLock, Spawn, PollRecord, PollProbe, GiveUp, HookDies, ProxyStep,
           Bind, Publish, Serve, Drain, CleanupCheck, CleanupRemove, ProxyDies, Environment,
           Terminate, PidReuse, ForeignTakesPort, ForeignLeavesPort, SaltIsFixed
  <2>2. n \in {rec.nonce} \cup overtaken /\ proxy[n] = "unlinking" /\ proxy'[n] = "dead"
    BY <2>1 DEF CleanupRemove, UnlinksItsOwn, LaunchInv, TypeOK
  <2>3. QED
    BY <2>2
<1>4. QED
  BY <1>1, <1>2, <1>3, LaunchInvHolds, PTL DEF Spec, SuccessorRecordSurvives

\* A proxy listens on the static port or nowhere.
ListensOnPin ==
    pinned # NoPort => \A p \in Ports : listener[p] \in Hooks => p = pinned

(***************************************************************************)
(* Types hold, and under a static [proxy] port at most one proxy is on the *)
(* network, whatever launchers race: bind_listener takes the static port   *)
(* or refuses.                                                             *)
(***************************************************************************)
THEOREM SinglePinned == Spec => []SinglePinnedProxy
<1> USE PortAssumption, AbsentAssumption
<1> USE DEF hookVars, proxyVars, Goto
<1>1. Init => ListensOnPin
  BY DEF Init, ListensOnPin
<1>2. LaunchInv /\ ListensOnPin /\ [Next]_vars => ListensOnPin'
  <2> SUFFICES ASSUME LaunchInv, ListensOnPin, [Next]_vars
               PROVE  ListensOnPin'
    OBVIOUS
  <2>1. ASSUME NEW n \in Hooks, Bind(n)
        PROVE  ListensOnPin'
    BY <2>1 DEF Bind, BindChoices, ListensOnPin, LaunchInv, TypeOK
  <2>2. CASE ~\E n \in Hooks : Bind(n)
    <3>1. /\ pinned' = pinned
          /\ \A p \in Ports : listener'[p] \in {listener[p], Free, Foreign}
      BY <2>2 DEF LaunchInv, TypeOK, Next, HookStep, ReadRecord, Probe, Signal, StopProxy,
           Vanish, Unbound, ReadSalt, TryLaunchLock, Spawn, PollRecord, PollProbe, GiveUp,
           HookDies, ProxyStep, Publish, Serve, Drain, CleanupCheck, CleanupRemove,
           ProxyDies, Environment, Terminate, PidReuse, ForeignTakesPort, ForeignLeavesPort,
           vars
    <3>2. QED
      BY <3>1 DEF ListensOnPin
  <2>3. QED
    BY <2>1, <2>2
<1>3. LaunchInv /\ ListensOnPin => SinglePinnedProxy
  <2> SUFFICES ASSUME LaunchInv, ListensOnPin, pinned # NoPort
               PROVE  Cardinality({n \in Hooks : \E p \in Ports : listener[p] = n}) <= 1
    BY DEF SinglePinnedProxy, LaunchInv
  <2> DEFINE bound == {n \in Hooks : \E p \in Ports : listener[p] = n}
             one == {listener[pinned]}
  <2>1. bound \in SUBSET one
    BY DEF ListensOnPin
  <2>2. IsFiniteSet(one) /\ Cardinality(one) = 1
    BY FS_Singleton
  <2> HIDE DEF bound, one
  <2>3. Cardinality(bound) <= Cardinality(one)
    BY <2>1, <2>2, FS_Subset
  <2>4. QED
    BY <2>2, <2>3 DEF bound
<1>4. QED
  BY <1>1, <1>2, <1>3, LaunchInvHolds, PTL DEF Spec
=============================================================================

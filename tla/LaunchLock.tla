----------------------------- MODULE LaunchLock -----------------------------
(***************************************************************************)
(* The per-project launch lock of zlauder-state: a file whose existence    *)
(* decides which hook process may spawn the project's proxy.  Every action *)
(* is one filesystem call of try_launch_lock or of LaunchLock::drop, so    *)
(* the calls of several launchers interleave.  A launcher is one hook      *)
(* process; its pid and its random nonce are both identified with it.      *)
(***************************************************************************)
EXTENDS Naturals, FiniteSets

CONSTANTS
    Launchers,  \* hook processes that try to launch the proxy of one project
    TTL,        \* LAUNCH_LOCK_TTL_SECS
    MaxTime,    \* bound: the clock stops here
    NoLock      \* the lock file does not exist

LockBody == [nonce : Launchers, started : Nat]

ASSUME TTLAssumption  == TTL \in Nat
ASSUME TimeAssumption == MaxTime \in Nat
ASSUME NoLockAssumption == NoLock \notin LockBody

VARIABLES
    now,        \* now_unix()
    lockFile,   \* content of <key>.lock, or NoLock
    step,       \* where each launcher is
    started,    \* started_unix of the body each launcher wants to write
    seen,       \* the body each launcher read from an existing lock file
    livePids,   \* the pids for which kill(pid, 0) succeeds
    displaced   \* history: launchers whose lock file another launcher removed

lockVars == <<now, lockFile, step, started, seen, livePids, displaced>>

(***************************************************************************)
(* "held" is the RAII guard; "lost" is Ok(None); "failed" is Err; "done"   *)
(* is a dropped guard; "dead" is an exited or crashed process.             *)
(***************************************************************************)
Steps == {"idle", "create", "read", "judge", "claim", "recreate", "held",
          "unlink", "lost", "failed", "done", "dead"}

\* Types of the lock file, the clock and the launchers.
LockTypeOK ==
    /\ now \in 0 .. MaxTime
    /\ lockFile \in LockBody \cup {NoLock}
    /\ step \in [Launchers -> Steps]
    /\ started \in [Launchers -> 0 .. MaxTime]
    /\ seen \in [Launchers -> LockBody \cup {NoLock}]
    /\ livePids \subseteq Launchers
    /\ displaced \subseteq Launchers

LockInit ==
    /\ now = 0
    /\ lockFile = NoLock
    /\ step = [p \in Launchers |-> "idle"]
    /\ started = [p \in Launchers |-> 0]
    /\ seen = [p \in Launchers |-> NoLock]
    /\ livePids = {}
    /\ displaced = {}

Advance(p, from, to) ==
    /\ step[p] = from
    /\ step' = [step EXCEPT ![p] = to]

Body(p) == [nonce |-> p, started |-> started[p]]

Age(b) == IF now < b.started THEN 0 ELSE now - b.started

\* Mutant: the TTL comparison is not strict.
IsReclaimableAtTTL(b) == b.nonce \notin livePids \/ Age(b) >= TTL

IsReclaimable(b) == b.nonce \notin livePids \/ Age(b) > TTL

(***************************************************************************)
(* try_launch_lock                                                         *)
(***************************************************************************)

\* The hook process starts and fixes the body it will write.
Start(p) ==
    /\ Advance(p, "idle", "create")
    /\ started' = [started EXCEPT ![p] = now]
    /\ livePids' = livePids \cup {p}
    /\ UNCHANGED <<now, lockFile, seen, displaced>>

\* Mutant: creation by a plain write instead of hard_link.
TryCreateLockOverwrite(p, onExists) ==
    /\ lockFile' = Body(p)
    /\ step' = [step EXCEPT ![p] = "held"]
    /\ UNCHANGED <<now, started, seen, livePids, displaced>>

\* hard_link onto the lock path: exclusive creation.
TryCreateLock(p, onExists) ==
    /\ IF lockFile = NoLock
       THEN /\ lockFile' = Body(p)
            /\ step' = [step EXCEPT ![p] = "held"]
       ELSE /\ step' = [step EXCEPT ![p] = onExists]
            /\ UNCHANGED lockFile
    /\ UNCHANGED <<now, started, seen, livePids, displaced>>

\* The uncontended path.
Create(p) == step[p] = "create" /\ TryCreateLock(p, "read")

\* read_lock on the existing file; it may have vanished or be unreadable.
ReadLock(p) ==
    /\ \E b \in {lockFile, NoLock} :
          /\ Advance(p, "read", IF b = NoLock THEN "recreate" ELSE "judge")
          /\ seen' = [seen EXCEPT ![p] = b]
    /\ UNCHANGED <<now, lockFile, started, livePids, displaced>>

\* Is the lock that was read abandoned (dead holder, or past the TTL)?
Judge(p) ==
    /\ Advance(p, "judge", IF IsReclaimable(seen[p]) THEN "claim" ELSE "lost")
    /\ UNCHANGED <<now, lockFile, started, seen, livePids, displaced>>

\* Removing whatever file is at the lock path on behalf of p.
RemoveLock(p) ==
    /\ lockFile' = NoLock
    /\ displaced' = IF lockFile # NoLock /\ lockFile.nonce # p
                    THEN displaced \cup {lockFile.nonce} ELSE displaced

\* rename(path, sidecar): moves aside the file now at the path, whatever it is.
ClaimByRename(p) ==
    /\ \/ /\ lockFile # NoLock
          /\ Advance(p, "claim", "recreate")
          /\ RemoveLock(p)
       \/ /\ lockFile = NoLock
          /\ Advance(p, "claim", "lost")
          /\ UNCHANGED <<lockFile, displaced>>
    /\ UNCHANGED <<now, started, seen, livePids>>

\* The exclusive creation after a vanished or a claimed lock: the last attempt.
Recreate(p) == step[p] = "recreate" /\ TryCreateLock(p, "lost")

\* An I/O error of any call: the `?` operators, Err to the caller.
IoError(p) ==
    /\ step[p] \in {"create", "claim", "recreate"}
    /\ step' = [step EXCEPT ![p] = "failed"]
    /\ UNCHANGED <<now, lockFile, started, seen, livePids, displaced>>

(***************************************************************************)
(* LaunchLock::drop                                                        *)
(***************************************************************************)

\* Read the lock file and compare nonces; an unreadable file is left alone.
DropCheck(p) ==
    /\ \/ lockFile # NoLock /\ lockFile.nonce = p /\ Advance(p, "held", "unlink")
       \/ Advance(p, "held", "done")
    /\ UNCHANGED <<now, lockFile, started, seen, livePids, displaced>>

\* remove_file by path, in a second call; or the unlink fails silently.
DropUnlink(p) ==
    /\ Advance(p, "unlink", "done")
    /\ \/ RemoveLock(p)
       \/ UNCHANGED <<lockFile, displaced>>
    /\ UNCHANGED <<now, started, seen, livePids>>

(***************************************************************************)
(* Environment                                                             *)
(***************************************************************************)

\* The process exits, or is killed at any point (no drop runs then).
Die(p) ==
    /\ step[p] \notin {"idle", "dead"}
    /\ step' = [step EXCEPT ![p] = "dead"]
    /\ livePids' = livePids \ {p}
    /\ UNCHANGED <<now, lockFile, started, seen, displaced>>

\* The operating system gives a dead launcher's pid to another process.
PidReassigned(p) ==
    /\ step[p] = "dead"
    /\ p \notin livePids
    /\ livePids' = livePids \cup {p}
    /\ UNCHANGED <<now, lockFile, step, started, seen, displaced>>

Tick ==
    /\ now < MaxTime
    /\ now' = now + 1
    /\ UNCHANGED <<lockFile, step, started, seen, livePids, displaced>>

Attempt(p) ==
    \/ Start(p) \/ Create(p) \/ ReadLock(p) \/ Judge(p)
    \/ ClaimByRename(p) \/ Recreate(p) \/ IoError(p)

Drop(p) == DropCheck(p) \/ DropUnlink(p)

LockNext ==
    \/ \E p \in Launchers : Attempt(p) \/ Drop(p) \/ Die(p) \/ PidReassigned(p)
    \/ Tick

LockSpec == LockInit /\ [][LockNext]_lockVars

-----------------------------------------------------------------------------
Holds(p) == step[p] \in {"held", "unlink"}

\* A launcher whose process is gone, or whose lock has outlived the TTL.
Abandoned(b) == step[b.nonce] = "dead" \/ Age(b) > TTL

(***************************************************************************)
(* A launcher whose guard is live and whose lock file nobody removed finds *)
(* its own body at the lock path: hard_link is the only way to a guard.    *)
(***************************************************************************)
HolderOwnsLock ==
    \A p \in Launchers : Holds(p) /\ p \notin displaced => lockFile = Body(p)

(***************************************************************************)
(* At most one launcher holds a guard whose file was never taken from it:  *)
(* double launching needs a reclaim or a late unlink by another launcher.  *)
(***************************************************************************)
SingleUndisplacedHolder ==
    \A p, q \in Launchers :
        Holds(p) /\ Holds(q) /\ p # q => p \in displaced \/ q \in displaced

(***************************************************************************)
(* A reclaim is justified when it moves the very lock that was judged:     *)
(* that lock's process is dead, or it is past LAUNCH_LOCK_TTL_SECS, still  *)
(* at the moment of the rename.                                            *)
(***************************************************************************)
ClaimOfJudgedLockIsJust ==
    \A p \in Launchers :
        step[p] = "claim" /\ lockFile = seen[p] => Abandoned(lockFile)
=============================================================================

CONSTANTS
    l1 = l1
    l2 = l2
    l3 = l3
    Launchers = {l1, l2, l3}
    TTL = 1
    MaxTime = 3
    NoLock = NoLock

SYMMETRY LauncherSymmetry
SPECIFICATION LockSpec
CHECK_DEADLOCK FALSE

INVARIANTS
    HolderOwnsLock
    ClaimOfJudgedLockIsJust

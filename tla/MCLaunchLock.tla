---------------------------- MODULE MCLaunchLock ----------------------------
(* The launch lock with a few interchangeable launchers. *)
EXTENDS LaunchLock, TLC

LauncherSymmetry == Permutations(Launchers)

=============================================================================

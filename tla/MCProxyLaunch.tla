---------------------------- MODULE MCProxyLaunch ----------------------------
(* The launch of a project's proxy with a few hooks and ports. *)
EXTENDS ProxyLaunch, TLC

PortSymmetry == Permutations(Ports)

=============================================================================

---------------------------- MODULE MCMonitorGate ----------------------------
(* The approval gate; its configurations name the requests and operators. *)
EXTENDS MonitorGate

=============================================================================

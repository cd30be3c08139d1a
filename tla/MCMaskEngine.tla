---------------------------- MODULE MCMaskEngine ----------------------------
(* The masking engine with two configurations that differ in everything. *)
EXTENDS MaskEngine, TLC

CONSTANTS m1, m2

Plain    == [policy |-> 1, cap |-> 2, model |-> m1, required |-> TRUE]
Changed  == [policy |-> 2, cap |-> 1, model |-> m2, required |-> TRUE]
Lenient  == [policy |-> 1, cap |-> 0, model |-> m1, required |-> FALSE]

TwoConfigs == {Plain, Changed}
AllConfigs == {Plain, Changed, Lenient}

\* The changed policy finds too many spans in every leaf to cache them.
BigUnderChanged == {<<l, 2>> : l \in Leaves}

RequestSymmetry == Permutations(Requests)

=============================================================================

--------------------------- MODULE MCRevealBoundary ---------------------------
(* One value detected as a CVV, one registered secret, two proxy processes. *)
EXTENDS RevealBoundary, TLC

CONSTANTS k1, k2, pii, pass, psql, mcp, db

TwoProcesses == <<k1, k2>>

PassIsBroker == [v \in {pass} |-> "Broker"]

\* Everything is detected; the password looks like any high-entropy string.
Detecting == [v \in AllValues |-> "Token"]
\* A custom rule gives two values the same literal token; nothing else is found.
Literals  == [v \in AllValues |-> IF v \in {pii, pass} THEN "Literal" ELSE "Keep"]

TwoPolicies == {Detecting, Literals}
SharedLiteral == [v \in AllValues |-> "PROJECT"]

\* A host-bound rule in front of a broad one: the first match decides.
Strict == <<[secrets |-> {pass}, tools |-> {psql}, anyHost |-> FALSE, hosts |-> {db}]>>
Broad  == <<[secrets |-> {pass}, tools |-> {psql}, anyHost |-> FALSE, hosts |-> {}],
            [secrets |-> {pass}, tools |-> {psql, mcp}, anyHost |-> FALSE, hosts |-> {db}]>>
Rules  == {Strict, Broad}

TurnSymmetry == Permutations(Turns)

=============================================================================

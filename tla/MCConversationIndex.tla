-------------------------- MODULE MCConversationIndex --------------------------
(* Transcripts with a common system prompt and a common first message. *)
EXTENDS ConversationIndex, TLC

CONSTANTS n1, a1, a2, sys, hello, left, right, k1, k2

Says(talk) == [system |-> <<sys>>, talk |-> talk]
Branches   == {Says(<<hello>>), Says(<<hello, left>>), Says(<<hello, right>>)}

Sent == (n1 :> {Says(<<hello, right>>)}) @@ (a1 :> Branches) @@ (a2 :> Branches)

\* One value in a prompt, another in the common part and in a branch.
Values == (sys :> {}) @@ (hello :> {}) @@ (left :> {k2}) @@ (right :> {k1})
Ranks  == (sys :> 1) @@ (hello :> 3) @@ (left :> 2) @@ (right :> 5)

AgentSymmetry == Permutations(Anonymous)

=============================================================================

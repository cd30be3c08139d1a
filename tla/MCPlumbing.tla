----------------------------- MODULE MCPlumbing -----------------------------
(* Projects that are new, carry lines and URLs of the user's, or an old install. *)
EXTENDS Plumbing, TLC

CONSTANTS p1, p2, mine, teams

Fresh    == [f \in Files |-> NoFile]
Furnished == [local |-> [NoFile EXCEPT !.line = mine],
              committed |-> [NoFile EXCEPT !.line = teams, !.url = p2]]
OldInstall == [local |-> NoFile,
               committed |-> [NoFile EXCEPT !.url = p1, !.zport = p1, !.line = OurLine]]

Plumbed  == [local |-> [url |-> p1, zport |-> p1, line |-> OurLine, kernel |-> "all", valid |-> TRUE],
             committed |-> [NoFile EXCEPT !.url = Gateway]]

SomeProjects == {Fresh, Furnished, OldInstall, Plumbed}

SessionSymmetry == Permutations(Sessions)

=============================================================================

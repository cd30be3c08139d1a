---------------------------- MODULE MCCodexIntake ----------------------------
(* Homes without a file, with an old block and inline hooks, with hooks in    *)
(* tables, and with a block of the user's own under our id.                   *)
EXTENDS CodexIntake

CONSTANTS openai, p1, p2, d1, d2, u1

Hooks(form, groups) == [e \in Events |-> [form |-> form, groups |-> groups]]

OldInstall == [kind |-> "toml", readable |-> TRUE, sel |-> Id,
               block |-> [managed |-> TRUE, url |-> p1, wired |-> FALSE, prior |-> openai],
               hooks |-> Hooks("inline", {[form |-> "array", cmds |-> {d1, u1}]})]

InTables == [kind |-> "toml", readable |-> TRUE, sel |-> openai, block |-> None,
             hooks |-> Hooks("tables", {[form |-> "tables", cmds |-> {d1}],
                                        [form |-> "none", cmds |-> {}]})]

OwnBlock == [NoConfig EXCEPT !.kind = "toml", !.sel = Id,
                 !.block = [managed |-> FALSE, url |-> p1, wired |-> FALSE, prior |-> None]]

SomeHomes == {NoConfig, OldInstall, InTables, OwnBlock}

SomeAuths == {[env |-> "sk", file |-> "none"], [env |-> "other", file |-> "apikey"]}

FirstUp == {[q \in Ports |-> IF q = p1 THEN "ours" ELSE "down"]}

=============================================================================

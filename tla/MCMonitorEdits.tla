---------------------------- MODULE MCMonitorEdits ----------------------------
(* A small instance of ConfigScopes and MonitorEdits for TLC. *)
EXTENDS MonitorEdits

MCEntities == {"CVV", "cvv", "EMIAL"}
MCBuiltin  == {"CVV"}
MCUpper    == [e \in MCEntities |-> IF e = "cvv" THEN "CVV" ELSE e]

Ask(set, value, scope) == [set |-> set, value |-> value, scope |-> scope]

\* A rule may declare a type of its own, even one that looks misspelt.
Misspelt == [pattern |-> "u", entity_type |-> "EMIAL"]
MCRules  == {Misspelt, [pattern |-> "v", entity_type |-> "CUSTOM_KEYWORD"]}

MCUserDocs == {<<>>, [profile |-> "secrets_only", broker |-> "allow", rules |-> <<Misspelt>>,
                      exact |-> {"u"}, exact_ci |-> {}]}

MCRequests ==
    {Ask("enabled", TRUE, "session"), Ask("enabled", FALSE, "session"), Ask("enabled", FALSE, "local"),
     Ask("threshold", 30, "session"),
     Ask("profile", "minimal", "project"),
     Ask("categories", <<"network", TRUE>>, "local"),
     Ask("entity", <<"cvv", "keep">>, "session"), Ask("entity", <<"EMIAL", "token">>, "session"),
     Ask("entity", <<"cvv", "clear">>, "local"),
     Ask("entity", <<"cvv", "clear">>, "session"),
     Ask("ml", TRUE, "project")}

MCEdits ==
    {<<"local", "CVV", "broker">>,
     <<"local", "EMIAL", "keep">>,
     <<"project", "broker", "none">>, <<"project", "secrets", "value">>}

Symmetry == Permutations(Clis) \cup Permutations(Ports)
=============================================================================

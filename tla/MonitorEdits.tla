----------------------------- MODULE MonitorEdits -----------------------------
(***************************************************************************)
(* The monitor's own edits of the policy, composed with the commands, the  *)
(* editor and the proxy's life of ConfigScopes: an operator masks a phrase *)
(* (a custom rule), removes a rule, reveals a value to the model (the      *)
(* allow-list) and re-masks it.  Each is one request under config_control: *)
(* it changes the live policy and then the project's local file, where the *)
(* edit is meant to outlive the next reload.                               *)
(*                                                                         *)
(* A layer that has a list replaces the list of the layers below it, so    *)
(* what an edit writes decides what becomes of theirs.                     *)
(***************************************************************************)
EXTENDS ConfigScopes, SequencesExt

CONSTANTS
    Phrases,  \* what may be revealed and re-masked
    Rules     \* what the operator may mask: [pattern, entity_type]

\* A value shown without a rule behind it.
NoRule == [pattern |-> "", entity_type |-> ""]

\* The files' own rules are such rules as well.
ASSUME RuleAssumption ==
    /\ NoRule \notin Rules
    /\ \A d \in UserDocs : "rules" \in DOMAIN d => d["rules"] \in Seq(Rules)
    /\ \A e \in Edits : e[2] = "rules" => e[3] \in Seq(Rules)

VARIABLES
    panel,  \* history: what the operator was told is saved
    form    \* how the local file, and the copy a command has read of it,
            \* writes the engine table

editVars == <<vars, panel, form>>

\* The rules masked, and the phrases revealed and barred (re-masked).
Untouched == [masked |-> {}, revealed |-> {}, barred |-> {}]

\* Not at all, as a table, as a table whose rules are an inline array, or
\* inline as a whole.
Forms == {"absent", "table", "array", "inline"}

\* Where the proxy persists: a file that parses.  A rule is one more table of
\* an array of tables, so the file must be able to hold one.  An edit that
\* cannot be persisted is reported as session_only.
Persists     == files["local"].ok
RulePersists == Persists /\ form["local"] \in {"absent", "table"}

-----------------------------------------------------------------------------
(* The local file.                                                         *)

\* An engine table that is not there: created as a table by edit_scope_file,
\* persist_profile and persist_custom_replacement, and as an inline table
\* where persist_local_allow_lists indexes into nothing.
Opened(f)   == IF f = "absent" THEN "table" ELSE f
Vivified(f) == IF f = "absent" THEN "inline" ELSE f

Bare(doc) == DOMAIN doc \cap (EngineKeys \cup Entities) = {}

\* A table that is left empty may have had no header of its own.
Emptied(f, doc) == {f} \cup IF Bare(doc) THEN {"absent"} ELSE {}

Local(key, empty) == IF key \in DOMAIN files["local"].doc THEN files["local"].doc[key] ELSE empty

\* An array of tables that becomes empty leaves no trace in the file.
WithRules(doc, rules) ==
    IF rules = <<>> THEN RestrictTo(doc, DOMAIN doc \ {"rules"}) ELSE Entry("rules", rules) ++ doc

\* retain drops the first match only.
DropFirst(rules, rule) ==
    IF Contains(rules, rule) THEN RemoveAt(rules, SelectInSeq(rules, LAMBDA x : x = rule)) ELSE rules

\* Mutant: the file is left with the new rule alone.
PersistOnlyThis(doc, rule) == WithRules(doc, <<rule>>)

persist_custom_replacement(doc, rule) == WithRules(doc, Append(Local("rules", <<>>), rule))

\* Only an array of tables is searched.
remove_custom_replacement(doc, rule) ==
    IF "rules" \in DOMAIN doc /\ form["local"] = "table"
    THEN WithRules(doc, DropFirst(doc["rules"], rule)) ELSE doc

\* The whole effective lists, over whatever the file had.
persist_local_allow_lists(doc, policy) ==
    [exact |-> policy["exact"], exact_ci |-> policy["exact_ci"]] ++ doc

\* The local file after an edit that leaves it with this document, if it can.
Saved(can, doc) == IF can THEN [files EXCEPT !["local"].doc = doc] ELSE files

Reform(can, f) == IF can THEN [form EXCEPT !["local"] = f] ELSE form

-----------------------------------------------------------------------------
(* The requests.                                                           *)

\* Patterns of the allow-list are left to the user's files.
is_allowed(policy, ph) == ph \in policy["exact"] \cup policy["exact_ci"]

Click ==
    /\ live # NoPolicy /\ reloading = Nobody
    /\ count.commands < MaxCommands
    /\ count' = [count EXCEPT !.commands = @ + 1]
    /\ cmd' = DisturbAll
    /\ UNCHANGED <<broker, port, reloading>>

\* What the operator is told stands only if it is in the file.
Note(saved, masked, revealed, barred) ==
    panel' = [masked   |-> IF saved THEN masked ELSE masked \cap panel.masked,
              revealed |-> IF saved THEN revealed ELSE revealed \cap panel.revealed,
              barred   |-> IF saved THEN barred ELSE barred \cap panel.barred]

ListsOverlaid == IF Persists THEN {} ELSE {"exact", "exact_ci"}

custom_mask(rule) ==
    /\ Click
    /\ live' = [live EXCEPT !["rules"] = Append(@, rule)]
    /\ files' = Saved(RulePersists, persist_custom_replacement(files["local"].doc, rule))
    /\ form' = Reform(RulePersists, "table")
    /\ ghost' = Overlaid({"rules"})
    /\ Note(RulePersists, panel.masked \cup {rule}, panel.revealed, panel.barred)

custom_masks_remove(rule) ==
    /\ Click
    /\ live' = [live EXCEPT !["rules"] = DropFirst(@, rule)]
    /\ files' = Saved(Persists, remove_custom_replacement(files["local"].doc, rule))
    /\ \E f \in Emptied(form["local"], files'["local"].doc) : form' = Reform(Persists, f)
    /\ ghost' = Overlaid({"rules"})
    /\ Note(Persists, panel.masked \ {rule}, panel.revealed, panel.barred)

\* With the rule behind the value, which goes with it.
reveal_keyphrase(ph, backing) ==
    /\ Click
    /\ LET removed == Contains(live["rules"], backing)
           local   == IF removed THEN remove_custom_replacement(files["local"].doc, backing)
                      ELSE files["local"].doc
       IN  /\ live' = [live EXCEPT !["rules"] = DropFirst(@, backing), !["exact"] = @ \cup {ph}]
           /\ files' = Saved(Persists, persist_local_allow_lists(local, live'))
           /\ \E f \in IF removed THEN Emptied(form["local"], local) ELSE {form["local"]} :
                  form' = Reform(Persists, Vivified(f))
           /\ ghost' = Overlaid(ListsOverlaid \cup IF removed THEN {"rules"} ELSE {})
           /\ Note(Persists, panel.masked \ {backing}, panel.revealed \cup {ph}, panel.barred \ {ph})

\* Both lists; the rule a reveal removed is not put back.
remask_keyphrase(ph) ==
    /\ Click
    /\ live' = [live EXCEPT !["exact"] = @ \ {ph}, !["exact_ci"] = @ \ {ph}]
    /\ files' = Saved(Persists, persist_local_allow_lists(files["local"].doc, live'))
    /\ form' = Reform(Persists, Vivified(form["local"]))
    /\ ghost' = Overlaid(ListsOverlaid)
    /\ Note(Persists, panel.masked, panel.revealed \ {ph}, panel.barred \cup {ph})

-----------------------------------------------------------------------------
(* The composition.  The operator's edits are gone, by nobody's fault, once *)
(* the user edits the local file, a command rewrites it from a copy it read *)
(* before the edit, or a whole-configuration PUT restores the lists it had  *)
(* fetched before.                                                          *)

Lists == {"rules", "exact", "exact_ci"}

Overtaken ==
    \/ files'["local"].ok # files["local"].ok
    \/ RestrictTo(files'["local"].doc, Lists) # RestrictTo(files["local"].doc, Lists)
    \/ \E c \in Clis : /\ At(c, "put") /\ cmd'[c].todo # cmd[c].todo /\ live' # NoPolicy
                       /\ RestrictTo(cmd[c].got, Lists) # RestrictTo(live, Lists)

\* A command takes this step, for the local file.
OnLocal(c, step) == At(c, step) /\ cmd'[c].todo # cmd[c].todo /\ cmd[c].req.scope = "local"

\* How a user may write a document.
Typed(doc) ==
    {"table", "inline"} \cup (IF Bare(doc) THEN {"absent"} ELSE {})
        \cup (IF "rules" \in DOMAIN doc THEN {"array"} ELSE {})

\* A file that does not parse is read as an empty one; a copy is written back
\* in the form it was read in.
Reformed ==
    \/ \E c \in Clis :
          \/ /\ OnLocal(c, "read")
             /\ form' = [form EXCEPT ![c] = IF Persists THEN form["local"] ELSE "absent"]
          \/ /\ OnLocal(c, "write")
             /\ form' = [form EXCEPT !["local"] = Opened(form[c]), ![c] = "absent"]
          \/ /\ OnLocal(c, "profile")
             /\ form' = IF Reachable(c) THEN [form EXCEPT !["local"] = Opened(@)] ELSE form
    \/ /\ count'.edits # count.edits /\ files'["local"] # files["local"]
       /\ \E f \in Typed(files'["local"].doc) : form' = [form EXCEPT !["local"] = f]
    \/ /\ \A c \in Clis, step \in {"read", "write", "profile"} : ~OnLocal(c, step)
       /\ count'.edits = count.edits \/ files'["local"] = files["local"]
       /\ UNCHANGED form

Others == Next /\ Reformed /\ panel' = IF Overtaken THEN Untouched ELSE panel

Clicks ==
    \/ \E rule \in Rules : custom_mask(rule) \/ custom_masks_remove(rule)
    \/ \E ph \in Phrases :
          remask_keyphrase(ph) \/ \E backing \in Rules \cup {NoRule} : reveal_keyphrase(ph, backing)

EditsInit ==
    /\ Init
    /\ panel = Untouched
    /\ form = [x \in Clis \cup {"local"} |-> "absent"]

EditsNext == Others \/ Clicks

EditsSpec == EditsInit /\ [][EditsNext]_editVars

-----------------------------------------------------------------------------
(* Properties.                                                             *)

\* What the operator did in the monitor and was told is saved outlives every
\* reload and restart, whatever the other layers hold and however the file was
\* written before: a phrase masked there stays masked by its rule, a value
\* revealed stays on the allow-list, and a value re-masked stays off it even if
\* a lower layer lists it.
EditsStand ==
    Effective # NoPolicy =>
        /\ panel.masked \subseteq ToSet(Effective["rules"])
        /\ \A ph \in panel.revealed : is_allowed(Effective, ph)
        /\ \A ph \in panel.barred : ~is_allowed(Effective, ph)
=============================================================================

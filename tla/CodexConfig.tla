----------------------------- MODULE CodexConfig -----------------------------
(***************************************************************************)
(* How `zlauder-hooks codex-config` routes Codex through the proxy: it     *)
(* edits $CODEX_HOME/config.toml, a file that belongs to the user.  The    *)
(* enable command inserts a marked provider block, selects it and adds one *)
(* hook entry for each event; the disable command takes the marked things  *)
(* out again.  A command reads the file, computes the new text and renames *)
(* it into place; the user edits the same file with no lock in between.    *)
(*                                                                         *)
(* The text is its parsed form: the selected provider, the block under our *)
(* id and the hook entries of each event.  A plugin directory stands for   *)
(* the command "<directory>/scripts/<script of the event>".                *)
(***************************************************************************)
EXTENDS Naturals

CONSTANTS
    Id,           \* the provider id, "zlauder" by default
    Providers,    \* provider ids of the user's own
    None,         \* no value
    Ports,        \* a port stands for the URL http://127.0.0.1:<port>/v1
    Remote,       \* any other URL
    Dirs,         \* directories the plugin was installed in, over time
    UserHooks,    \* hook commands of the user's own
    Events,       \* the hook events we wire
    StartConfigs, \* what the file may hold at the beginning
    MaxEdits      \* bound: edits of the user

ASSUME IdAssumption    == Id \notin Providers /\ None \notin Providers \cup {Id}
ASSUME RouteAssumption == Remote \notin Ports /\ None \notin Ports \cup {Remote}
ASSUME HookAssumption  == Dirs \cap UserHooks = {} /\ None \notin Dirs
ASSUME EditAssumption  == MaxEdits \in Nat

VARIABLES
    config,   \* $CODEX_HOME/config.toml
    job,      \* the running command, between its read and its rename
    edits,
    theirs,   \* history: the hook commands of the user in each event
    choice,   \* history: the provider the user last selected
    settled   \* history: the command whose outcome nobody has disturbed since

configVars == <<config, job, edits, theirs, choice, settled>>

-----------------------------------------------------------------------------
(* The file *)

\* `wired`: the block's transport keys are all as enable writes them.
Block == [managed : BOOLEAN, url : Ports \cup {Remote}, wired : BOOLEAN,
          prior : Providers \cup {None}]

\* A matcher group's inner `hooks` is an inline array, tables, or missing.
Group == [form : {"array", "tables"}, cmds : SUBSET (Dirs \cup UserHooks)]
             \cup [form : {"none"}, cmds : {{}}]

\* The order of an event's groups is left out: no merge depends on it.
Entries == [form : {"absent", "tables", "inline"}, groups : SUBSET Group]

NoEntries == [form |-> "absent", groups |-> {}]

Config == [kind : {"absent", "toml", "invalid"}, readable : BOOLEAN,
           sel : Providers \cup {Id, None}, block : Block \cup {None},
           hooks : [Events -> Entries]]

NoConfig == [kind |-> "absent", readable |-> TRUE, sel |-> None, block |-> None,
             hooks |-> [e \in Events |-> NoEntries]]

ASSUME BlockAssumption == None \notin Block
ASSUME StartAssumption ==
    /\ StartConfigs \subseteq Config
    /\ \A c \in StartConfigs : c.kind = "absent" => c = NoConfig

codex_block_ownership(c) ==
    [present |-> c.block # None, ours |-> c.block # None /\ c.block.managed]

\* Whether a command's last two path components are ours, not merely alike.
codex_hook_command_is_ours(cmd) == cmd \in Dirs

UserCommands(entries) == {cmd \in UserHooks : \E g \in entries.groups : cmd \in g.cmds}

-----------------------------------------------------------------------------
(* The merges *)

\* Mutant: an existing block is as good as a new one if its URL is right.
AtTargetByUrl(c, url) ==
    /\ codex_block_ownership(c).ours
    /\ c.sel = Id
    /\ c.block.url = url

AtTarget(c, url) ==
    /\ codex_block_ownership(c).ours
    /\ c.sel = Id
    /\ c.block.url = url
    /\ c.block.wired

SavedPrior(c) == IF codex_block_ownership(c).ours THEN c.block.prior ELSE None

\* A prior that was saved before wins over the provider selected now.
PriorToRecord(c) ==
    IF SavedPrior(c) # None THEN SavedPrior(c)
    ELSE IF c.sel # Id THEN c.sel ELSE None

codex_enable_merge(c, url) ==
    LET block == [managed |-> TRUE, url |-> url, wired |-> TRUE, prior |-> PriorToRecord(c)]
    IN  [c EXCEPT !.kind = "toml", !.block = block, !.sel = Id]

codex_disable_merge(c) ==
    [c EXCEPT !.block = None,
              !.sel = IF c.sel = Id THEN SavedPrior(c) ELSE c.sel]

\* The groups enable looks into: an inline inner array, nothing else.
Visible(g) == g.form = "array" /\ \E cmd \in g.cmds : codex_hook_command_is_ours(cmd)

\* Mutant: the first entry found is replaced with its whole group.
RehomeGroup(g, dir) == IF Visible(g) THEN [g EXCEPT !.cmds = {dir}] ELSE g

Rehome(g, dir) ==
    IF Visible(g) THEN [g EXCEPT !.cmds = (@ \ Dirs) \cup {dir}] ELSE g

\* An inline array of groups becomes tables; ours is moved to the current
\* directory, or added as a group of its own.
EnableEntries(entries, dir) ==
    LET groups == entries.groups
        known  == \E g \in groups : Visible(g)
    IN  [form   |-> "tables",
         groups |-> IF known THEN {Rehome(g, dir) : g \in groups}
                    ELSE groups \cup {[form |-> "array", cmds |-> {dir}]}]

\* A run that changes no group writes nothing, the shapes included.
codex_hooks_enable_merge(hooks, dir) ==
    LET merged == [e \in Events |-> EnableEntries(hooks[e], dir)]
    IN  IF \E e \in Events : merged[e].groups # hooks[e].groups THEN merged ELSE hooks

HoldsOurs(entries) == \E g \in entries.groups : g.cmds \cap Dirs # {}

\* Our commands go, and with them the groups they leave empty.
StripGroups(entries) ==
    LET stripped == {[g EXCEPT !.cmds = @ \ Dirs] : g \in entries.groups}
    IN  {g \in stripped : g.form = "none" \/ g.cmds # {}}

DisableEntries(entries) ==
    IF entries.form = "inline" /\ ~HoldsOurs(entries) THEN entries
    ELSE LET kept == StripGroups(entries)
         IN  IF kept = {} THEN NoEntries ELSE [form |-> "tables", groups |-> kept]

codex_hooks_disable_merge(hooks) ==
    IF \E e \in Events : HoldsOurs(hooks[e])
    THEN [e \in Events |-> DisableEntries(hooks[e])]
    ELSE hooks

-----------------------------------------------------------------------------
(* The commands *)

NoJob == [op |-> "none"]

Ended(op, url, dir) == [op |-> op, url |-> url, dir |-> dir]

\* What a command leaves behind when it has nothing to write (exit code 3), or
\* hands to atomic_write_text.  An edit of the user's may come in between.
Conclude(op, url, dir, out) ==
    IF out = config
    THEN settled' = Ended(op, url, dir) /\ UNCHANGED job
    ELSE job' = [op |-> op, url |-> url, dir |-> dir, out |-> out, raced |-> FALSE]
         /\ settled' = NoJob

\* An unreadable or malformed file, and a block of the user's under our id, are
\* errors: nothing is written.
Enable(url, dir) ==
    /\ job = NoJob
    /\ config.readable /\ config.kind # "invalid"
    /\ ~(codex_block_ownership(config).present /\ ~codex_block_ownership(config).ours)
    /\ LET routed == IF AtTarget(config, url) THEN config ELSE codex_enable_merge(config, url)
           out    == IF dir = None THEN routed
                     ELSE [routed EXCEPT !.hooks = codex_hooks_enable_merge(@, dir)]
       IN  Conclude("enable", url, dir, out)
    /\ UNCHANGED <<config, edits, theirs, choice>>

Disable ==
    /\ job = NoJob
    /\ config.readable /\ config.kind = "toml"
    /\ LET unrouted == IF codex_block_ownership(config).ours
                       THEN codex_disable_merge(config) ELSE config
       IN  Conclude("disable", None, None,
                    [unrouted EXCEPT !.hooks = codex_hooks_disable_merge(@)])
    /\ UNCHANGED <<config, edits, theirs, choice>>

\* The rename of atomic_write_text: the whole text of the command, whatever the
\* file holds by now.
Write ==
    /\ job # NoJob
    /\ config' = [job.out EXCEPT !.readable = config.readable]
    /\ job' = NoJob
    /\ IF job.raced
       THEN /\ theirs' = [e \in Events |-> UserCommands(job.out.hooks[e])]
            /\ choice' = IF job.op = "disable" THEN job.out.sel ELSE job.out.block.prior
            /\ settled' = NoJob
       ELSE /\ settled' = Ended(job.op, job.url, job.dir)
            /\ UNCHANGED <<theirs, choice>>
    /\ UNCHANGED edits

\* The command dies before the rename: a stray temporary file, nothing else.
Die ==
    /\ job # NoJob
    /\ job' = NoJob
    /\ UNCHANGED <<config, edits, theirs, choice, settled>>

-----------------------------------------------------------------------------
(* The user *)

Edit(new) ==
    /\ edits < MaxEdits
    /\ edits' = edits + 1
    /\ config' = new
    /\ config' # config
    /\ job' = IF job = NoJob THEN job ELSE [job EXCEPT !.raced = TRUE]
    /\ theirs' = [e \in Events |-> UserCommands(new.hooks[e])]
    /\ settled' = NoJob

Editable == config.kind # "invalid" /\ config.readable

Select(p) ==
    /\ Editable
    /\ Edit([config EXCEPT !.kind = "toml", !.sel = p])
    /\ choice' = p

\* The block is taken over by removing the marker, or deleted.
TakeBlock(delete) ==
    /\ Editable /\ config.block # None
    /\ LET after == IF config.sel = Id THEN None ELSE config.sel
       IN  IF delete
           THEN Edit([config EXCEPT !.block = None, !.sel = after]) /\ choice' = after
           ELSE Edit([config EXCEPT !.block.managed = FALSE]) /\ choice' = config.sel

AddHook(e, cmd) ==
    /\ Editable
    /\ LET groups == config.hooks[e].groups
           own    == [form |-> "array", cmds |-> {cmd}]
       IN  \/ Edit([config EXCEPT !.kind = "toml", !.hooks[e] =
                        [form |-> IF @.form = "inline" THEN "inline" ELSE "tables",
                         groups |-> groups \cup {own}]])
           \/ \E g \in groups :
                 /\ g.form # "none"
                 /\ Edit([config EXCEPT !.hooks[e].groups =
                              (@ \ {g}) \cup {[g EXCEPT !.cmds = @ \cup {cmd}]}])
    /\ UNCHANGED choice

\* An event written as `SessionStart = [ {...} ]` means the same to Codex.
Reshape(e) ==
    /\ Editable
    /\ \A g \in config.hooks[e].groups : g.form # "tables"
    /\ config.hooks[e].form = "tables"
    /\ Edit([config EXCEPT !.hooks[e].form = "inline"])
    /\ UNCHANGED choice

\* A slip while editing, or a change of the file's mode; and the repair.
Spoil ==
    /\ config.kind # "absent"
    /\ \/ Edit([config EXCEPT !.kind = IF @ = "toml" THEN "invalid" ELSE "toml"])
       \/ Edit([config EXCEPT !.readable = ~@])
    /\ UNCHANGED choice

-----------------------------------------------------------------------------
ConfigInit ==
    /\ config \in StartConfigs
    /\ job = NoJob
    /\ edits = 0
    /\ theirs = [e \in Events |-> UserCommands(config.hooks[e])]
    /\ choice = IF config.sel = Id /\ codex_block_ownership(config).ours
                THEN SavedPrior(config) ELSE config.sel
    /\ settled = NoJob

UserEdit ==
    \/ \E p \in Providers \cup {None} : Select(p)
    \/ \E delete \in BOOLEAN : TakeBlock(delete)
    \/ \E e \in Events : Reshape(e) \/ \E cmd \in UserHooks : AddHook(e, cmd)
    \/ Spoil

-----------------------------------------------------------------------------
(* Properties *)

\* No command ever adds, drops or moves to another event a hook command of the
\* user's, not one that shares a group with ours, not one in an inline array.
UsersHooksKept == \A e \in Events : UserCommands(config.hooks[e]) = theirs[e]

\* An enable that ends well, exit code 0 or 3, leaves Codex routed through that
\* URL over HTTP, with our hook of the current installation in every event: a
\* block of an older version or a stale directory is never taken for done.
EnableSettles ==
    settled.op = "enable" =>
        /\ config.sel = Id
        /\ config.block # None /\ config.block.url = settled.url /\ config.block.wired
        /\ settled.dir # None => \A e \in Events :
               \E g \in config.hooks[e].groups : settled.dir \in g.cmds

\* A disable that ends well leaves nothing of ours, and never a selection of a
\* provider whose block it has just removed.
DisableSettles ==
    settled.op = "disable" =>
        /\ ~codex_block_ownership(config).ours
        /\ \A e \in Events : ~HoldsOurs(config.hooks[e])
        /\ config.sel = Id => codex_block_ownership(config).present \/ choice = Id

\* Both, after whatever edits of the user's and in whatever order.
CommandsSettle == EnableSettles /\ DisableSettles

=============================================================================

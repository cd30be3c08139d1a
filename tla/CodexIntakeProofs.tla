-------------------------- MODULE CodexIntakeProofs --------------------------
(***************************************************************************)
(* What the codex commands leave in the user's file, and what the two      *)
(* hooks may conclude from it.  The first half is about config.toml alone  *)
(* (CodexConfig): the merges keep the user's hook commands, and what a     *)
(* command holds between its read and its rename keeps its promise as long *)
(* as no edit came in between.  The second half is about the sessions: a   *)
(* file that was not written since a session's launch second still selects *)
(* the route that session was launched with.                               *)
(***************************************************************************)
EXTENDS CodexIntake, TLAPS

-----------------------------------------------------------------------------
(* The merges *)

\* Moving our entry to the current directory keeps a group a group.
LEMMA RehomeType ==
    ASSUME NEW g \in Group, NEW dir \in Dirs
    PROVE  /\ Rehome(g, dir) \in Group
           /\ Rehome(g, dir).cmds \cap UserHooks = g.cmds \cap UserHooks
           /\ Visible(g) => dir \in Rehome(g, dir).cmds
<1>1. CASE ~Visible(g)
  BY <1>1 DEF Rehome
<1>2. CASE Visible(g)
  <2>1. g \in [form : {"array"}, cmds : SUBSET (Dirs \cup UserHooks)]
    BY <1>2 DEF Group, Visible
  <2>2. Rehome(g, dir) = [form |-> g.form, cmds |-> (g.cmds \ Dirs) \cup {dir}]
    BY <1>2, <2>1 DEF Rehome
  <2>. QED  BY <2>1, <2>2, HookAssumption DEF Group
<1>. QED  BY <1>1, <1>2

\* Enable's merge of one event: a well-formed event with the user's commands as
\* before, and our command of the current directory in it.
LEMMA EnableEntriesFacts ==
    ASSUME NEW entries \in Entries, NEW dir \in Dirs
    PROVE  /\ EnableEntries(entries, dir) \in Entries
           /\ UserCommands(EnableEntries(entries, dir)) = UserCommands(entries)
           /\ \E g \in EnableEntries(entries, dir).groups : dir \in g.cmds
<1>. DEFINE groups == entries.groups
            own == [form |-> "array", cmds |-> {dir}]
            after == EnableEntries(entries, dir)
<1>0. groups \subseteq Group  BY DEF Entries
<1>1. CASE \E g \in groups : Visible(g)
  <2>1. after = [form |-> "tables", groups |-> {Rehome(g, dir) : g \in groups}]
    BY <1>1 DEF EnableEntries
  <2>2. after.groups = {Rehome(g, dir) : g \in groups}
    BY <2>1
  <2>3. after.groups \subseteq Group
    BY <1>0, <2>2, RehomeType
  <2>4. after \in Entries
    BY <2>1, <2>2, <2>3 DEF Entries
  <2>5. ASSUME NEW cmd \in UserHooks
        PROVE  (\E g \in after.groups : cmd \in g.cmds) <=> (\E g \in groups : cmd \in g.cmds)
    <3>1. \A g \in groups : cmd \in Rehome(g, dir).cmds <=> cmd \in g.cmds
      BY <1>0, RehomeType
    <3>. QED  BY <2>2, <3>1
  <2>6. UserCommands(after) = UserCommands(entries)
    BY <2>5 DEF UserCommands
  <2>7. \E g \in after.groups : dir \in g.cmds
    BY <1>0, <1>1, <2>2, RehomeType
  <2>. QED  BY <2>4, <2>6, <2>7
<1>2. CASE ~\E g \in groups : Visible(g)
  <2>1. after = [form |-> "tables", groups |-> groups \cup {own}]
    BY <1>2 DEF EnableEntries
  <2>2. after.groups = groups \cup {own} /\ own.cmds = {dir}
    BY <2>1
  <2>3. own \in Group
    BY DEF Group
  <2>4. after \in Entries
    BY <1>0, <2>1, <2>2, <2>3 DEF Entries
  <2>5. ASSUME NEW cmd \in UserHooks
        PROVE  (\E g \in after.groups : cmd \in g.cmds) <=> (\E g \in groups : cmd \in g.cmds)
    <3>1. cmd \notin own.cmds
      BY <2>2, HookAssumption
    <3>. QED  BY <2>2, <3>1
  <2>6. UserCommands(after) = UserCommands(entries)
    BY <2>5 DEF UserCommands
  <2>. QED  BY <2>2, <2>4, <2>6
<1>. QED  BY <1>1, <1>2

\* Disable's merge of one event: the user's commands as before, none of ours.
LEMMA DisableEntriesFacts ==
    ASSUME NEW entries \in Entries
    PROVE  /\ DisableEntries(entries) \in Entries
           /\ UserCommands(DisableEntries(entries)) = UserCommands(entries)
           /\ ~HoldsOurs(DisableEntries(entries))
<1>. DEFINE groups == entries.groups
            Bare(g) == [g EXCEPT !.cmds = @ \ Dirs]
            kept == StripGroups(entries)
            after == DisableEntries(entries)
<1>0. groups \subseteq Group  BY DEF Entries
<1>1. CASE entries.form = "inline" /\ ~HoldsOurs(entries)
  BY <1>1 DEF DisableEntries
<1>2. CASE ~(entries.form = "inline" /\ ~HoldsOurs(entries))
  <2>1. \A g \in groups : /\ Bare(g) \in Group
                          /\ Bare(g).form = g.form
                          /\ Bare(g).cmds = g.cmds \ Dirs
    <3>. SUFFICES ASSUME NEW g \in groups
                  PROVE  /\ Bare(g) \in Group
                         /\ Bare(g).form = g.form
                         /\ Bare(g).cmds = g.cmds \ Dirs
      OBVIOUS
    <3>1. Bare(g) = [form |-> g.form, cmds |-> g.cmds \ Dirs]
      BY <1>0 DEF Group
    <3>. QED  BY <1>0, <3>1 DEF Group
  <2>2. kept = {h \in {Bare(g) : g \in groups} : h.form = "none" \/ h.cmds # {}}
    BY DEF StripGroups
  <2>3. kept \subseteq Group
    BY <2>1, <2>2
  <2>4. \A h \in kept : h.cmds \cap Dirs = {}
    BY <2>1, <2>2
  <2>5. after.groups = kept /\ after \in Entries
    <3>1. CASE kept = {}
      <4>1. after = NoEntries
        BY <1>2, <3>1 DEF DisableEntries
      <4>. QED  BY <3>1, <4>1 DEF NoEntries, Entries
    <3>2. CASE kept # {}
      <4>1. after = [form |-> "tables", groups |-> kept]
        BY <1>2, <3>2 DEF DisableEntries
      <4>. QED  BY <2>3, <4>1 DEF Entries
    <3>. QED  BY <3>1, <3>2
  <2>6. ASSUME NEW cmd \in UserHooks
        PROVE  (\E g \in after.groups : cmd \in g.cmds) <=> (\E g \in groups : cmd \in g.cmds)
    <3>1. ASSUME NEW g \in groups, cmd \in g.cmds
          PROVE  \E h \in kept : cmd \in h.cmds
      <4>1. cmd \in Bare(g).cmds
        BY <2>1, <3>1, HookAssumption
      <4>2. Bare(g) \in kept
        BY <2>2, <4>1
      <4>. QED  BY <4>1, <4>2
    <3>2. ASSUME NEW h \in kept, cmd \in h.cmds
          PROVE  \E g \in groups : cmd \in g.cmds
      BY <2>1, <2>2, <3>2
    <3>. QED  BY <2>5, <3>1, <3>2
  <2>7. UserCommands(after) = UserCommands(entries)
    BY <2>6 DEF UserCommands
  <2>8. ~HoldsOurs(after)
    BY <2>4, <2>5 DEF HoldsOurs
  <2>. QED  BY <2>5, <2>7, <2>8
<1>. QED  BY <1>1, <1>2

\* Enable's merge of all events, whether or not it had work to do.
LEMMA EnableHooksFacts ==
    ASSUME NEW hooks \in [Events -> Entries], NEW dir \in Dirs
    PROVE  /\ codex_hooks_enable_merge(hooks, dir) \in [Events -> Entries]
           /\ \A e \in Events :
                 /\ UserCommands(codex_hooks_enable_merge(hooks, dir)[e]) = UserCommands(hooks[e])
                 /\ \E g \in codex_hooks_enable_merge(hooks, dir)[e].groups : dir \in g.cmds
<1>. DEFINE merged == [e \in Events |-> EnableEntries(hooks[e], dir)]
            work == \E e \in Events : merged[e].groups # hooks[e].groups
            after == codex_hooks_enable_merge(hooks, dir)
<1>1. \A e \in Events : /\ merged[e] \in Entries
                        /\ UserCommands(merged[e]) = UserCommands(hooks[e])
                        /\ \E g \in merged[e].groups : dir \in g.cmds
  BY EnableEntriesFacts
<1>2. after = IF work THEN merged ELSE hooks
  BY DEF codex_hooks_enable_merge
<1>3. CASE work
  BY <1>1, <1>2, <1>3
<1>4. CASE ~work
  <2>1. after = hooks
    BY <1>2, <1>4
  <2>2. \A e \in Events : merged[e].groups = hooks[e].groups
    BY <1>4
  <2>. QED  BY <1>1, <2>1, <2>2
<1>. QED  BY <1>3, <1>4

\* Disable's merge of all events.
LEMMA DisableHooksFacts ==
    ASSUME NEW hooks \in [Events -> Entries]
    PROVE  /\ codex_hooks_disable_merge(hooks) \in [Events -> Entries]
           /\ \A e \in Events :
                 /\ UserCommands(codex_hooks_disable_merge(hooks)[e]) = UserCommands(hooks[e])
                 /\ ~HoldsOurs(codex_hooks_disable_merge(hooks)[e])
  BY DisableEntriesFacts DEF codex_hooks_disable_merge

-----------------------------------------------------------------------------
(* What holds of config.toml and of the command that is about to replace it *)

\* A running command: what it was asked for and the text it will write.
Jobs == {NoJob}
        \cup [op : {"enable"}, url : Ports, dir : Dirs \cup {None}, out : Config, raced : BOOLEAN]
        \cup [op : {"disable"}, url : {None}, dir : {None}, out : Config, raced : BOOLEAN]

\* The promise of enable, of a text.
Routed(c, url, dir) ==
    /\ c.sel = Id
    /\ c.block # None /\ c.block.url = url /\ c.block.wired
    /\ dir # None => \A e \in Events : \E g \in c.hooks[e].groups : dir \in g.cmds

\* The promise of disable, of a text.
Unrouted(c) ==
    /\ ~codex_block_ownership(c).ours
    /\ \A e \in Events : ~HoldsOurs(c.hooks[e])

\* Our id is selected without a block only if the user did that.
SelectionIsExplained(c) == c.sel = Id /\ c.block = None => choice = Id

\* A text keeps its promise whoever asked for it.
Promised(j, c) ==
    /\ j.op = "enable" => Routed(c, j.url, j.dir)
    /\ j.op = "disable" => Unrouted(c)

FileOK ==
    /\ config \in Config
    /\ config.kind = "absent" => config.block = None
    /\ SelectionIsExplained(config)
    /\ UsersHooksKept
    /\ Promised(settled, config)

\* Between its read and its rename a command holds a text that is right for the
\* file it read: for the file as it is only while no edit has come in between.
JobOK ==
    /\ job \in Jobs
    /\ job # NoJob =>
          /\ job.out.kind # "absent"
          /\ Promised(job, job.out)
          /\ ~job.raced => /\ SelectionIsExplained(job.out)
                           /\ \A e \in Events : UserCommands(job.out.hooks[e]) = theirs[e]

FileInv == FileOK /\ JobOK

\* The fields of a running command.
LEMMA JobFields ==
    ASSUME job \in Jobs, job # NoJob
    PROVE  /\ job.op \in {"enable", "disable"}
           /\ job.out \in Config
           /\ job.raced \in BOOLEAN
  BY DEF Jobs

\* A command that has computed its text keeps the invariant, whether it has
\* anything to write or not.
LEMMA ConcludeInv ==
    ASSUME FileInv, job = NoJob,
           NEW op, NEW url, NEW dir, NEW out \in Config,
           \/ op = "enable" /\ url \in Ports /\ dir \in Dirs \cup {None}
           \/ op = "disable" /\ url = None /\ dir = None,
           out.kind # "absent",
           op = "enable" => Routed(out, url, dir),
           op = "disable" => Unrouted(out),
           SelectionIsExplained(out),
           \A e \in Events : UserCommands(out.hooks[e]) = UserCommands(config.hooks[e]),
           Conclude(op, url, dir, out),
           UNCHANGED <<config, edits, theirs, choice>>
    PROVE  FileInv'
<1>1. CASE out = config
  <2>1. /\ settled' = Ended(op, url, dir)
        /\ UNCHANGED job
    BY <1>1 DEF Conclude
  <2>2. settled'.op = op /\ settled'.url = url /\ settled'.dir = dir
    BY <2>1 DEF Ended
  <2>3. Promised(settled, config)'
    BY <1>1, <2>2 DEF Promised, Routed, Unrouted, codex_block_ownership, HoldsOurs
  <2>4. FileOK'
    BY <2>3 DEF FileInv, FileOK, SelectionIsExplained, UsersHooksKept, UserCommands
  <2>. QED  BY <2>1, <2>4 DEF FileInv, JobOK
<1>2. CASE out # config
  <2>1. /\ job' = [op |-> op, url |-> url, dir |-> dir, out |-> out, raced |-> FALSE]
        /\ settled' = NoJob
    BY <1>2 DEF Conclude
  <2>2. /\ job' \in Jobs
        /\ job'.op = op /\ job'.url = url /\ job'.dir = dir /\ job'.out = out
    BY <2>1 DEF Jobs
  <2>3. Promised(job', job'.out)
    BY <2>2 DEF Promised
  <2>4. \A e \in Events : UserCommands(job'.out.hooks[e]) = theirs'[e]
    BY <2>2 DEF FileInv, FileOK, UsersHooksKept
  <2>5. JobOK'
    <3>1. SelectionIsExplained(job.out)'
      BY <2>2 DEF SelectionIsExplained
    <3>. QED  BY <2>2, <2>3, <2>4, <3>1 DEF JobOK, Promised, Routed, Unrouted, SelectionIsExplained,
                   codex_block_ownership, HoldsOurs, UserCommands
  <2>6. settled'.op = "none"
    BY <2>1 DEF NoJob
  <2>7. FileOK'
    BY <2>6 DEF FileInv, FileOK, Promised, SelectionIsExplained, UsersHooksKept, UserCommands
  <2>. QED  BY <2>5, <2>7 DEF FileInv
<1>. QED  BY <1>1, <1>2

\* Any edit of the user's that leaves a well-formed file keeps the invariant: a
\* running command is marked, and nothing is promised any more.
LEMMA EditInv ==
    ASSUME FileInv, NEW new \in Config, Edit(new),
           new.kind = "absent" => new.block = None,
           new.sel = Id /\ new.block = None => choice' = Id
    PROVE  FileInv'
<1>1. /\ config' = new
      /\ job' = IF job = NoJob THEN job ELSE [job EXCEPT !.raced = TRUE]
      /\ theirs' = [e \in Events |-> UserCommands(new.hooks[e])]
      /\ settled' = NoJob
  BY DEF Edit
<1>2. settled'.op = "none"
  BY <1>1 DEF NoJob
<1>3. UsersHooksKept'
  BY <1>1 DEF UsersHooksKept, UserCommands
<1>4. FileOK'
  BY <1>1, <1>2, <1>3 DEF FileOK, Promised, SelectionIsExplained
<1>5. JobOK'
  <2>1. CASE job = NoJob
    BY <1>1, <2>1 DEF FileInv, JobOK
  <2>2. CASE job # NoJob
    <3>1. job' = [job EXCEPT !.raced = TRUE]
      BY <1>1, <2>2
    <3>2. /\ job' \in Jobs /\ job'.raced
          /\ job'.op = job.op /\ job'.url = job.url /\ job'.dir = job.dir
          /\ job'.out = job.out
      BY <2>2, <3>1 DEF FileInv, JobOK, Jobs, NoJob
    <3>3. Promised(job', job'.out)
      BY <2>2, <3>2 DEF FileInv, JobOK, Promised
    <3>. QED  BY <2>2, <3>2, <3>3 DEF FileInv, JobOK, Promised, Routed, Unrouted,
                   codex_block_ownership, HoldsOurs
  <2>. QED  BY <2>1, <2>2
<1>. QED  BY <1>4, <1>5 DEF FileInv

\* The edits of the user's, one by one.
LEMMA UserEditInv ==
    ASSUME FileInv, UserEdit
    PROVE  FileInv'
<1>0. /\ config \in Config
      /\ config.kind = "absent" => config.block = None
      /\ config.sel = Id /\ config.block = None => choice = Id
  BY DEF FileInv, FileOK, SelectionIsExplained
<1>1. ASSUME NEW p \in Providers \cup {None}, Select(p)
      PROVE  FileInv'
  <2>. DEFINE new == [config EXCEPT !.kind = "toml", !.sel = p]
  <2>1. new \in Config /\ new.kind = "toml" /\ new.sel # Id
    BY <1>0, IdAssumption DEF Config
  <2>2. Edit(new)
    BY <1>1 DEF Select
  <2>. QED  BY <2>1, <2>2, EditInv
<1>2. ASSUME NEW delete \in BOOLEAN, TakeBlock(delete)
      PROVE  FileInv'
  <2>1. config.block \in Block /\ config.block # None
    BY <1>0, <1>2 DEF TakeBlock, Config
  <2>. DEFINE after == IF config.sel = Id THEN None ELSE config.sel
              gone == [config EXCEPT !.block = None, !.sel = after]
              kept == [config EXCEPT !.block.managed = FALSE]
  <2>2. CASE Edit(gone)
    <3>1. gone \in Config /\ gone.sel # Id /\ gone.block = None
      BY <1>0, IdAssumption DEF Config
    <3>. QED  BY <2>2, <3>1, EditInv
  <2>3. CASE Edit(kept)
    <3>1. kept = [config EXCEPT !.block = [config.block EXCEPT !.managed = FALSE]]
      BY <1>0 DEF Config
    <3>2. [config.block EXCEPT !.managed = FALSE] \in Block
      BY <2>1 DEF Block
    <3>3. kept \in Config /\ kept.block \in Block /\ kept.kind = config.kind
      BY <1>0, <3>1, <3>2 DEF Config
    <3>. QED  BY <1>0, <2>1, <2>3, <3>3, EditInv, BlockAssumption
  <2>. QED  BY <1>2, <2>2, <2>3 DEF TakeBlock
<1>3. ASSUME NEW hooks \in [Events -> Entries], NEW new, Edit(new), UNCHANGED choice,
             \/ new = [config EXCEPT !.hooks = hooks]
             \/ new = [config EXCEPT !.kind = "toml", !.hooks = hooks]
      PROVE  FileInv'
  <2>1. /\ new \in Config /\ new.kind \in {config.kind, "toml"}
        /\ new.sel = config.sel /\ new.block = config.block
    BY <1>0, <1>3 DEF Config
  <2>. QED  BY <1>0, <1>3, <2>1, EditInv
<1>4. ASSUME NEW e \in Events
      PROVE  config.hooks \in [Events -> Entries] /\ config.hooks[e] \in Entries
  BY <1>0 DEF Config
<1>5. ASSUME NEW e \in Events, NEW cmd \in UserHooks, AddHook(e, cmd)
      PROVE  FileInv'
  <2>. DEFINE old == config.hooks[e]
              own == [form |-> "array", cmds |-> {cmd}]
              added == [form |-> IF old.form = "inline" THEN "inline" ELSE "tables",
                        groups |-> old.groups \cup {own}]
  <2>1. old.groups \subseteq Group /\ own \in Group
    BY <1>4 DEF Entries, Group
  <2>2. CASE Edit([config EXCEPT !.kind = "toml",
                                 !.hooks[e] = [form |-> IF @.form = "inline" THEN "inline" ELSE "tables",
                                               groups |-> old.groups \cup {own}]])
    <3>1. added \in Entries
      BY <2>1 DEF Entries
    <3>2. [config.hooks EXCEPT ![e] = added] \in [Events -> Entries]
      BY <1>4, <3>1
    <3>3. [config EXCEPT !.kind = "toml",
                         !.hooks[e] = [form |-> IF @.form = "inline" THEN "inline" ELSE "tables",
                                       groups |-> old.groups \cup {own}]]
          = [config EXCEPT !.kind = "toml", !.hooks = [config.hooks EXCEPT ![e] = added]]
      BY <1>0 DEF Config
    <3>4. UNCHANGED choice
      BY <1>5 DEF AddHook
    <3>. QED  BY <1>3, <2>2, <3>2, <3>3, <3>4
  <2>3. ASSUME NEW g \in old.groups, g.form # "none",
               Edit([config EXCEPT !.hooks[e].groups =
                         (@ \ {g}) \cup {[g EXCEPT !.cmds = @ \cup {cmd}]}])
        PROVE  FileInv'
    <3>. DEFINE grown == (old.groups \ {g}) \cup {[g EXCEPT !.cmds = @ \cup {cmd}]}
                hooks == [config.hooks EXCEPT ![e] = [old EXCEPT !.groups = grown]]
    <3>1. [g EXCEPT !.cmds = @ \cup {cmd}] \in Group
      BY <2>1, <2>3 DEF Group
    <3>2. grown \subseteq Group
      BY <2>1, <3>1
    <3>3. [old EXCEPT !.groups = grown] \in Entries
      BY <1>4, <3>2 DEF Entries
    <3>4. hooks \in [Events -> Entries]
      BY <1>4, <3>3
    <3>5. [config EXCEPT !.hooks[e].groups = (@ \ {g}) \cup {[g EXCEPT !.cmds = @ \cup {cmd}]}]
          = [config EXCEPT !.hooks = hooks]
      OBVIOUS
    <3>6. UNCHANGED choice
      BY <1>5 DEF AddHook
    <3>. QED  BY <1>3, <2>3, <3>4, <3>5, <3>6
  <2>. QED  BY <1>5, <2>2, <2>3 DEF AddHook
<1>6. ASSUME NEW e \in Events, Reshape(e)
      PROVE  FileInv'
  <2>. DEFINE hooks == [config.hooks EXCEPT ![e] = [config.hooks[e] EXCEPT !.form = "inline"]]
  <2>1. [config.hooks[e] EXCEPT !.form = "inline"] \in Entries
    BY <1>4 DEF Entries
  <2>2. hooks \in [Events -> Entries]
    BY <1>4, <2>1
  <2>3. [config EXCEPT !.hooks[e].form = "inline"] = [config EXCEPT !.hooks = hooks]
    OBVIOUS
  <2>4. Edit([config EXCEPT !.hooks[e].form = "inline"]) /\ UNCHANGED choice
    BY <1>6 DEF Reshape
  <2>. QED  BY <1>3, <2>2, <2>3, <2>4
<1>7. ASSUME Spoil
      PROVE  FileInv'
  <2>. DEFINE slip == [config EXCEPT !.kind = IF @ = "toml" THEN "invalid" ELSE "toml"]
              mode == [config EXCEPT !.readable = ~@]
  <2>1. /\ slip \in Config /\ slip.kind # "absent"
        /\ slip.sel = config.sel /\ slip.block = config.block
    BY <1>0 DEF Config
  <2>2. mode \in Config
    BY <1>0 DEF Config
  <2>3. mode.kind = config.kind /\ mode.sel = config.sel /\ mode.block = config.block
    BY <1>0 DEF Config
  <2>4. CASE Edit(slip) /\ UNCHANGED choice
    BY <1>0, <2>1, <2>4, EditInv
  <2>5. CASE Edit(mode) /\ UNCHANGED choice
    BY <1>0, <2>2, <2>3, <2>5, EditInv
  <2>. QED  BY <1>7, <2>4, <2>5 DEF Spoil
<1>. QED  BY <1>1, <1>2, <1>5, <1>6, <1>7 DEF UserEdit

\* The provider a block carries is one of the user's, never our own id.
LEMMA SavedPriorType ==
    ASSUME NEW c \in Config
    PROVE  SavedPrior(c) \in Providers \cup {None}
  BY DEF SavedPrior, codex_block_ownership, Config, Block

\* enable: the text is right for the file that was read.
LEMMA EnableInv ==
    ASSUME FileInv, NEW url \in Ports, NEW dir \in Dirs \cup {None}, Enable(url, dir)
    PROVE  FileInv'
<1>. DEFINE target == codex_enable_merge(config, url)
            routed == IF AtTarget(config, url) THEN config ELSE target
            out == IF dir = None THEN routed
                   ELSE [routed EXCEPT !.hooks = codex_hooks_enable_merge(@, dir)]
<1>0. config \in Config /\ (config.kind = "absent" => config.block = None)
  BY DEF FileInv, FileOK
<1>1. /\ target \in Config /\ target.kind = "toml" /\ target.sel = Id
      /\ target.block \in Block /\ target.block.url = url /\ target.block.wired
      /\ target.hooks = config.hooks
  <2>. DEFINE block == [managed |-> TRUE, url |-> url, wired |-> TRUE,
                        prior |-> PriorToRecord(config)]
  <2>1. PriorToRecord(config) \in Providers \cup {None}
    BY <1>0, SavedPriorType DEF PriorToRecord, Config
  <2>2. block \in Block /\ block.url = url /\ block.wired
    BY <2>1 DEF Block
  <2>3. target = [config EXCEPT !.kind = "toml", !.block = block, !.sel = Id]
    BY DEF codex_enable_merge
  <2>. QED  BY <1>0, <2>2, <2>3 DEF Config
<1>2. /\ routed \in Config /\ routed.kind # "absent" /\ routed.sel = Id
      /\ routed.block # None /\ routed.block.url = url /\ routed.block.wired
      /\ routed.hooks = config.hooks
  <2>1. CASE AtTarget(config, url)
    BY <1>0, <2>1 DEF AtTarget, codex_block_ownership
  <2>2. CASE ~AtTarget(config, url)
    BY <1>1, <2>2, BlockAssumption
  <2>. QED  BY <2>1, <2>2
<1>3. /\ out \in Config /\ out.kind # "absent"
      /\ Routed(out, url, dir)
      /\ \A e \in Events : UserCommands(out.hooks[e]) = UserCommands(config.hooks[e])
  <2>1. CASE dir = None
    BY <1>2, <2>1 DEF Routed
  <2>2. CASE dir # None
    <3>. DEFINE hooks == codex_hooks_enable_merge(config.hooks, dir)
    <3>1. config.hooks \in [Events -> Entries] /\ dir \in Dirs
      BY <1>0, <2>2 DEF Config
    <3>2. /\ hooks \in [Events -> Entries]
          /\ \A e \in Events : /\ UserCommands(hooks[e]) = UserCommands(config.hooks[e])
                               /\ \E g \in hooks[e].groups : dir \in g.cmds
      BY <3>1, EnableHooksFacts
    <3>3. out = [routed EXCEPT !.hooks = hooks]
      BY <1>2, <2>2
    <3>4. /\ out \in Config /\ out.kind = routed.kind /\ out.sel = routed.sel
          /\ out.block = routed.block /\ out.hooks = hooks
      BY <1>2, <3>2, <3>3 DEF Config
    <3>. QED  BY <1>2, <3>2, <3>4 DEF Routed
  <2>. QED  BY <2>1, <2>2
<1>4. /\ job = NoJob
      /\ Conclude("enable", url, dir, out)
      /\ UNCHANGED <<config, edits, theirs, choice>>
  BY DEF Enable
<1>5. SelectionIsExplained(out)
  BY <1>3 DEF SelectionIsExplained, Routed
<1>. HIDE DEF out
<1>. QED  BY <1>3, <1>4, <1>5, ConcludeInv

\* disable: the same, and the selection goes with the block.
LEMMA DisableInv ==
    ASSUME FileInv, Disable
    PROVE  FileInv'
<1>. DEFINE plain == codex_disable_merge(config)
            unrouted == IF codex_block_ownership(config).ours THEN plain ELSE config
            hooks == codex_hooks_disable_merge(config.hooks)
            out == [unrouted EXCEPT !.hooks = codex_hooks_disable_merge(@)]
<1>0. /\ config \in Config /\ config.kind = "toml"
      /\ config.sel = Id /\ config.block = None => choice = Id
  BY DEF FileInv, FileOK, Disable, SelectionIsExplained
<1>1. /\ plain \in Config /\ plain.kind = config.kind /\ plain.block = None /\ plain.sel # Id
      /\ plain.hooks = config.hooks
  <2>1. SavedPrior(config) \in Providers \cup {None}
    BY <1>0, SavedPriorType
  <2>. DEFINE sel == IF config.sel = Id THEN SavedPrior(config) ELSE config.sel
  <2>2. sel \in Providers \cup {None} /\ sel # Id
    BY <1>0, <2>1, IdAssumption DEF Config
  <2>3. plain = [config EXCEPT !.block = None, !.sel = sel]
    BY DEF codex_disable_merge
  <2>. QED  BY <1>0, <2>2, <2>3 DEF Config
<1>2. /\ unrouted \in Config /\ unrouted.kind = "toml" /\ unrouted.hooks = config.hooks
      /\ ~codex_block_ownership(unrouted).ours
      /\ SelectionIsExplained(unrouted)
  <2>1. CASE codex_block_ownership(config).ours
    BY <1>0, <1>1, <2>1 DEF codex_block_ownership, SelectionIsExplained
  <2>2. CASE ~codex_block_ownership(config).ours
    BY <1>0, <2>2 DEF SelectionIsExplained
  <2>. QED  BY <2>1, <2>2
<1>3. /\ hooks \in [Events -> Entries]
      /\ \A e \in Events : /\ UserCommands(hooks[e]) = UserCommands(config.hooks[e])
                           /\ ~HoldsOurs(hooks[e])
  <2>1. config.hooks \in [Events -> Entries]
    BY <1>0 DEF Config
  <2>. QED  BY <2>1, DisableHooksFacts
<1>4. out = [unrouted EXCEPT !.hooks = hooks]
  BY <1>2
<1>5. /\ out \in Config /\ out.kind = "toml" /\ out.hooks = hooks
      /\ out.sel = unrouted.sel /\ out.block = unrouted.block
  BY <1>2, <1>3, <1>4 DEF Config
<1>6. Unrouted(out) /\ SelectionIsExplained(out)
  BY <1>2, <1>3, <1>5 DEF Unrouted, codex_block_ownership, SelectionIsExplained
<1>7. /\ job = NoJob
      /\ Conclude("disable", None, None, out)
      /\ UNCHANGED <<config, edits, theirs, choice>>
  BY DEF Disable
<1>8. \A e \in Events : UserCommands(out.hooks[e]) = UserCommands(config.hooks[e])
  BY <1>3, <1>5
<1>. HIDE DEF out
<1>. QED  BY <1>5, <1>6, <1>7, <1>8, ConcludeInv

\* The rename: the text of the command becomes the file.  A text that was raced
\* by an edit is still a well-formed file; it just stands for nobody's wish.
LEMMA WriteInv ==
    ASSUME FileInv, Write
    PROVE  FileInv'
<1>1. /\ job # NoJob /\ job \in Jobs /\ job.out \in Config
      /\ config' = [job.out EXCEPT !.readable = config.readable]
      /\ job' = NoJob
  BY JobFields DEF FileInv, JobOK, Write
<1>2. /\ config' \in Config /\ config'.kind = job.out.kind /\ config'.sel = job.out.sel
      /\ config'.block = job.out.block /\ config'.hooks = job.out.hooks
  BY <1>1 DEF FileInv, FileOK, Config
<1>3. job.out.kind # "absent" /\ Promised(job, job.out)
  BY <1>1 DEF FileInv, JobOK
<1>4. JobOK'
  BY <1>1 DEF JobOK, Jobs
<1>5. CASE job.raced
  <2>1. /\ theirs' = [e \in Events |-> UserCommands(job.out.hooks[e])]
        /\ choice' = IF job.op = "disable" THEN job.out.sel ELSE job.out.block.prior
        /\ settled' = NoJob
    BY <1>5 DEF Write
  <2>2. settled'.op = "none"
    BY <2>1 DEF NoJob
  <2>3. UsersHooksKept'
    BY <1>2, <2>1 DEF UsersHooksKept, UserCommands
  <2>4. SelectionIsExplained(config)'
    <3>1. CASE job.op = "disable"
      BY <1>2, <2>1, <3>1 DEF SelectionIsExplained
    <3>2. CASE job.op # "disable"
      <4>1. job.op = "enable"
        BY <1>1, <3>2 DEF Jobs
      <4>2. job.out.block # None
        BY <1>3, <4>1 DEF Promised, Routed
      <4>. QED  BY <1>2, <4>2 DEF SelectionIsExplained
    <3>. QED  BY <3>1, <3>2
  <2>. QED  BY <1>2, <1>3, <1>4, <2>2, <2>3, <2>4 DEF FileInv, FileOK, Promised
<1>6. CASE ~job.raced
  <2>1. /\ settled' = Ended(job.op, job.url, job.dir)
        /\ UNCHANGED <<theirs, choice>>
    BY <1>6 DEF Write
  <2>2. settled'.op = job.op /\ settled'.url = job.url /\ settled'.dir = job.dir
    BY <2>1 DEF Ended
  <2>3. /\ SelectionIsExplained(job.out)
        /\ \A e \in Events : UserCommands(job.out.hooks[e]) = theirs[e]
    BY <1>1, <1>6 DEF FileInv, JobOK
  <2>4. Promised(settled, config)'
    BY <1>2, <1>3, <2>2 DEF Promised, Routed, Unrouted, codex_block_ownership, HoldsOurs
  <2>5. UsersHooksKept'
    BY <1>2, <2>1, <2>3 DEF UsersHooksKept, UserCommands
  <2>6. SelectionIsExplained(config)'
    BY <1>2, <2>1, <2>3 DEF SelectionIsExplained
  <2>. QED  BY <1>2, <1>3, <1>4, <2>4, <2>5, <2>6 DEF FileInv, FileOK
<1>. QED  BY <1>5, <1>6

\* FileInv is inductive for the whole system, hooks and clocks included.
LEMMA FileInvHolds == Spec => []FileInv
<1>1. ASSUME Init
      PROVE  FileInv
  <2>1. /\ config \in Config
        /\ config.kind = "absent" => config = NoConfig
        /\ job = NoJob /\ settled = NoJob
        /\ theirs = [e \in Events |-> UserCommands(config.hooks[e])]
        /\ choice = IF config.sel = Id /\ codex_block_ownership(config).ours
                    THEN SavedPrior(config) ELSE config.sel
    BY <1>1, StartAssumption DEF Init, ConfigInit
  <2>2. settled.op = "none"
    BY <2>1 DEF NoJob
  <2>3. config.kind = "absent" => config.block = None
    BY <2>1 DEF NoConfig
  <2>4. SelectionIsExplained(config)
    BY <2>1 DEF SelectionIsExplained, codex_block_ownership
  <2>5. UsersHooksKept
    BY <2>1 DEF UsersHooksKept
  <2>. QED  BY <2>1, <2>2, <2>3, <2>4, <2>5 DEF FileInv, FileOK, JobOK, Jobs, Promised
<1>2. ASSUME FileInv, [Next]_vars
      PROVE  FileInv'
  <2>1. CASE RunCommand
    <3>1. CASE \E url \in Ports, dir \in Dirs \cup {None} : Enable(url, dir)
      BY <1>2, <3>1, EnableInv
    <3>2. CASE Disable
      BY <1>2, <3>2, DisableInv
    <3>3. CASE Die
      <4>1. job' = NoJob /\ UNCHANGED <<config, edits, theirs, choice, settled>>
        BY <3>3 DEF Die
      <4>. QED  BY <1>2, <4>1 DEF FileInv, FileOK, JobOK, Jobs, Promised, Routed, Unrouted,
                     SelectionIsExplained, UsersHooksKept, UserCommands, HoldsOurs,
                     codex_block_ownership
    <3>. QED  BY <2>1, <3>1, <3>2, <3>3 DEF RunCommand
  <2>2. CASE Rewrite
    BY <1>2, <2>2, WriteInv, UserEditInv DEF Rewrite
  <2>3. CASE UNCHANGED configVars
    BY <1>2, <2>3 DEF configVars, FileInv, FileOK, JobOK, Jobs, Promised, Routed, Unrouted,
        SelectionIsExplained, UsersHooksKept, UserCommands, HoldsOurs, codex_block_ownership
  <2>4. [Next]_vars => RunCommand \/ Rewrite \/ UNCHANGED configVars
    BY DEF Next, vars, configVars, Pass, Change, Launch, StartRead, StartVerify, PromptRead,
        PromptDecide, Send
  <2>. QED  BY <1>2, <2>1, <2>2, <2>3, <2>4
<1>. QED  BY <1>1, <1>2, PTL DEF Spec

\* enable and disable never add, drop or move a hook command of the user's, in
\* any number of events, groups and directories, whatever edits come between a
\* command's read and its rename.
THEOREM HooksKept == Spec => []UsersHooksKept
  BY FileInvHolds, PTL DEF FileInv, FileOK

\* A command that ends well and is not disturbed leaves what it promises: enable
\* the route over that URL and our hooks of that directory in every event,
\* disable nothing of ours and no selection without its block.
THEOREM Settle == Spec => []CommandsSettle
<1>1. FileInv => CommandsSettle
  <2>. SUFFICES ASSUME FileInv PROVE CommandsSettle
    OBVIOUS
  <2>1. Promised(settled, config) /\ SelectionIsExplained(config)
    BY DEF FileInv, FileOK
  <2>2. EnableSettles
    BY <2>1 DEF EnableSettles, Promised, Routed
  <2>3. DisableSettles
    BY <2>1 DEF DisableSettles, Promised, Unrouted, SelectionIsExplained, codex_block_ownership
  <2>. QED  BY <2>2, <2>3 DEF CommandsSettle
<1>. QED  BY <1>1, FileInvHolds, PTL

-----------------------------------------------------------------------------
(* The sessions and their hooks *)

Routes == Ports \cup {None}

LiveSession == [live : {TRUE}, start : Int, route : Routes, overridden : BOOLEAN,
                allowed_count : Nat, inbound : Nat \cup {None}]

SessionStates == {NoSession} \cup LiveSession

Outcomes == {"none", "NotRouted", "AuthFail", "ProxyDown", "RestartNeeded", "NeutralOnboarding",
             "caused", "causeless", "sent"}

HookStates ==
    [pc : {"idle"}, out : Outcomes, auth : Auth \cup {None}]
    \cup [pc : {"start"}]
    \cup [pc : {"warm"}, route : Routes, auth : Auth]
    \cup [pc : {"facts"}, exempt : {"no", "optout", "hatch", "command"}, route : Routes]
    \cup [pc : {"send"}, route : Routes, confirmed : BOOLEAN]

IntakeTypeOK ==
    /\ clock \in Nat /\ mtime \in Nat
    /\ proxy \in [Ports -> {"ours", "foreign", "down"}]
    /\ session \in [Sessions -> SessionStates]
    /\ hook \in [Sessions -> HookStates]
    /\ unwarned \in [Sessions -> Nat]

\* The route the text selects, could it be read.
SelectedRoute(c) ==
    IF c.kind = "toml" /\ c.sel = Id /\ c.block # None /\ c.block.url \in Ports
    THEN c.block.url ELSE None

\* The file was not written since the second in which s was launched.
Untouched(s) == mtime <= session[s].start

\* A live session was launched in the past, and an untouched file still selects
\* the route it was launched with.
LaunchedWithRoute ==
    \A s \in Sessions : session[s].live =>
        /\ session[s].start <= clock
        /\ Untouched(s) => session[s].route = SelectedRoute(config)

\* What a hook carries over from its first read to its decision: the route is
\* the session's if the file is still untouched, and the file is still there.
ReadsStand ==
    \A s \in Sessions : hook[s].pc \in {"warm", "facts"} /\ hook[s].route # None =>
        /\ Untouched(s) => session[s].route = hook[s].route
        /\ config.kind # "absent"

HooksOfSessions ==
    \A s \in Sessions : /\ hook[s].pc # "idle" => session[s].live
                        /\ hook[s].pc = "warm" => hook[s].route # None /\ hook[s].auth.env = "sk"

IntakeInv ==
    /\ mtime <= clock /\ clock <= MaxClock
    /\ LaunchedWithRoute
    /\ ReadsStand
    /\ VerdictsAreSound

\* Overridden sessions are never seen by the proxy, and a prompt that passed in
\* silence is on the marker.
SilenceIsCounted ==
    \A s \in Sessions :
        /\ session[s].live /\ session[s].overridden => session[s].inbound = None
        /\ unwarned[s] <= 1
        /\ unwarned[s] = 1 => session[s].live /\ session[s].allowed_count >= 1

\* What the hooks read of the text is a route or nothing, and the selected one
\* if it is a route.
LEMMA RouteFacts ==
    ASSUME NEW c
    PROVE  /\ codex_route_from_config(c) \in Routes
           /\ codex_route_from_config(c) # None => /\ codex_route_from_config(c) = SelectedRoute(c)
                                                   /\ c.kind # "absent"
           /\ c.readable => codex_route_from_config(c) = SelectedRoute(c)
  BY DEF codex_route_from_config, SelectedRoute, Routes

\* A launch second lies in the past.
LEMMA StartFacts ==
    ASSUME NEW t \in Nat
    PROVE  /\ session_start_ms(t) \in Int
           /\ t < FallBackAt => session_start_ms(t) <= t /\ LocalNaive(t) = t
<1>1. LocalNaive(t) \in Int /\ (t < FallBackAt => LocalNaive(t) = t)
  BY ClockAssumption DEF LocalNaive
<1>2. LocalNaive(t) % SecondTicks \in Nat
  BY <1>1, ClockAssumption
<1>. QED  BY <1>1, <1>2 DEF session_start_ms

\* A session that is live has all the fields of one.
LEMMA LiveFields ==
    ASSUME NEW x \in SessionStates
    PROVE  /\ x.live <=> x \in LiveSession
           /\ x.live => x.allowed_count \in Nat /\ x.start \in Int
<1>1. NoSession.live = FALSE
  BY DEF NoSession
<1>2. \A y \in LiveSession : y.live = TRUE /\ y.allowed_count \in Nat /\ y.start \in Int
  BY DEF LiveSession
<1>. QED  BY <1>1, <1>2 DEF SessionStates

\* Launch replaces one session and one hook.
LEMMA SessionStep ==
    ASSUME IntakeTypeOK, NEW s \in Sessions, NEW overridden \in BOOLEAN, Launch(s, overridden)
    PROVE  /\ session[s] = NoSession /\ ~session[s].live
           /\ session'[s] \in SessionStates /\ session'[s].live
           /\ session'[s].start = session_start_ms(clock + 1)
           /\ session'[s].route = codex_route_from_config(config)
           /\ session'[s].inbound = None /\ session'[s].allowed_count = 0
           /\ hook'[s] \in HookStates /\ hook'[s].pc = "start"
           /\ \A t \in Sessions \ {s} : session'[t] = session[t] /\ hook'[t] = hook[t]
<1>1. ~session[s].live /\ session[s] \in SessionStates
  BY DEF Launch, IntakeTypeOK
<1>2. session[s] = NoSession
  BY <1>1, LiveFields DEF SessionStates
<1>. DEFINE new == [live |-> TRUE, start |-> session_start_ms(clock + 1),
                    route |-> codex_route_from_config(config), overridden |-> overridden,
                    allowed_count |-> 0, inbound |-> None]
<1>3. session' = [session EXCEPT ![s] = new] /\ hook' = [hook EXCEPT ![s] = [pc |-> "start"]]
  BY DEF Launch
<1>4. new \in SessionStates
  <2>1. clock + 1 \in Nat
    BY DEF IntakeTypeOK
  <2>. QED  BY <2>1, StartFacts, RouteFacts DEF SessionStates, LiveSession
<1>5. session'[s] = new /\ hook'[s] = [pc |-> "start"]
  BY <1>3 DEF IntakeTypeOK
<1>6. \A t \in Sessions \ {s} : session'[t] = session[t] /\ hook'[t] = hook[t]
  BY <1>3 DEF IntakeTypeOK
<1>. HIDE DEF new
<1>7. new.live /\ new.start = session_start_ms(clock + 1) /\ new.inbound = None
      /\ new.route = codex_route_from_config(config) /\ new.allowed_count = 0
  BY DEF new
<1>. QED  BY <1>1, <1>2, <1>4, <1>5, <1>6, <1>7 DEF HookStates

\* The session-start hook's first read: it ends without the onboarding, or goes
\* on with the route it read and a usable key.
LEMMA StartReadStep ==
    ASSUME IntakeTypeOK, NEW s \in Sessions, NEW auth \in StartAuths, StartRead(s, auth)
    PROVE  /\ hook[s].pc = "start" /\ hook'[s] \in HookStates
           /\ \/ hook'[s].pc = "idle" /\ hook'[s].out \notin {"NeutralOnboarding", "causeless"}
              \/ /\ hook'[s].pc = "warm" /\ hook'[s].auth.env = "sk"
                 /\ hook'[s].route = codex_route_from_config(config) /\ hook'[s].route # None
           /\ \A t \in Sessions \ {s} : hook'[t] = hook[t]
<1>. DEFINE route == codex_route_from_config(config)
            auth_ok == detect_codex_auth(auth)
            verdict == codex_session_start_verdict(route # None, auth_ok, FALSE, FALSE)
<1>0. auth \in Auth /\ route \in Routes
  BY AuthAssumption, RouteFacts
<1>1. CASE route = None \/ ~auth_ok
  <2>1. verdict \in {"NotRouted", "AuthFail"}
    BY <1>1 DEF codex_session_start_verdict
  <2>2. hook' = [hook EXCEPT ![s] = Idle(verdict, auth)]
    BY <1>1 DEF StartRead
  <2>3. hook'[s] = [pc |-> "idle", out |-> verdict, auth |-> auth]
    BY <2>2 DEF IntakeTypeOK, Idle
  <2>. HIDE DEF verdict
  <2>4. hook'[s] \in HookStates /\ hook'[s].pc = "idle" /\ hook'[s].out = verdict
    BY <1>0, <2>1, <2>3 DEF HookStates, Outcomes
  <2>. QED  BY <2>1, <2>2, <2>4 DEF IntakeTypeOK, StartRead
<1>2. CASE ~(route = None \/ ~auth_ok)
  <2>1. auth.env = "sk"
    BY <1>2 DEF detect_codex_auth, classify_codex_auth
  <2>2. hook' = [hook EXCEPT ![s] = [pc |-> "warm", route |-> route, auth |-> auth]]
    BY <1>2 DEF StartRead
  <2>3. hook'[s] = [pc |-> "warm", route |-> route, auth |-> auth]
    BY <2>2 DEF IntakeTypeOK
  <2>4. /\ hook'[s] \in HookStates /\ hook'[s].pc = "warm"
        /\ hook'[s].route = route /\ hook'[s].auth = auth
    BY <1>0, <2>3 DEF HookStates
  <2>. QED  BY <1>2, <2>1, <2>2, <2>4 DEF IntakeTypeOK, StartRead
<1>. QED  BY <1>1, <1>2

\* The session-start hook's verdict: the onboarding only if the file is older
\* than the launch.
LEMMA StartVerifyStep ==
    ASSUME IntakeTypeOK, NEW s \in Sessions, NEW transcript \in BOOLEAN,
           StartVerify(s, transcript)
    PROVE  /\ hook[s].pc = "warm" /\ hook'[s] \in HookStates /\ hook'[s].pc = "idle"
           /\ hook'[s].auth = hook[s].auth
           /\ hook'[s].out # "causeless"
           /\ hook'[s].out = "NeutralOnboarding" => launch_generation_ok(s, transcript)
           /\ proxy' \in [Ports -> {"ours", "foreign", "down"}]
           /\ \A t \in Sessions \ {s} : hook'[t] = hook[t]
<1>. DEFINE identity_ok == proxy'[hook[s].route] = "ours"
            gen == launch_generation_ok(s, transcript)
            verdict == codex_session_start_verdict(TRUE, TRUE, identity_ok, gen)
<1>1. hook[s] \in HookStates /\ hook[s].pc = "warm"
  BY DEF IntakeTypeOK, StartVerify
<1>2. hook[s].auth \in Auth
  BY <1>1 DEF HookStates
<1>3. /\ verdict \in {"ProxyDown", "RestartNeeded", "NeutralOnboarding"}
      /\ verdict = "NeutralOnboarding" => gen
  BY DEF codex_session_start_verdict
<1>4. hook' = [hook EXCEPT ![s] = Idle(verdict, hook[s].auth)]
  BY DEF StartVerify
<1>5. hook'[s] = [pc |-> "idle", out |-> verdict, auth |-> hook[s].auth]
  BY <1>4 DEF IntakeTypeOK, Idle
<1>. HIDE DEF verdict
<1>6. /\ hook'[s] \in HookStates /\ hook'[s].pc = "idle" /\ hook'[s].out = verdict
      /\ hook'[s].auth = hook[s].auth
  BY <1>2, <1>3, <1>5 DEF HookStates, Outcomes
<1>7. proxy' \in [Ports -> {"ours", "foreign", "down"}]
  BY DEF StartVerify, IntakeTypeOK
<1>8. \A t \in Sessions \ {s} : hook'[t] = hook[t]
  BY <1>4 DEF IntakeTypeOK
<1>. QED  BY <1>1, <1>3, <1>6, <1>7, <1>8

\* The prompt hook's first read.
LEMMA PromptReadStep ==
    ASSUME IntakeTypeOK, NEW s \in Sessions,
           NEW exempt \in {"no", "optout", "hatch", "command"}, PromptRead(s, exempt)
    PROVE  /\ session[s].live
           /\ hook'[s] \in HookStates /\ hook'[s].pc = "facts"
           /\ hook'[s].route = codex_route_from_config(config)
           /\ \A t \in Sessions \ {s} : hook'[t] = hook[t]
<1>. DEFINE new == [pc |-> "facts", exempt |-> exempt, route |-> codex_route_from_config(config)]
<1>1. hook' = [hook EXCEPT ![s] = new]
  BY DEF PromptRead
<1>2. new \in HookStates
  BY RouteFacts DEF HookStates
<1>. QED  BY <1>1, <1>2 DEF IntakeTypeOK, PromptRead

\* The prompt hook's decision: a confirmed prompt passed the route, the identity
\* and the launch generation; a blocked one failed one of them.
LEMMA PromptDecideStep ==
    ASSUME IntakeTypeOK, NEW s \in Sessions, NEW transcript \in BOOLEAN, NEW a8 \in BOOLEAN,
           PromptDecide(s, transcript, a8), session[s].live
    PROVE  /\ hook[s].pc = "facts" /\ hook'[s] \in HookStates
           /\ \/ /\ hook'[s].pc = "send" /\ hook'[s].route = hook[s].route
                 /\ hook'[s].confirmed = RouteConfirmed(s, transcript)
              \/ /\ hook'[s].pc = "idle" /\ ~RouteConfirmed(s, transcript)
                 /\ hook'[s].out = IF Cause(s, transcript) THEN "caused" ELSE "causeless"
           /\ session'[s] \in SessionStates /\ session'[s].live
           /\ session'[s].start = session[s].start /\ session'[s].route = session[s].route
           /\ session'[s].overridden = session[s].overridden
           /\ session'[s].inbound = session[s].inbound
           /\ session'[s].allowed_count = session[s].allowed_count
                                            + IF RouteConfirmed(s, transcript) THEN 1 ELSE 0
           /\ \A t \in Sessions \ {s} : hook'[t] = hook[t] /\ session'[t] = session[t]
<1>. DEFINE confirmed == RouteConfirmed(s, transcript)
            exempt == hook[s].exempt
            block == /\ codex_intake_should_block(exempt = "optout", confirmed, exempt = "hatch")
                     /\ exempt # "command"
            out == IF Cause(s, transcript) THEN "caused" ELSE "causeless"
            new == IF ~block THEN [pc |-> "send", route |-> hook[s].route, confirmed |-> confirmed]
                   ELSE Idle(out, None)
<1>1. hook[s] \in HookStates /\ hook[s].pc = "facts"
  BY DEF IntakeTypeOK, PromptDecide
<1>2. hook[s].route \in Routes
  BY <1>1 DEF HookStates
<1>3. confirmed \in BOOLEAN
  BY DEF RouteConfirmed, codex_route_confirmed
<1>4. block => ~confirmed
  BY DEF codex_intake_should_block
<1>5. hook' = [hook EXCEPT ![s] = new]
  BY DEF PromptDecide
<1>6. hook'[s] = new /\ \A t \in Sessions \ {s} : hook'[t] = hook[t]
  BY <1>5 DEF IntakeTypeOK
<1>7. /\ new \in HookStates
      /\ \/ new.pc = "send" /\ new.route = hook[s].route /\ new.confirmed = confirmed
         \/ new.pc = "idle" /\ ~confirmed /\ new.out = out
  <2>. HIDE DEF confirmed, block
  <2>1. CASE ~block
    <3>1. new = [pc |-> "send", route |-> hook[s].route, confirmed |-> confirmed]
      BY <2>1
    <3>. QED  BY <1>2, <1>3, <3>1 DEF HookStates
  <2>2. CASE block
    <3>1. new = [pc |-> "idle", out |-> out, auth |-> None] /\ out \in Outcomes
      BY <2>2 DEF Idle, Outcomes
    <3>. HIDE DEF out
    <3>. QED  BY <1>4, <2>2, <3>1 DEF HookStates
  <2>. QED  BY <2>1, <2>2
<1>8. session' = IF confirmed THEN [session EXCEPT ![s].allowed_count = @ + 1] ELSE session
  BY DEF PromptDecide
<1>9. session[s] \in SessionStates /\ session[s] \in LiveSession
  BY LiveFields DEF IntakeTypeOK
<1>10. /\ session'[s] \in SessionStates /\ session'[s].live
       /\ session'[s].start = session[s].start /\ session'[s].route = session[s].route
       /\ session'[s].overridden = session[s].overridden
       /\ session'[s].inbound = session[s].inbound
       /\ session'[s].allowed_count = session[s].allowed_count + IF confirmed THEN 1 ELSE 0
       /\ \A t \in Sessions \ {s} : session'[t] = session[t]
  <2>. HIDE DEF confirmed
  <2>1. CASE confirmed
    <3>. DEFINE count == session[s].allowed_count + 1
    <3>0. count \in Nat
      <4>1. session[s].allowed_count \in Nat
        BY <1>9 DEF LiveSession
      <4>. QED  BY <4>1
    <3>1. session'[s] = [session[s] EXCEPT !.allowed_count = count]
      BY <1>8, <2>1 DEF IntakeTypeOK
    <3>. HIDE DEF count
    <3>2. /\ session'[s] \in LiveSession
          /\ session'[s].start = session[s].start /\ session'[s].route = session[s].route
          /\ session'[s].overridden = session[s].overridden
          /\ session'[s].inbound = session[s].inbound
          /\ session'[s].allowed_count = count
      BY <1>9, <3>0, <3>1 DEF LiveSession
    <3>3. \A t \in Sessions \ {s} : session'[t] = session[t]
      BY <1>8, <2>1 DEF IntakeTypeOK
    <3>. QED  BY <2>1, <3>2, <3>3, LiveFields DEF SessionStates, count
  <2>2. CASE ~confirmed
    <3>1. session' = session /\ session[s].allowed_count \in Nat
      BY <1>8, <1>9, <2>2 DEF LiveSession
    <3>. QED  BY <1>9, <2>2, <3>1
  <2>. QED  BY <2>1, <2>2
<1>. QED  BY <1>1, <1>6, <1>7, <1>10

\* The prompt leaves: only the proxy's note of the session changes, and never
\* that of an overridden one.
LEMMA SendStep ==
    ASSUME IntakeTypeOK, NEW s \in Sessions, Send(s), session[s].live
    PROVE  /\ hook'[s] \in HookStates /\ hook'[s].pc = "idle" /\ hook'[s].out = "sent"
           /\ session'[s] \in SessionStates /\ session'[s].live
           /\ session'[s].start = session[s].start /\ session'[s].route = session[s].route
           /\ session'[s].overridden = session[s].overridden
           /\ session'[s].allowed_count = session[s].allowed_count
           /\ session[s].overridden => session'[s].inbound = session[s].inbound
           /\ \A t \in Sessions \ {s} : hook'[t] = hook[t] /\ session'[t] = session[t]
<1>. DEFINE seen == IF ~session[s].overridden /\ session[s].route # None
                       /\ proxy[session[s].route] = "ours"
                    THEN clock ELSE session[s].inbound
<1>1. session[s] \in LiveSession
  BY LiveFields DEF IntakeTypeOK
<1>2. seen \in Nat \cup {None} /\ (session[s].overridden => seen = session[s].inbound)
  BY <1>1 DEF IntakeTypeOK, LiveSession
<1>3. /\ hook' = [hook EXCEPT ![s] = Idle("sent", None)]
      /\ session' = [session EXCEPT ![s].inbound = seen]
  BY DEF Send
<1>4. hook'[s] = [pc |-> "idle", out |-> "sent", auth |-> None]
  BY <1>3 DEF IntakeTypeOK, Idle
<1>5. session'[s] = [session[s] EXCEPT !.inbound = seen]
  BY <1>3 DEF IntakeTypeOK
<1>6. \A t \in Sessions \ {s} : hook'[t] = hook[t] /\ session'[t] = session[t]
  BY <1>3 DEF IntakeTypeOK
<1>. HIDE DEF seen
<1>7. hook'[s] \in HookStates /\ hook'[s].pc = "idle" /\ hook'[s].out = "sent"
  BY <1>4 DEF HookStates, Outcomes
<1>8. /\ session'[s] \in SessionStates /\ session'[s].live
      /\ session'[s].start = session[s].start /\ session'[s].route = session[s].route
      /\ session'[s].overridden = session[s].overridden
      /\ session'[s].allowed_count = session[s].allowed_count
      /\ session'[s].inbound = seen
  BY <1>1, <1>2, <1>5 DEF SessionStates, LiveSession
<1>. QED  BY <1>2, <1>6, <1>7, <1>8

\* The rest of the system leaves sessions and hooks alone.
Elsewhere == RunCommand \/ Rewrite \/ Pass \/ Change \/ UNCHANGED vars

\* What a step of the rest of the system may do to the clocks.
LEMMA ElsewhereStep ==
    ASSUME IntakeTypeOK, Elsewhere
    PROVE  /\ UNCHANGED <<session, hook, unwarned>>
           /\ proxy' \in [Ports -> {"ours", "foreign", "down"}]
           /\ \/ UNCHANGED <<clock, mtime>>
              \/ clock < MaxClock /\ clock' = clock + 1 /\ mtime' \in {mtime, clock + 1}
           /\ mtime' \in Nat /\ clock' \in Nat
<1>1. CASE RunCommand
  BY <1>1 DEF RunCommand, IntakeTypeOK
<1>2. CASE Rewrite
  BY <1>2 DEF Rewrite, IntakeTypeOK
<1>3. CASE Pass
  BY <1>3 DEF Pass, IntakeTypeOK
<1>4. CASE Change
  BY <1>4 DEF Change, IntakeTypeOK
<1>5. CASE UNCHANGED vars
  BY <1>5 DEF vars, IntakeTypeOK
<1>. QED  BY <1>1, <1>2, <1>3, <1>4, <1>5 DEF Elsewhere

\* A hook that is under way belongs to a session that is live.
LEMMA IntakeTypeHolds == Spec => [](IntakeTypeOK /\ HooksOfSessions)
<1>1. ASSUME Init
      PROVE  IntakeTypeOK /\ HooksOfSessions
  <2>1. /\ clock = 0 /\ mtime = 0 /\ proxy \in [Ports -> {"ours", "foreign", "down"}]
        /\ session = [s \in Sessions |-> NoSession]
        /\ hook = [s \in Sessions |-> [pc |-> "idle", out |-> "none", auth |-> None]]
        /\ unwarned = [s \in Sessions |-> 0]
    BY <1>1, ProxyAssumption DEF Init, Idle
  <2>2. [pc |-> "idle", out |-> "none", auth |-> None] \in HookStates
    BY DEF HookStates, Outcomes
  <2>3. IntakeTypeOK
    BY <2>1, <2>2 DEF IntakeTypeOK, SessionStates
  <2>4. \A s \in Sessions : hook[s].pc = "idle"
    BY <2>1
  <2>. QED  BY <2>3, <2>4 DEF HooksOfSessions
<1>2. ASSUME IntakeTypeOK, HooksOfSessions, [Next]_vars
      PROVE  (IntakeTypeOK /\ HooksOfSessions)'
  <2>1. CASE Elsewhere
    BY <1>2, <2>1, ElsewhereStep DEF IntakeTypeOK, HooksOfSessions
  <2>2. ASSUME NEW s \in Sessions, NEW overridden \in BOOLEAN, Launch(s, overridden)
        PROVE  (IntakeTypeOK /\ HooksOfSessions)'
    <3>1. UNCHANGED <<mtime, proxy, unwarned>> /\ clock' = clock + 1
      BY <2>2 DEF Launch
    <3>2. /\ session' = [session EXCEPT ![s] = session'[s]]
          /\ hook' = [hook EXCEPT ![s] = hook'[s]]
      BY <1>2, <2>2 DEF Launch, IntakeTypeOK
    <3>3. IntakeTypeOK'
      BY <1>2, <2>2, <3>1, <3>2, SessionStep DEF IntakeTypeOK
    <3>4. HooksOfSessions'
      BY <1>2, <2>2, SessionStep DEF HooksOfSessions
    <3>. QED  BY <3>3, <3>4
  <2>3. ASSUME NEW s \in Sessions, NEW auth \in StartAuths, StartRead(s, auth)
        PROVE  (IntakeTypeOK /\ HooksOfSessions)'
    <3>1. UNCHANGED <<clock, mtime, proxy, session, unwarned>>
      BY <2>3 DEF StartRead
    <3>2. hook' = [hook EXCEPT ![s] = hook'[s]]
      BY <1>2, <2>3 DEF StartRead, IntakeTypeOK
    <3>3. IntakeTypeOK'
      BY <1>2, <2>3, <3>1, <3>2, StartReadStep DEF IntakeTypeOK
    <3>4. HooksOfSessions'
      BY <1>2, <2>3, <3>1, StartReadStep DEF HooksOfSessions
    <3>. QED  BY <3>3, <3>4
  <2>4. ASSUME NEW s \in Sessions, NEW transcript \in BOOLEAN, StartVerify(s, transcript)
        PROVE  (IntakeTypeOK /\ HooksOfSessions)'
    <3>1. UNCHANGED <<clock, mtime, session, unwarned>>
      BY <2>4 DEF StartVerify
    <3>2. hook' = [hook EXCEPT ![s] = hook'[s]]
      BY <1>2, <2>4 DEF StartVerify, IntakeTypeOK
    <3>3. IntakeTypeOK'
      BY <1>2, <2>4, <3>1, <3>2, StartVerifyStep DEF IntakeTypeOK
    <3>4. HooksOfSessions'
      BY <1>2, <2>4, <3>1, StartVerifyStep DEF HooksOfSessions
    <3>. QED  BY <3>3, <3>4
  <2>5. ASSUME NEW s \in Sessions, NEW exempt \in {"no", "optout", "hatch", "command"},
               PromptRead(s, exempt)
        PROVE  (IntakeTypeOK /\ HooksOfSessions)'
    <3>1. UNCHANGED <<clock, mtime, proxy, session, unwarned>>
      BY <2>5 DEF PromptRead
    <3>2. hook' = [hook EXCEPT ![s] = hook'[s]]
      BY <1>2, <2>5 DEF PromptRead, IntakeTypeOK
    <3>3. IntakeTypeOK'
      BY <1>2, <2>5, <3>1, <3>2, PromptReadStep DEF IntakeTypeOK
    <3>4. HooksOfSessions'
      BY <1>2, <2>5, <3>1, PromptReadStep DEF HooksOfSessions
    <3>. QED  BY <3>3, <3>4
  <2>6. ASSUME NEW s \in Sessions, NEW transcript \in BOOLEAN, NEW a8 \in BOOLEAN,
               PromptDecide(s, transcript, a8)
        PROVE  (IntakeTypeOK /\ HooksOfSessions)'
    <3>0. session[s].live
      BY <1>2, <2>6 DEF PromptDecide, HooksOfSessions
    <3>1. UNCHANGED <<clock, mtime, proxy>> /\ unwarned' \in [Sessions -> Nat]
      BY <1>2, <2>6 DEF PromptDecide, IntakeTypeOK
    <3>2. /\ session' = [session EXCEPT ![s] = session'[s]]
          /\ hook' = [hook EXCEPT ![s] = hook'[s]]
      BY <1>2, <2>6 DEF PromptDecide, IntakeTypeOK
    <3>3. IntakeTypeOK'
      BY <1>2, <2>6, <3>0, <3>1, <3>2, PromptDecideStep DEF IntakeTypeOK
    <3>4. HooksOfSessions'
      BY <1>2, <2>6, <3>0, <3>1, PromptDecideStep DEF HooksOfSessions
    <3>. QED  BY <3>3, <3>4
  <2>7. ASSUME NEW s \in Sessions, Send(s)
        PROVE  (IntakeTypeOK /\ HooksOfSessions)'
    <3>0. session[s].live
      BY <1>2, <2>7 DEF Send, HooksOfSessions
    <3>1. UNCHANGED <<clock, mtime, proxy, unwarned>>
      BY <2>7 DEF Send
    <3>2. /\ session' = [session EXCEPT ![s] = session'[s]]
          /\ hook' = [hook EXCEPT ![s] = hook'[s]]
      BY <1>2, <2>7 DEF Send, IntakeTypeOK
    <3>3. IntakeTypeOK'
      BY <1>2, <2>7, <3>0, <3>1, <3>2, SendStep DEF IntakeTypeOK
    <3>4. HooksOfSessions'
      BY <1>2, <2>7, <3>0, <3>1, SendStep DEF HooksOfSessions
    <3>. QED  BY <3>3, <3>4
  <2>. QED  BY <1>2, <2>1, <2>2, <2>3, <2>4, <2>5, <2>6, <2>7 DEF Next, Elsewhere
<1>. QED  BY <1>1, <1>2, PTL DEF Spec

\* A prompt of an overridden session passes in silence, with an answer of the
\* proxy's, only if it is the first the marker counts.
LEMMA SilentPrompt ==
    ASSUME IntakeTypeOK, SilenceIsCounted, NEW s \in Sessions, NEW transcript \in BOOLEAN,
           NEW a8 \in BOOLEAN, PromptDecide(s, transcript, a8), session[s].live
    PROVE  /\ unwarned'[s] <= 1
           /\ unwarned'[s] = 1 => unwarned[s] = 1 \/ RouteConfirmed(s, transcript)
           /\ \A t \in Sessions \ {s} : unwarned'[t] = unwarned[t]
<1>. DEFINE confirmed == RouteConfirmed(s, transcript)
            warn == \E routed \in a8_routed_recently(s, a8) :
                        should_emit_override_warn(session[s].allowed_count, routed)
            silent == confirmed /\ session[s].overridden /\ a8 /\ ~warn
<1>1. unwarned' = IF silent THEN [unwarned EXCEPT ![s] = @ + 1] ELSE unwarned
  BY DEF PromptDecide
<1>2. silent => session[s].allowed_count < 1
  <2>. SUFFICES ASSUME silent PROVE session[s].allowed_count < 1
    OBVIOUS
  <2>1. ~routed_recently(s)
    BY DEF SilenceIsCounted, routed_recently
  <2>2. routed_recently(s) \in a8_routed_recently(s, a8)
    BY DEF a8_routed_recently
  <2>3. ~should_emit_override_warn(session[s].allowed_count, routed_recently(s))
    BY <2>2
  <2>4. session[s].allowed_count \in Nat
    BY LiveFields DEF IntakeTypeOK
  <2>. QED  BY <2>1, <2>3, <2>4 DEF should_emit_override_warn
<1>3. unwarned[s] \in Nat /\ unwarned[s] <= 1
  BY DEF IntakeTypeOK, SilenceIsCounted
<1>4. silent => unwarned[s] = 0
  <2>1. session[s].allowed_count \in Nat
    BY LiveFields DEF IntakeTypeOK
  <2>. QED  BY <1>2, <1>3, <2>1 DEF SilenceIsCounted
<1>. HIDE DEF silent
<1>5. silent => confirmed
  BY DEF silent
<1>. QED  BY <1>1, <1>3, <1>4, <1>5 DEF IntakeTypeOK

\* However many prompts an overridden session sends, at most one of them passes
\* the gate in silence while the proxy answers.
THEOREM OverrideNoticed == Spec => []OverrideIsNoticed
<1>1. ASSUME Init
      PROVE  SilenceIsCounted
  <2>1. \A s \in Sessions : session[s] = NoSession /\ unwarned[s] = 0
    BY <1>1 DEF Init
  <2>2. NoSession.live = FALSE
    BY DEF NoSession
  <2>. QED  BY <2>1, <2>2 DEF SilenceIsCounted
<1>2. ASSUME IntakeTypeOK, HooksOfSessions, SilenceIsCounted, [Next]_vars
      PROVE  SilenceIsCounted'
  <2>1. CASE Elsewhere
    BY <1>2, <2>1, ElsewhereStep DEF SilenceIsCounted
  <2>2. ASSUME NEW s \in Sessions, NEW overridden \in BOOLEAN, Launch(s, overridden)
        PROVE  SilenceIsCounted'
    <3>1. UNCHANGED unwarned
      BY <2>2 DEF Launch
    <3>2. unwarned[s] \in Nat /\ unwarned[s] <= 1 /\ unwarned[s] # 1
      BY <1>2, <2>2, SessionStep DEF IntakeTypeOK, SilenceIsCounted
    <3>. QED  BY <1>2, <2>2, <3>1, <3>2, SessionStep DEF SilenceIsCounted
  <2>3. CASE UNCHANGED <<session, unwarned>>
    BY <1>2, <2>3 DEF SilenceIsCounted
  <2>4. ASSUME NEW s \in Sessions, NEW transcript \in BOOLEAN, NEW a8 \in BOOLEAN,
               PromptDecide(s, transcript, a8)
        PROVE  SilenceIsCounted'
    <3>0. session[s].live
      BY <1>2, <2>4 DEF PromptDecide, HooksOfSessions
    <3>1. session[s].allowed_count \in Nat
      BY <1>2, <3>0, LiveFields DEF IntakeTypeOK
    <3>2. SilenceIsCounted!(s)'
      BY <1>2, <2>4, <3>0, <3>1, PromptDecideStep, SilentPrompt DEF SilenceIsCounted
    <3>. QED  BY <1>2, <2>4, <3>0, <3>2, PromptDecideStep, SilentPrompt DEF SilenceIsCounted
  <2>5. ASSUME NEW s \in Sessions, Send(s)
        PROVE  SilenceIsCounted'
    <3>0. session[s].live
      BY <1>2, <2>5 DEF Send, HooksOfSessions
    <3>1. UNCHANGED unwarned
      BY <2>5 DEF Send
    <3>. QED  BY <1>2, <2>5, <3>0, <3>1, SendStep DEF SilenceIsCounted
  <2>. QED  BY <1>2, <2>1, <2>2, <2>3, <2>4, <2>5 DEF Next, Elsewhere, StartRead, StartVerify,
                PromptRead
<1>3. SilenceIsCounted => OverrideIsNoticed
  BY DEF SilenceIsCounted, OverrideIsNoticed
<1>. QED  BY <1>1, <1>2, <1>3, IntakeTypeHolds, PTL DEF Spec

\* Who writes the file stamps it; a file that was there stays there.
LEMMA RewriteStep ==
    ASSUME FileInv, Rewrite
    PROVE  /\ config.kind # "absent" => config'.kind # "absent"
           /\ \/ mtime' = clock + 1
              \/ mtime' = mtime /\ SelectedRoute(config') = SelectedRoute(config)
<1>0. config \in Config
  BY DEF FileInv, FileOK
<1>1. config.kind # "absent" => config'.kind # "absent"
  <2>1. CASE Write
    <3>1. /\ job.out \in Config /\ job.out.kind # "absent"
          /\ config' = [job.out EXCEPT !.readable = config.readable]
      BY <2>1, JobFields DEF FileInv, JobOK, Write
    <3>. QED  BY <3>1 DEF Config
  <2>2. CASE UserEdit
    <3>1. config'.kind = config.kind \/ config'.kind # "absent"
      BY <1>0, <2>2 DEF UserEdit, Select, TakeBlock, Reshape, AddHook, Spoil, Edit, Config
    <3>. QED  BY <3>1
  <2>. QED  BY <2>1, <2>2 DEF Rewrite
<1>2. CASE config' = [config EXCEPT !.readable = config'.readable]
  <2>1. /\ config'.kind = config.kind /\ config'.sel = config.sel
        /\ config'.block = config.block
    BY <1>0, <1>2 DEF Config
  <2>2. SelectedRoute(config') = SelectedRoute(config)
    BY <2>1 DEF SelectedRoute
  <2>. QED  BY <1>1, <1>2, <2>2 DEF Rewrite
<1>3. CASE config' # [config EXCEPT !.readable = config'.readable]
  BY <1>1, <1>3 DEF Rewrite
<1>. QED  BY <1>2, <1>3

\* A hook that finds the launch generation in order judges an untouched file,
\* unless the local clock was set back.
LEMMA GenerationMeans ==
    ASSUME MaxClock < FallBackAt, IntakeTypeOK, mtime <= clock, clock <= MaxClock,
           NEW s \in Sessions, session[s].live, NEW transcript \in BOOLEAN
    PROVE  /\ launch_generation_ok(s, transcript) => Untouched(s)
           /\ ~launch_generation_ok(s, transcript) =>
                 ~transcript \/ config.kind = "absent" \/ mtime > session[s].start
<1>1. mtime \in Nat /\ clock \in Nat /\ session[s].start \in Int
  BY LiveFields DEF IntakeTypeOK
<1>2. mtime < FallBackAt
  BY <1>1, ClockAssumption
<1>3. LocalNaive(mtime) = mtime
  BY <1>1, <1>2, StartFacts
<1>. QED  BY <1>1, <1>3 DEF launch_generation_ok, Untouched

\* The verdicts of both hooks are sound, for any number of sessions and prompts
\* and whatever is written to the file between a hook's reads, as long as the
\* local clock is not set back.
THEOREM SoundVerdicts ==
    ASSUME MaxClock < FallBackAt
    PROVE  Spec => []VerdictsAreSound
<1>1. ASSUME Init
      PROVE  IntakeInv
  <2>1. /\ clock = 0 /\ mtime = 0
        /\ \A s \in Sessions : session[s] = NoSession /\ hook[s] = Idle("none", None)
    BY <1>1 DEF Init
  <2>2. NoSession.live = FALSE /\ Idle("none", None).pc = "idle" /\ Idle("none", None).out = "none"
    BY DEF NoSession, Idle
  <2>3. \A s \in Sessions : ~session[s].live /\ hook[s].pc = "idle" /\ hook[s].out = "none"
    BY <2>1, <2>2
  <2>. QED  BY <2>1, <2>3, ClockAssumption
            DEF IntakeInv, LaunchedWithRoute, ReadsStand, VerdictsAreSound
<1>2. ASSUME FileInv, IntakeTypeOK, HooksOfSessions, IntakeInv, [Next]_vars
      PROVE  IntakeInv'
  <2>0. /\ mtime \in Nat /\ clock \in Nat /\ mtime <= clock /\ clock <= MaxClock /\ MaxClock \in Nat
        /\ \A s \in Sessions : session[s].live => session[s].start \in Int
    BY <1>2, ClockAssumption, LiveFields DEF IntakeTypeOK, IntakeInv
  <2>1. CASE Elsewhere
    <3>1. /\ UNCHANGED <<session, hook>>
          /\ mtime' <= clock' /\ clock' <= MaxClock /\ clock <= clock' /\ clock' \in Nat
      BY <1>2, <2>0, <2>1, ElsewhereStep
    <3>2. /\ config.kind # "absent" => config'.kind # "absent"
          /\ \/ mtime' = clock + 1
             \/ mtime' = mtime /\ SelectedRoute(config') = SelectedRoute(config)
      <4>1. CASE Rewrite
        BY <1>2, <4>1, RewriteStep
      <4>2. CASE ~Rewrite
        <5>1. UNCHANGED <<config, mtime>>
          BY <2>1, <4>2 DEF Elsewhere, RunCommand, Enable, Disable, Die, Pass, Change, vars,
                         configVars
        <5>. QED  BY <5>1
      <4>. QED  BY <4>1, <4>2
    <3>3. ASSUME NEW s \in Sessions, session[s].live
          PROVE  Untouched(s)' => Untouched(s) /\ SelectedRoute(config') = SelectedRoute(config)
      <4>1. session[s].start \in Int /\ session[s].start <= clock
        BY <1>2, <2>0, <3>3 DEF IntakeInv, LaunchedWithRoute
      <4>. QED  BY <2>0, <3>1, <3>2, <4>1 DEF Untouched
    <3>4. LaunchedWithRoute'
      <4>1. \A s \in Sessions : session[s].live =>
                session[s].start \in Int /\ session[s].start <= clock
        BY <1>2, <2>0 DEF IntakeInv, LaunchedWithRoute
      <4>2. \A s \in Sessions : session[s].live => session[s].start <= clock'
        BY <2>0, <3>1, <4>1
      <4>. QED  BY <1>2, <3>1, <3>3, <4>2 DEF IntakeInv, LaunchedWithRoute
    <3>5. ReadsStand'
      BY <1>2, <3>1, <3>2, <3>3 DEF IntakeInv, ReadsStand, HooksOfSessions
    <3>6. VerdictsAreSound'
      BY <1>2, <3>1 DEF IntakeInv, VerdictsAreSound
    <3>. QED  BY <3>1, <3>4, <3>5, <3>6 DEF IntakeInv
  <2>2. ASSUME NEW s \in Sessions, NEW overridden \in BOOLEAN, Launch(s, overridden)
        PROVE  IntakeInv'
    <3>1. /\ UNCHANGED <<config, mtime>> /\ clock' = clock + 1 /\ clock < MaxClock
          /\ config.readable
      BY <2>2 DEF Launch, configVars
    <3>2. session'[s].start <= clock' /\ session'[s].route = SelectedRoute(config)
      <4>1. clock + 1 \in Nat /\ clock + 1 < FallBackAt
        BY <2>0, <3>1, ClockAssumption
      <4>. QED  BY <1>2, <2>2, <3>1, <4>1, SessionStep, StartFacts, RouteFacts
    <3>3. LaunchedWithRoute'
      BY <1>2, <2>0, <2>2, <3>1, <3>2, SessionStep
      DEF IntakeInv, LaunchedWithRoute, Untouched
    <3>4. ReadsStand'
      BY <1>2, <2>2, <3>1, SessionStep DEF IntakeInv, ReadsStand, Untouched
    <3>5. VerdictsAreSound'
      BY <1>2, <2>2, SessionStep DEF IntakeInv, VerdictsAreSound
    <3>. QED  BY <2>0, <3>1, <3>3, <3>4, <3>5 DEF IntakeInv
  <2>3. ASSUME NEW s \in Sessions, NEW auth \in StartAuths, StartRead(s, auth)
        PROVE  IntakeInv'
    <3>1. UNCHANGED <<config, mtime, clock, session>> /\ session[s].live
      BY <1>2, <2>3 DEF StartRead, configVars, HooksOfSessions
    <3>2. LaunchedWithRoute'
      BY <1>2, <3>1 DEF IntakeInv, LaunchedWithRoute, Untouched
    <3>3. ReadsStand'
      BY <1>2, <2>3, <3>1, StartReadStep, RouteFacts
      DEF IntakeInv, LaunchedWithRoute, ReadsStand, Untouched
    <3>4. VerdictsAreSound'
      BY <1>2, <2>3, <3>1, StartReadStep DEF IntakeInv, VerdictsAreSound
    <3>. QED  BY <2>0, <3>1, <3>2, <3>3, <3>4 DEF IntakeInv
  <2>4. ASSUME NEW s \in Sessions, NEW transcript \in BOOLEAN, StartVerify(s, transcript)
        PROVE  IntakeInv'
    <3>1. UNCHANGED <<config, mtime, clock, session>> /\ hook[s].pc = "warm" /\ session[s].live
      BY <1>2, <2>4 DEF StartVerify, configVars, HooksOfSessions
    <3>2. LaunchedWithRoute'
      BY <1>2, <3>1 DEF IntakeInv, LaunchedWithRoute, Untouched
    <3>3. ReadsStand'
      BY <1>2, <2>4, <3>1, StartVerifyStep DEF IntakeInv, ReadsStand, Untouched
    <3>4. hook'[s].out = "NeutralOnboarding" => session[s].route # None /\ hook[s].auth.env = "sk"
      BY <1>2, <2>0, <2>4, <3>1, StartVerifyStep, GenerationMeans
      DEF IntakeInv, ReadsStand, HooksOfSessions
    <3>5. VerdictsAreSound'
      BY <1>2, <2>4, <3>1, <3>4, StartVerifyStep DEF IntakeInv, VerdictsAreSound
    <3>. QED  BY <2>0, <3>1, <3>2, <3>3, <3>5 DEF IntakeInv
  <2>5. ASSUME NEW s \in Sessions, NEW exempt \in {"no", "optout", "hatch", "command"},
               PromptRead(s, exempt)
        PROVE  IntakeInv'
    <3>1. UNCHANGED <<config, mtime, clock, session>>
      BY <2>5 DEF PromptRead, configVars
    <3>2. LaunchedWithRoute'
      BY <1>2, <3>1 DEF IntakeInv, LaunchedWithRoute, Untouched
    <3>3. ReadsStand'
      BY <1>2, <2>5, <3>1, PromptReadStep, RouteFacts
      DEF IntakeInv, LaunchedWithRoute, ReadsStand, Untouched
    <3>4. VerdictsAreSound'
      BY <1>2, <2>5, <3>1, PromptReadStep DEF IntakeInv, VerdictsAreSound
    <3>. QED  BY <2>0, <3>1, <3>2, <3>3, <3>4 DEF IntakeInv
  <2>6. ASSUME NEW s \in Sessions, NEW transcript \in BOOLEAN, NEW a8 \in BOOLEAN,
               PromptDecide(s, transcript, a8)
        PROVE  IntakeInv'
    <3>1. UNCHANGED <<config, mtime, clock>> /\ hook[s].pc = "facts" /\ session[s].live
      BY <1>2, <2>6 DEF PromptDecide, configVars, HooksOfSessions
    <3>2. LaunchedWithRoute'
      BY <1>2, <2>6, <3>1, PromptDecideStep DEF IntakeInv, LaunchedWithRoute, Untouched
    <3>3. ReadsStand'
      BY <1>2, <2>6, <3>1, PromptDecideStep DEF IntakeInv, ReadsStand, Untouched
    <3>4. RouteConfirmed(s, transcript) => session[s].route = hook[s].route
      BY <1>2, <2>0, <3>1, GenerationMeans
      DEF RouteConfirmed, codex_route_confirmed, IntakeInv, ReadsStand
    <3>5. ~RouteConfirmed(s, transcript) => Cause(s, transcript)
      BY <1>2, <2>0, <3>1, GenerationMeans
      DEF RouteConfirmed, codex_route_confirmed, intake_identity_ok, Cause, IntakeInv, ReadsStand
    <3>6. VerdictsAreSound'
      BY <1>2, <2>6, <3>1, <3>4, <3>5, PromptDecideStep DEF IntakeInv, VerdictsAreSound
    <3>. QED  BY <2>0, <3>1, <3>2, <3>3, <3>6 DEF IntakeInv
  <2>7. ASSUME NEW s \in Sessions, Send(s)
        PROVE  IntakeInv'
    <3>1. UNCHANGED <<config, mtime, clock>> /\ session[s].live
      BY <1>2, <2>7 DEF Send, configVars, HooksOfSessions
    <3>2. LaunchedWithRoute'
      BY <1>2, <2>7, <3>1, SendStep DEF IntakeInv, LaunchedWithRoute, Untouched
    <3>3. ReadsStand'
      BY <1>2, <2>7, <3>1, SendStep DEF IntakeInv, ReadsStand, Untouched
    <3>4. VerdictsAreSound'
      BY <1>2, <2>7, <3>1, SendStep DEF IntakeInv, VerdictsAreSound
    <3>. QED  BY <2>0, <3>1, <3>2, <3>3, <3>4 DEF IntakeInv
  <2>. QED  BY <1>2, <2>1, <2>2, <2>3, <2>4, <2>5, <2>6, <2>7 DEF Next, Elsewhere
<1>3. IntakeInv => VerdictsAreSound
  BY DEF IntakeInv
<1>. QED  BY <1>1, <1>2, <1>3, FileInvHolds, IntakeTypeHolds, PTL DEF Spec
=============================================================================

# ZlauDeR: a verification project

ZlauDeR is a local proxy between a coding agent (Claude Code, Codex) and its model
provider. It replaces personal data and registered secrets in every request by tokens,
and puts the values back in the replies. Hooks of the agent bring the proxy up, hold
sessions back while it is not ready, and edit the agent's settings; a monitor shows what
was sent and can hold a request until an operator approves it.

This directory holds TLA+ modules for the parts of that system whose correctness depends
on the order of events, TLC configurations that check them on small instances, and TLAPS
proofs of the results that matter most. `PROJECT.json` is the index: components, runs,
the lines of the source every definition stands for, hazards and theorems.

Run TLC with `tlc -config <X>.cfg <module>` and the proofs with `tlapm <module>.tla`.

## 1. Inventory

| Component (source) | State | Operations | Interacts with |
|---|---|---|---|
| launch lock (`zlauder-state`) | `<key>.lock`: pid, start time, nonce | try, judge, claim by rename, recreate, drop | all hooks of all sessions, through the file system |
| rendezvous record (`zlauder-state`) | one JSON file per project: pid, port, nonce, salt, build | write, read, remove if owned | hooks read it, the proxy writes and removes it |
| proxy launch (`zlauder-hooks` `ensure_up`) | none of its own | probe, recycle a stale build, launch, wait, give up | lock, record, the proxy's health endpoint |
| bind and lifecycle (`bind.rs`, `main.rs`) | listening socket, process | bind, publish, serve, drain, clean up | record, readiness gate |
| masking engine (`zlauder-engine` `lib.rs`) | policy, secret rules, model slot, `ml_gate` | mask, prewarm, unmask, configure | cache, store, control plane |
| detection cache (`cache.rs`) | leaf results by key, capacity | get, insert, set_cap | every masking request |
| model slot (`ml.rs`, `lib.rs`) | status, recognizer, fingerprint, generation, outage note | begin, ready, failed, disable, reconcile | background load tasks, requests |
| control plane (`admin.rs`, proxy `config.rs`) | the live configuration | put, reload, enable, ML on and off | engine, secrets, monitor |
| secrets and readiness (proxy `secrets.rs`, `state.rs`) | installed rules, ready flag | resolve, install, reject, open intake | providers, engine, requests |
| token store (`store.rs`, `token.rs`, `manifest.rs`) | handle to value and kind; a manifest per turn | intern, reveal, scrub pairs, audit | engine, monitor |
| broker (`broker.rs`) | ordered allow rules | decide, resolve in tool input | hooks at tool use, token store |
| request rewriting (`walk.rs`, both OpenAI modules) | none | visit every leaf on its surface, fall back when a body does not fit | engine |
| streamed replies (`sse.rs`, both OpenAI modules) | carry buffer per block, frame queue | delta, flush, end | engine, completion guard |
| approval gate (`monitor/store.rs`) | ring of records, waiters, mode | record, hold, decide, expire, complete, abort | request tasks, operator windows |
| conversation index, delta, ledger (`monitor/store.rs`, `delta.rs`) | anchors, turn counters, the token ledger | attribute, number, subtract, evict | gate records, token counts |
| monitor feed and UI (`monitor/http.rs`, `ui/`) | broadcast channel, cursors | snapshot, subscribe, replay | gate records, browser windows |
| monitor persistence (`persist.rs`, `monitor/http.rs`) | the project's local settings file | mask a phrase, remove a rule, reveal, re-mask | live policy, configuration commands, reloads |
| detection (`detect.rs`, `recognizers.rs`, `ml.rs`) | none | find spans, gate them, resolve overlaps, choose operators | engine |
| intake of the hooks (`zlauder-hooks`) | a status record per conversation | session start, prompt gate, mask narration | settings files, registry, proxy endpoints |
| settings edit (`zlauder-hooks`) | two settings files, the side-car with the user's status line | enable, disable, sweep, migrate, self-heal | the user's own edits, other hooks |
| plumbed-projects registry (`zlauder-state`) | one entry per project: plumbed or opted out | get, set, remove | session start, prompt gate, commands |
| Codex configuration and intake (`zlauder-hooks`) | the agent's TOML file, a marker per session | enable, disable, session start, prompt gate | the user's own edits, the proxy's endpoints |
| configuration commands (`zlauder-hooks`, `admin.rs`) | three layered settings files | on, off, threshold, category, entity, profile, model at each scope | the proxy's control plane, the user's editor |
| transcript scrubbing (`transcript.rs`) | one JSON-lines file | redact, drop, relink, replace | none of the others |
| secret providers (`zlauder-secrets`) | none | run a program, read a file | secrets |
| statusline, doctor, verify, plugins, scripts | none | report, start binaries | everything, read-only |

What makes the code hard:

- **Concurrency.** Hooks are independent processes that share files. In the proxy every
  request, stream, model load and operator call is a task or a thread; they share policy,
  secrets, slot, cache, store and monitor behind separate locks and take several
  snapshots each.
- **Failure and restart.** Hooks and proxies die at any point, pids and ports are reused,
  models fail or panic with the gate held, clients disconnect at any await, secrets
  resolve in part, a new process has the old salt and an empty store.
- **Ordering.** A load that finishes after a newer one, a timeout that meets a verdict, a
  held tail that must leave before the marker at which a client stops reading.
- **Caching.** A detection result, an offload decision or a liveness check is used after
  what it was computed from has changed.

What makes each part correct: the lock admits one launcher; a session is only routed to
its own project's proxy; what is masked was found under inputs that were live during the
request; registered secrets never leave unmasked and never reach a channel of another
kind; a reply is restored however it is cut; a held request leaves only on an approval;
waiters, gates and slots are given back; a prompt of a plumbed project does not leave past
the proxy; what the hooks take over in the user's settings they give back; every string of
a request is masked as the live policy asks, wherever it sits; a restored value is walked
like any other when it comes back; a command changes what it was asked to change and nothing else.

## 2. Modules and what they stand for

Each module starts with its own description; here is how they correspond to the code.

**LaunchLock** (`zlauder-state/src/lib.rs`). One launcher per hook process, one step per
file-system call: create exclusively, read, judge (`Reclaimable`: the pid is dead or the
lock is older than the TTL), claim by rename, recreate, and the guard's drop in two calls
(compare the nonce, unlink the path). Launchers crash, pids are reused, the clock ticks.
Clock values, not durations, are modelled; a nonce is its launcher.

**ProxyLaunch** composes the lock (here an atomic object, whose races LaunchLock has),
the rendezvous record, the hooks' `ensure_up` and the proxy's own life: bind, publish,
serve, drain, and clean up in two steps. Ports may be stolen by other programs, pids
reused, processes killed. A proxy is named by the hook that spawned it. `pinned` is the
configured port, or none.

**MaskEngine** is the request path: policy, secrets and model snapshots as separate
steps, cache look-up, `ml_gate`, re-check, inference that succeeds, fails or panics, and
insertion; against it the control plane's operations, `reconcile_ml` and the load tasks.
A detection result is the record of the inputs it was computed from, so a stale one is
visible. `ever` is history: the inputs that were live during each request.

**RevealBoundary** is what happens to values: interning by operator, manifests, unmasking
on display, in tools and in audit, broker resolution, what leaves and what a record
keeps; with secrets that resolve or not, live changes of policy and rules, and a restart.
A handle is its kind and value; two values that share a literal token share the handle.

**StreamUnmask** is the three streaming relays. A text is a sequence of character classes, cut
anywhere by the upstream; a key is one content block. `Partial` and `HoldFrom` are `classify`
and `split_safe` (the code has three copies of them, they are equal); each relay has its own
events and ends. Besides tokens of the grammar a text may hold a literal token of a custom rule,
which the second pass of `unmask_inner` replaces (`Spelled`) and `split_safe` knows nothing of.
The Responses protocol tells the end of an item by a done event that has the item's whole text
(`ItemDone`) and flushes nothing; the tail goes out at the end of the response. The record's
copy stops at `MaxPreview`. `sent`, `settled`, `cut` and `said` are history for the properties:
the text received, what an early flush has settled of it, which keys had a literal token cut in
two, and what the done events said.

**MonitorGate** is the approval gate with its ring, waiters, oneshot channels, operator
handlers in three critical sections, and the completion guard.

**ApprovalGate** is what the gate promises, without its machinery: a request has a phase,
an operator's verdict is a fact, and the only way from *pending* to *cleared* is an
approval that was given. MonitorGate's `Phase` and `given` are the refinement mapping,
and `ImplementsApproval` is the abstract specification under it.

**ConversationIndex** is the bookkeeping of `record_llm_request`: which conversation, which
turn, what is new in it, and the ledger of masked values, all under one lock but with a
clock that was read before it (`Arrive`), so requests overtake one another. A surface is
its `block_hash`, a captured reply the surface as which it comes back. A transcript is the
surfaces of the system prompt and those of the talk, kept apart, because only the talk
makes up the anchor. `tracked` is the counter maps, which the code evicts as a set.
`latest`, `shown` and `reminted` are history.

**Plumbing** is the hooks of one project's sessions, one step per read or write of a shared
file: `session_start` with auto-plumbing, reconciliation and self-heal; the enable, disable
and sweep commands; the prompt hook with its gate and the narration to the model. Bringing
a proxy up is one step that returns a port (ProxyLaunch has the rest). A settings file is
its base URL, our co-key, the status line, how much of our permission rules it has, and
whether it parses. The user edits both files, the agent reloads routes, the proxy dies and
its masking is toggled. After it has written its status record a prompt hook unlinks those
of other sessions that it found two weeks old (`Prune`); `Fortnight` lets a record reach
that age, without a clock. `theirs`, `kept` and `told` are history: what the user last set,
and what each session's model was last told. `exposed` becomes true only if no moment
of the prompt's hook excused sending it, because a gate cannot see the future.

**CodexConfig** is `codex-config enable` and `disable`: a command reads `config.toml`,
computes the new text and renames it into place, while the user edits the same file. The
file is its parsed form: the selected provider, the block under our id and the hook
entries of each event in the layouts the code tells apart, as a set of groups: no merge
depends on their order. **CodexIntake** extends it by
the sessions: Codex resolves its provider at launch, the hooks see only the file's
modification time, the second in the transcript's name and the proxy's answers, and have
to judge from these. `theirs`, `choice`, `settled` and `unwarned` are history.

**ConfigScopes** is the `/zlauder:privacy` commands over the user, project and local files and
the running proxy: the port is resolved once, then a file is read and written and the proxy is
asked, in the code's order for each command and scope. A request of the control plane is one
step (it holds `config_control`); the reload is two, because it reads the files twice. A
document is a partial function from dotted keys to values; a custom rule is its pattern and the
entity type it declares, which is then a known one (`Declared`). The user types into files or
garbles them, the proxy stops and starts on another port. **MonitorEdits** extends it by the
monitor's edits of rules and allow-lists, which change the live policy and then the local file.
`form` is how that file writes its engine table: not at all, as a table, with its rules as an
inline array, or inline as a whole. A rule can only be appended to an array of tables, and the
proxy, the commands and the user each leave the table in a form of their own; a command's copy
of the file has its form too. An edit that the file cannot take is live and reported as
`session_only`. `ghost`, `panel` and the fields `expect` and `alone` are history: a command
keeps what it was asked to lead to (`expect`) until anything else happens, a stop in the middle
of its own reload included (`CutShort`).

**Detection** and **RequestWalk** are pure: what becomes of the detectors' findings in one
text (the passes, gates, allow-list, overlaps and operators), and which position of a body
each walk masks and on which surface. They are checked against independent definitions
(`Candidates`, `Excused`, `FallbackCovers`) inside **Rewriting**, which composes them into
a conversation: the client sends its history, the proxy prewarms and masks it, upstream
answers with tokens it has seen, the restored answer joins the history; policy and model
change in between and detections are cached across all of it. A text is what its detectors
find in it. `echoed` is history: the spans upstream knows only as tokens.

**LaunchProofs** (of LaunchLock and ProxyLaunch), **MaskEngineProofs**, **RevealBoundaryProofs**,
**MonitorGateProofs**, **PlumbingProofs**, **CodexIntakeProofs** (with CodexConfig's),
**ConversationIndexProofs** and **MonitorEditsProofs** (with ConfigScopes's) hold the theorems,
each about the module it is named for. The **MC** modules give the constants their values.

A definition whose comment says *mutant*, or that is used by no other definition, is a
wrong variant of its neighbour: replacing the neighbour by it must break the property
named in `PROJECT.json` under "mutants", which shows that the property can fail.

## 3. Runs

| Run | Bounds | What it shows |
|---|---|---|
| `launch_lock` | 3 launchers, TTL 1, clock to 3 | A guard always matches the file unless another launcher removed it; a judged lock is claimed only for a reason that held. |
| `proxy_launch` | 2 hooks of different builds, 2 ports, pinned or free | Sessions are only routed to this project's proxy, a launcher adopts its own spawn, a stopping proxy keeps its successor's record, a pinned port has one proxy. |
| `engine_race` | 2 requests, 1 leaf, 3 configurations, 2 models, 2 control operations | No stale detection is used, a required model or secret never degrades silently, slot, loads, gate and cache stay consistent. |
| `engine_secrets` | 2 requests, optional secrets, fair | Requests that run while secrets are installed use the rules of their own time, and every request ends, panics included. |
| `reveal` | 2 turns, 2 values, 2 processes, 1 operation, 2 carried handles | Each kind of token is resolved only on its channel, restored values are the right ones, required secrets never leave, the admin key is never recorded. |
| `stream` | 2 blocks, 3 texts, pieces of up to 2 characters, all kinds and protocols, a preview of 8 characters | Chunking is invisible but for a literal token that is cut; nothing is held at the end, nor late but for the delta that completes an item's done event; the record is a prefix of the relay up to the limit. |
| `gate` | 2 requests, 2 operators, ring of 1, limit 1, 1 mode change, fair | No held request leaves unapproved, decidable waits, slots returned, requests answered; every step is one of ApprovalGate. |
| `conversations` | 1 agent with an id, 2 without, 3 transcripts, 5 requests or counts, ring of 2, 3 conversations, 1 token | Turns stay in order, diverged transcripts apart, a delta hides nothing unseen, the ledger keeps what is live. |
| `plumbing` | 2 sessions, 2 ports, 4 kinds of project, 3 launches, commands, edits or outside events | The gate is closed, the user's line and URL come back, an undisturbed disable is complete and stands, the model's belief follows the record until that is pruned. |
| `codex` | 4 homes, 1 session, 2 ports, 2 plugin directories, 1 edit, 2 ticks to the second, clock to 4, 2 prompts | The user's hooks survive, a command that ends well leaves what it promises, no hook vouches for a route the session was not launched with, no prompt is blocked without a cause, an override is noticed. |
| `settings` | 2 commands or monitor edits of 11 requests and 4 kinds, 2 phrases, 2 rules, 4 forms of the local file, 1 edit, 2 starts on 2 ports | An undisturbed command does what was asked, a reloaded proxy runs what its files say, misspelt entities stay out, monitor edits that were reported as saved outlive reloads. |
| `rewriting` | 3 endpoints, 3 texts, 5 policies, 2 turns, 1 change of policy or model | Every leaf is masked as asked, secrets always, what is restored in a reply is walked when it comes back, and the fallback masks wherever the typed walk does. |

Why the bounds are enough: the conflicts these properties are about need two actors and one
event between two steps of one of them. The lock needs a third launcher, because a reclaimer is
displaced by another reclaimer of a dead holder's lock. Two configurations that differ in every
field, and a third that only drops the capacity and the requirement, let one operation change
any one input of a request; two operations allow a change and its return. In `plumbing` an event
outside the hooks' own steps costs one of three: enough for a command, a racing session and an
edit between them; four events were checked once as well (7.8 million states). In
`conversations` the caps keep the order the code's have (ring below conversations), and five
requests let a conversation be recorded, pushed to the brink of eviction by three others, and
return. With a fourth transcript that has no anchor (`Unknown`) the run was checked once, in
860,000 states. In `stream` a text has at most six characters and a token four, so every cut
inside, before and behind a token occurs, as does each cut of a literal token before an
unfinished one, and `MaxTokenLen = 4` makes the five-character run the first that is too long;
`MaxPreview = 8` is less than two of the texts together, so the record is cut. In `codex` the
interesting conflicts are between one edit or command and one session; two ticks to the second
give launches and writes in the same second and in different ones. The local clock is not set
back in this run (`FallBackAt = 99`): see the observations. In `settings` two commands cover
every pair, and one edit with a restart lies between the steps of either; the layers are the
code's three. One of the two rules declares the entity that a command misspells, so that a key
is set while its rule stands, and the rule goes. In `rewriting` the texts hold the overlaps that
`resolve_overlaps` orders (tier, score, length, position), each gate of `ingest_results` on both
sides of its threshold, and two turns let a restored reply come back after a policy, a model or
the wire fit has changed.

Deadlock is not checked: launchers, hooks, requests and streams end, and the system is
then at rest.

**Fairness.** Safety runs have none. `gate` assumes weak fairness of each request's task (the
runtime polls it, timers fire, the upstream client has a time limit) and of the rest of a decide
call that has begun (no await lies between its critical sections); nothing makes an operator
decide or a client stay. `engine_secrets` assumes weak fairness of each request's steps: they
are code of one thread, waiting for a mutex at most. No lock needs strong fairness in a finite
set of requests that each take it a bounded number of times.

**Symmetry** is used where identities are interchangeable (launchers, ports, requests,
turns, sessions, agents, commands) and in no run with a liveness property.

## 4. Observations

Behaviours met while modelling that differ from a comment or a doc, or that a property
has to except. The models have them; none is hidden by an abstraction unless said so.

Hooks, lock and proxy:

- Two reclaimers can both get a guard: A and B read a dead holder's lock, A renames it away
  and creates its own, B's rename moves A's new lock aside and B creates another
  (`zlauder-state/src/lib.rs:557`; the docs at 522 and 549 say one wins). `Exclusion` states
  what does hold.
- `stop_proxy` interrupts the old build, which removes its record on the way out;
  `launch_proxy` then finds no salt to hand on (`zlauder-hooks/src/main.rs:5450`, doc at
  8086). Tokens of earlier turns mean nothing to the new process.
- A session start that read "not opted out, no route" and launches a proxy while the user
  disables writes the route and records Plumbed (`main.rs:4763`); the registry's doc argues
  that a race within a project writes equal values (`lib.rs:184`). `DisableIsComplete`
  excepts a session start that was under way.
- The hold timer lives in the request's future and goes with it: a client that disconnects
  while its request is held leaves a Pending record that never expires, although
  `approval_timeout_secs` says that it becomes a reject, and a waiter that counts against
  the limit until an operator decides. `WaitersMatchWaits` names this as the only case.
- A minted conversation id (`auto-<head>` and a digest of the transcript) may already be in
  use, by a lineage that was minted with the same transcript and has advanced since. The
  new agent takes the id and its anchor over, and the older lineage is scattered.
  `ConversationsHold` exempts such ids (`reminted`).
- A turn index counts in the order of the lock, not "by start order" as its doc says:
  `RecordRequest` takes any request that has arrived.
- `live_port` is read before the launch lock is taken and not again under it: a hook that
  saw no record and takes the lock after the winner has published and released it spawns a
  second proxy, although the comment at the lock says it cannot. ProxyLaunch has these
  behaviours; `SinglePinnedProxy` says that a pinned port excludes their effect. The
  salt is read before the lock as well: if the second hook had found no record it spawns with a
  salt of its own, and its tokens differ from the first proxy's.
- The capture scrub knows the turn's manifest and the Local values. A CVV made reversible
  by policy and restored from an earlier turn is in neither, and the record keeps it.
- `enable` overwrites an `ANTHROPIC_BASE_URL` that the user had set in the local file
  without saving it (`kept` is cleared by `WriteLocal` for this reason).
- A user who removes the status line while ours is in place in the other file, or removes
  ours by hand, leaves the side-car behind; a later enable and disable bring the old line back.
- After `disable --all` a project has no registry entry and no route, so `session_mask_state`
  is `None` and a session that was told Masked is told nothing more.
- Two hooks that edit the settings at once can lose the user's line or strip a route that
  was just enabled; `disturbed` marks such a history.
- A status record untouched for two weeks is pruned by the next hook of any session, and the
  next change of its own session is then silent: `forgotten` marks it. The hook rewrites the
  record at every prompt so that a live one cannot be pruned (the comment at
  `zlauder-hooks/src/main.rs:5380`), but it looks at the time and unlinks in two calls: a
  record that was two weeks old at the look and was rewritten before the unlink goes too.
- No hook calls `rendezvous_remove`, which its doc says clears a dead record after a
  failed launch; the record stays until the next launch overwrites it.
- A late approval and the hold timeout write their verdicts unconditionally in a second
  critical section, so the record of a refused request can end as Approved
  (`MonitorGate`'s `StampVerdict` and `ExpireRecord` are `Overwrite`s). The request itself
  follows its channel, which is what `NothingSentUnapproved` is about.
- `mask_body` decides once whether to offload a walk; a model that becomes ready during an
  inline walk runs on the executor.
- In a chat completion with several choices, or from a backend that reports usage in
  every chunk, a terminal chunk flushes every held tail. A token that straddles that point
  reaches the client unrestored; `ChunkingIsInvisible` says precisely this and that
  nothing else is lost.
- A custom rule may give a literal token of its own (`literal_token`), which `unmask_inner`
  replaces in a second pass (`zlauder-engine/src/lib.rs:1320`). `split_safe` holds back only
  what may become a token of the grammar, so a literal that a delta boundary cuts reaches the
  client unrestored, and is restored in the same reply unstreamed. `ChunkingIsInvisible` excepts
  such blocks (`cut`) and says that they differ in nothing else.
- The Responses relay passes `response.output_item.done` on, with the item's whole text
  restored, while the tail of the item's deltas is still held (`openai_responses.rs:631`); the
  tail goes out before the end of the response (`response.completed`, `failed`, `incomplete`:
  791; `[DONE]`: 773), or when the upstream closes. The done event of the text alone, which the
  relay takes for unknown JSON, is restored without the marker. So a client gets one delta of an
  item that is done, and if it keeps its own text of deltas, that text is complete only then.
  `NothingAfterTheEnd` and `NothingHeldAtTheEnd` say just this of such items: what is late, or
  held, is what completes the text that the done event had. After an end that is one for the
  stream nothing is late.
- The preview limit is applied in bytes and a fragment is cut at a character: after a cut
  before a multi-byte character the rest of the room can still be filled by a later, shorter
  fragment, so the preview has a gap (characters have one size in StreamUnmask).

Codex:

- The transcript's name has local time. After the clock is set back in autumn a
  configuration written after the launch can look older than it, and the session is vouched
  for (`main.rs:1495`). `FallBackAt` below `MaxClock` puts this into the model.
- A second enable keeps the prior provider that the first one saved, also when the user has
  selected another in between, and disable brings the older one back.
- Enable looks for its entry in inline `hooks` arrays only, so an entry of ours in
  `[[...hooks]]` tables is added again; disable removes both.

Settings:

- Two file edits at once lose one of them: neither locks the file (`alone`).
- A whole-configuration PUT that follows a stale GET overwrites what changed in between, the
  masking switch included (`raced`). A threshold out of range in a file makes every such PUT fail.
- `edit_scope_file` starts from an empty document when the file does not parse and so
  replaces it; `persist_profile` refuses instead.
- A command begun while the proxy is down says that it is not running, although it may have
  started since.
- `custom_mask` appends one rule to `zlauder.local.toml`. At the next load that list replaces
  the lists of the user's and the project's files, whose rules are then gone
  (`persist.rs:36`, against the comment at 122). A rule of a lower layer that was removed in the
  monitor returns at the next reload.
- The first reveal or re-mask in a project whose local file has no engine table writes it
  inline: indexing an absent key makes an inline table (`persist.rs:156`), not the table that
  the comment at 154 speaks of. `persist_custom_replacement` refuses such a file (51, 63), so
  every later custom mask is live for the session only, until somebody rewrites the file; the
  operator is told. For the same reason a rule in an inline array is not found by
  `remove_custom_replacement` (98): what the monitor removes returns at the next reload.
  `Persists` and `RulePersists` have the two conditions.
- An entity key that a custom rule declares is no typo (`config.rs:1134`), but it stays in the
  live policy, and in a configuration that a command has fetched, when the rule is removed.
  `TyposStayOut` counts such a key as known (`basis`).

Rewriting:

- The fallback does not mask "every string leaf" (`walk.rs:26`): it skips what lies under a
  protocol key anywhere in the body, as do the free JSON walks of the two OpenAI modules.
  `FallbackCovers` and `EchoIsWalked` except these keys.
- The reveal marker is peeled off assistant text only, and goes upstream in a body that does
  not fit.
- With the master switch off, or the surface `AssistantText` disabled, `mask` returns
  (`zlauder-engine/src/lib.rs:751`) before it peels the marker (779): a reply that was shown
  with the marker goes upstream with it, and with the value in it. `config.rs:390` and
  `README.md:402` of the repository say that the marker is stripped on the next turn and never
  reaches the model. `EchoIsWalked` claims it for leaves in the policy's scope only.
- `metadata.user_id` is masked by the fallback and passed by the typed walk.
- A custom rule that is limited to a surface lets a restored value pass on another; the
  Responses walk restores `text` of items it does not know and skips it on the way back.
- Chat masks `tool_call_id` of a tool message but not the `id` of the call it answers.
- Among custom rules the longer match wins, not the one of lower priority (`resolve_overlaps`
  compares tier, score and length first), and a match that only partly overlaps the winner
  leaves its own tail unmasked.

Parts that are not modelled:

- `events` takes its snapshot before it subscribes, so a frame between the two is lost; a
  lagging receiver skips silently; `update_record` emits after it has released the lock, so
  frames can arrive out of order.
- In a scrubbed transcript the child of a removed first record keeps its `parentUuid`; lines
  that are appended between the read and the rename are lost.

## 5. Proofs

Every theorem is for any value of the constants that the declared assumptions admit: any
number of hooks, sessions, requests, ports, contents of files, clock values and bounds. For each
module the strengthened invariant is named, because few of the properties are inductive as
they stand.

`LaunchProofs`, the lock, for any set of launchers, TTL and clock bound:

- `TypeCorrect`: the type invariant is inductive by itself.
- `HolderOwns`: a holder that nobody displaced finds its own body at the path. Every
  action either leaves the file, puts the actor's own body there, or removes the file of a
  launcher that it adds to `displaced`.
- `Exclusion` (`SingleUndisplacedHolder`): two undisplaced holders would both own the one file.
  It follows from `HolderOwns` and needs no invariant of its own.
- `JustClaims`: a lock that was judged abandoned stays so while it is the same lock: ticks only
  age it, and a dead launcher stays dead, though its pid may be alive again (`VerdictStands`).

`LaunchProofs`, the launches, for any hooks, ports, builds and port settings. `LaunchInv` says that
a hook spawns once, with a salt that was fixed before, and that every record names a proxy
that was spawned and carries its salt:

- `AdoptsOurs` (`AdoptsOnlyOurProxy`, an action property): a probe that answers is then one
  of a proxy of this project, and a launcher that polls compares the salt it handed over.
- `SuccessorSurvives` (an action property): a proxy about to unlink found its own record, or a
  publish has overtaken it since (`UnlinksItsOwn`); that gap is the one the code's comment
  concedes.
- `SinglePinned`: a proxy listens on the pinned port or nowhere (`ListensOnPin`).

`MaskEngineProofs`, for any requests, leaves, configurations, models and number of control
operations:

- `Consistent` (`EngineConsistent`). `SlotInv` relates slot, loads and control plane: a load or a
  recognizer in use is of an earlier generation, or the one the slot waits for or serves
  with; and each step of an operation may rely on what the earlier ones established. `GateInv`
  says that the gate is with the one request that scans with a model, and that what it
  scans is what its cache keys name. Without the generations `SlotInv` is not inductive.
- `LiveInputs` (`MaskedUnderLiveInputs`): an entry of the cache was computed from the inputs its
  key names (`EntriesAreTrue`), and the snapshots of a request are in its history, so whatever
  answers a look-up was live. The property alone says nothing of the cache.
- `NotDegraded` (`NeverDegraded`): `StrictIsScanned` (a strict request takes no snapshot without
  a recognizer) and `IntakeInv` (with a required secret nothing starts before the full set is
  installed).

`RevealBoundaryProofs`, for any values, secrets, rules, policies, turns and processes:

- `NeverEgresses` (`RequiredSecretsNeverEgress`). `RulesInv`: a gate that is open, with required
  secrets, has all of their rules, and no turn masks while it is closed; `PlainInv`: therefore
  no request holds one in plaintext, also before it is sent.
- `FaithfulUnmask` (`UnmaskIsFaithful`) and `SecretsStay` (`SecretsStayWhereAllowed`): `Placed`
  says which token may stand for a value: one minted for it, Local for the process's key, Broker
  for a required broker secret. Store and manifests hold such tokens only (`EntriesInv`), and
  outputs, releases and records are looked up in them. The invariant speaks of the store, since
  a later turn restores from it what an earlier one minted.
- `KeyAssumption` is needed: admin keys are random, so no two processes have the same one and no
  text contains one by chance. A key that was also a value of an earlier turn would have an
  entry of another class.

`CodexIntakeProofs`, for any directories, events, homes, sessions and edits:

- `HooksKept` and `Settle` (`UsersHooksKept`, `CommandsSettle`): `EnableEntriesFacts` and its
  like say what each merge keeps of an event; `FileInv` adds what a running command holds, which
  is right for the file it read and for the file as it is only while no edit came between
  (`JobOK`).
- `OverrideNoticed` (`OverrideIsNoticed`): the proxy never sees an overridden session, and a
  prompt that passed in silence is on the marker (`SilenceIsCounted`).
- `SoundVerdicts` (`VerdictsAreSound`): a file that was not written since the second of a
  session's launch still selects the route of that launch (`LaunchedWithRoute`), and what a hook
  read first stands at its decision if the file is still untouched (`ReadsStand`). It has a
  hypothesis, `MaxClock < FallBackAt`: the clock is not set back. The code needs it too, as
  section 4 says.

`PlumbingProofs`, for any sessions, ports, lines, contents of the files and number of events:

- `GateCloses` (`GateIsClosed`): an exposure that the prompt hook has not excused so far is one its
  reads cannot have excused (`GateInv`): it saw no opt-out, then a baked route, then no live
  proxy. `RoadInv` says which steps belong to which hook.
- `NarrationHolds` (`NarrationIsCurrent`): inductive with the types; only `Narrate`, `Prune` and
  a new conversation write what it is about.
- `SettingsKept` (`UsersSettingsKept`): `LineInv` follows the user's line through each edit of
  the settings: between two edits it is in effect or in the side-car (`Settled`), and at every
  step of an edit `AtStep` says where it is. `KeptInv`: a URL of the user's is never the route
  beside it, so a strip passes it.
- `DisableCompletes` (`DisableIsComplete`): the first half from `LineInv`, the second from
  `IntentInv`: after a disable the project is opted out, and no hook is under way that would
  plumb it unasked.

`MonitorGateProofs`, for any requests, operators, ring size and limits:

- `TypeCorrect`: among others, that the ring never exceeds its size (`PushedInRing`, a
  lemma about `push_record`).
- `Trail`: `VerdictTrail /\ OneVerdict` is inductive. `NothingSentUnapproved` alone is
  not: a step can only be trusted to let a held request pass if the verdict in its channel
  was given, the handler that sent it was the only one to take the waiter, and a waiter
  that is still in the map has had no verdict. `VerdictTrail` says this of every place a
  verdict can be on its way.
- `GateHolds`: `NothingSentUnapproved` follows from the trail.
- `WaitersMatch`: `WaitersMatchWaits`, with the trail: a wait that ends by `Receive` leaves no
  waiter behind because a channel with a verdict has lost its waiter before.
- `Implements`: MonitorGate implements ApprovalGate. Each action is matched with one abstract
  step or a stutter; the type invariant, the trail and the agreement of waiters are what the
  simulation needs.

`ConversationIndexProofs`, for any agents, transcripts, surfaces, tokens and caps with
`MaxOvertaken + MaxRecords <= MaxTracked`:

- `Conversations` (`ConversationsHold`) has two halves. The ring shows only tracked
  conversations, its turns in order: eviction takes the conversation that was seen longest ago,
  so one in the ring has to be among the recent. `SeenInv` counts: no two requests read the same
  time, and each conversation seen since a request arrived has overtaken it. `RingInv`: behind
  the i-th record fewer than `MaxOvertaken + i` conversations were seen later, so with the
  assumption on the caps the stalest one is never it. Diverged transcripts are apart:
  `LineageInv` says that what an agent sent last is a prefix of its conversation's anchor, and
  two prefixes of one sequence do not diverge; a minted id that was in use is excepted.
- `NeverHides` (`DeltaNeverHides`, an action property): what a delta leaves out was in its
  predecessor, and what a record holds was shown in its conversation (`ShownInv`). The
  predecessor may be a later turn that overtook this one.
- `KeepsLive` (`LedgerKeepsLive`, an action property): `ingest` drops the stalest tokens over
  the cap and never one of the request at hand if its tokens fit; a lane only rises.

`MonitorEditsProofs`, for any commands, requests the command line accepts, contents of the three
files, phrases and order of commands, edits, clicks, starts and stops. `CmdsInv` says which
steps each kind of command may have left (`Left`), and each property is an invariant beside it:

- `TyposOut` (`TyposStayOut`): the keys of the live policy that are no built-in type came from
  the files last loaded or were declared by a rule when they were set (`TypoInv`, stated with
  `Foreign`: the property itself is not inductive, since a rule that goes makes its type
  unknown), and a command that is alone puts back the configuration it fetched (`PutInv`), so
  its PUT brings no key that was not there.
- `FollowsFiles` (`LiveFollowsFiles`): documents are compared up to a set of keys (`Agree`). A
  profile that is applied changes the same keys in the policy and in its file, a click changes
  only lists and what it cannot save counts as set live; so `PolicyFollows` with `BrokerFollows`
  and `SwitchStands` is inductive.
- `EditsOutlive` (`EditsStand`): what the operator was told is saved is in the lists of the
  local file, which decide what any load brings, and in the live policy (`StandInv`), for every
  form the file may have: what the form forbids is not counted as saved (`Note`). It needs that
  rules are sequences wherever a document is held, also in the copy of a command that is about
  to write it (`RulesInv`).
- `AsAsked` (`CommandsDoWhatTheySay`): until an undisturbed command writes, what it has read is
  still so, and the policy in effect is what its files say but for the switches (`Unmade`); once
  it has written, the files amount to what was asked, and a reload of them, or the post of the
  switch, is what is left (`Made`). `WriteMakes` is the heart of it: to overlay a layer, with
  none of the keys in a later one, is to overlay the policy that is loaded, also when the
  overlay brings a profile.
- This proof corrected the model: a stop in the middle of a reload had not counted as disturbing
  the command, so a session's switch could be lost to the restart while the command reported
  "saved"; and two arms of a `CASE` overlapped (`Asked`). TLC chose the first of the two arms,
  and the run's requests had not included the switch off; now they do.

The assumptions are those the modules declare: a ring of at least one record, natural
limits and bounds, special values outside their sets, start states and edits of the
declared shapes, keys that differ, requests and rules of the shapes the command line and the
parser accept (`RequestAssumption`, `RuleAssumption`), spellings of entities that are no
setting's name (`SpellingAssumption`).

Only model-checked:

- `RequestsEnd` and `RequestsSettle`, the liveness properties: the prover has no rule for
  fairness and ENABLED.
- StreamUnmask: `ChunkingIsInvisible` compares what was sent with what a recursive function over
  the text computes (`UnmaskAs`), for every text. `NothingHeldAtTheEnd` and `NothingAfterTheEnd`
  depend on what a flush puts into the queue, which is a fold over the keys (`Flush`). Both need
  induction over data, whose theorems take an operator that the installed provers cannot
  instantiate.
- Rewriting, with Detection and RequestWalk: walks over trees and folds over findings, for the
  same reason.

## 6. Abstractions and what is not modelled

- Text, patterns, checksums and the model are one nondeterministic or fixed result per
  leaf and inputs. In MaskEngine surfaces differ in whether they bypass detection, nothing
  else; Rewriting has the five surfaces and what each walk does with them.
- A restored value holds no literal token, and the literals of two rules do not overlap. The
  reveal marker stays the same while a conversation lasts, and detectors find the same spans
  with and without it.
- Of the form of a settings file only what decides whether a rule can be appended is modelled
  (`Forms`), and only for the local file, the one the monitor writes.
- Token hashes do not collide; the store's encryption is not modelled; `promote_token`
  has no caller and is left out.
- Which entry a full cache evicts is any; tombstones exist for tests only.
- A broker request's JSON pointer is part of the tool's name.
- In ConversationIndex no two requests read the same millisecond, and a request is not
  overtaken by more others than the two caps differ by (`OvertakeAssumption`: 524 in the
  code). Labels and the bounding of long ids are left out.
- The broker's process runner, HTTP authentication, request validation, logging and the
  page of the monitor are left out.
- In Plumbing a strip's read and rename are one step, the user does not edit while a hook
  rewrites and gives one command at a time, and exit codes are left out. A prompt hook
  that crashes or takes 30 seconds lets the prompt pass by the agent's contract; this is
  outside the gate's promise and not modelled. `ZLAUDER_NO_AUTO_ENABLE` only removes
  auto-plumbing and is left out.
- In CodexConfig comments, whitespace and keys of the user's other tables are left out;
  the editor library keeps them.

Not modelled, and why:

- *The monitor feed and its page.* No state of the proxy follows from what a page shows:
  operators may act on any request and value at any time, whatever they were shown.
- *Transcript scrubbing*: an offline command over one file that nothing else of the system reads.
- *Statusline, doctor, verify*: read-only reports.
- *Secret providers*: each runs a program or reads a file once; RevealBoundary and MaskEngine let
  any subset of the secrets resolve.
- *The recognizers and the model*: regular expressions, checksums and an inference library,
  without state.
- *The verbatim relay of other paths*, plugins and scripts: there is nothing to decide in them.

## 7. What could follow

Of ten of the twelve runs every invariant and action property is proved. What is left to TLC,
those of `stream` and `rewriting` and the liveness properties, is out of the prover's reach
(section 5). An abstract lock with displacement, implemented by LaunchLock, would let
ProxyLaunch's atomic lock rest on a proof; a prover with induction over data could take the step
from `UnmaskAs` on the texts of `stream` to all texts.

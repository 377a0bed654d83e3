# Ubuntu Zombie: a TLA+ model of its control

Ubuntu Zombie is an agent that lives on one Ubuntu machine: a chat service through which an
operator talks to a model, which may call tools on the machine, ask to be woken later, and die on
a given date. Around it stands a family of products, each installed, updated, suspended and removed
by a manager of its own. This directory models the parts of the service in which threads, requests,
processes, crashes and lost connections meet, and the managers, whose operations may fail or be
killed at any step; it checks them with TLC, and proves the most important results with TLAPS.

Source paths are relative to the repository; `server.py`, `history.py`, `lifecycle.py`,
`pi_mono.py`, `pi-mono-bridge.mjs`, `policy.py` and `templates/index.html` without a directory are in
`payload/agent/`. The managers are `BM` = `products/beep/payload/agent/beep/management.py`,
`LM` = `products/llama/payload/agent/llama/management.py`,
`FM` = `products/forgejo/payload/agent/forgejo/management.py` and
`RM` = `products/imaginary-friend/payload/agent/friend/management.py`; a bare `docs/X.md` beside one of
them is of its product.

- [1 The system](#1-the-system)
- [2 Modules](#2-modules)
- [3 Runs: what is checked, with which bounds](#3-runs)
- [4 Proofs](#4-proofs)
- [5 Where code and documentation part](#5-where-code-and-documentation-part)
- [6 What is abstracted or left out](#6-what-is-abstracted-or-left-out)
- [7 Plan](#7-plan)
- [8 Running the tools](#8-running-the-tools)

## 1 The system

### 1.1 The core service

One Python process (`server.py`, class `App`, a `ThreadingHTTPServer`) with one thread per HTTP
request, one worker thread per streamed turn, and one timer daemon under a supervisor. systemd
restarts the process when it fails (`Restart=on-failure`). Its parts:

| part | state it keeps | operations | talks to |
|---|---|---|---|
| Chat server, `server.py` | in memory under `App._lock`: `turns`, `pending`, `sessions`; the control lock of reactivation | message, stream, stop, approve, reactivation commands, status | all below |
| History, `history.py` | `conversations.db`: conversations, messages, `reactivations`, `reactivation_settings`; each method is one transaction under `History._lock` | append, list, schedule, claim, finish, cancel, reset, configure | called by the server's threads and the daemon |
| Reactivation, in both | a row per timer (`pending`, `firing`, `fired`, `cancelled`, `failed`), one switch, the time of the last reset | the model schedules; the daemon claims and starts a turn; the operator cancels, configures, resets, stops | turns, lifecycle |
| Lifecycle, `lifecycle.py` | `lifecycle.json`: expiry, tombstone | status, extend, reset, kill, initialize | read before messages, by the daemon and by installer commands; no lock |
| Approval queue, `App.pending` | tool calls that wait for the operator, under two keys each | queue, approve, deny | policy, tools, audit |
| Turn stream, `TurnStream` | a bounded queue of frames, `attached`, `final_payload`, `done_at` | emit, evict, attach, read, detach, sweep | worker thread on one side, browsers on the other |
| Bridge, `pi_mono.py`, `pi-mono-bridge.mjs` | a child process, the time of its last output, a tool in flight, a cancel event | run a turn, kill when idle or stopped | the model through `pi` |
| Policy, tools, `policy.py`, `tools.py` | none (a YAML file) | classify, dispatch | commands of the machine |
| Providers, skills, audit, auth | files | parse, append, hash | |

A message takes this way: the request thread checks the lifecycle, registers a turn and starts a
worker; the worker runs the bridge; each tool call comes back to `on_tool_call`, which counts it,
logs it and runs or queues it; text and state go to the turn's stream as frames; at the end a
requested continuation is written as a `pending` timer and the terminal frame is emitted. Later the
daemon claims the timer and starts a turn of its own the same way.

### 1.2 The family of products

| product | what it is | state of its manager |
|---|---|---|
| `products/beep` | a fork of the core agent (one service account, its own units) | marker `installation.json`, `beep.installing.json`, `retained.json`, `beep.purging.json`, `suspended.json`, `recovery/latest` |
| `products/llama` | a local model server | marker, `.installing.json`, `retained.json`, `retained-config.json`, `suspended.json`, one rollback directory |
| `products/forgejo` | a Git server on PostgreSQL, with a runner another component installs | marker, three `.product-*.json` records, `rollback.json` with an archive |
| `products/imaginary-friend` | an assistant with no shell: workspaces, conversations, settings in SQLite | marker, a transaction, a rollback tree, the snapshots `recovery` and `transient`; the suspension lies in the service's own database |
| `family`, `products/beep/payload/agent/family.py` | the catalog of the products: calls their managers and keeps what they answered | catalog records |
| `scripts` | installer, uninstaller, component registry of the core | files, users, units |

All four managers work alike on the surface: a read-only plan with a digest, a confirmation, a
non-blocking file lock, the digest once more, then the operation (`install`, `repair`, `update`,
`rollback`, `backup`, `suspend`, `resume`, `uninstall` with or without `--retain`, for Beep also
`kill`). Below it they differ in the one thing that matters when a step fails: Llama undoes nothing
and relies on the order of its steps; Forgejo undoes nothing either but brings its services back or
keeps them down; Beep puts a snapshot back; Friend keeps the old tree beside the new one and renames.

### 1.3 What is hard, and what makes each part correct

- **Reactivation.** The daemon acts on what it read a moment ago: the running turns, the row, the
  switch, the lifecycle. Claim and outcome are two transactions with a turn between them, and a
  crash or an exception may come in the middle. Correct means: one timer waits; a timer runs once;
  its row tells the truth; continuations of one conversation do not overlap; `off` and `reset` are
  honoured; a timer does not wait for ever.
- **Lifecycle.** An unlocked read-modify-write of one file by several threads and processes through
  one temporary name. Correct means: a call that nothing else raced with keeps the tombstone, leaves
  the file readable, answers "dead" only when that is on disk, and does not shorten. What the file's own comments
  promise without that condition does not hold (5.2).
- **Approvals.** Two operators, or one with two tabs, answer the same call. The tool-call id is
  chosen outside the server and may come a second time. Correct means: each place in the queue is settled
  once, by a request for a call of the same id; a call whose id is its own runs at most once, and not after
  a recorded denial; no waiting call slips out; none is over budget.
- **Stream.** The queue is bounded, the reader may be gone, may come back while its old connection
  still holds the stream, and a write may fail or succeed into nothing. Correct means: one reader,
  frames in order, the end of the turn can be learned for as long as no write of it failed.
- **Bridge.** A watchdog, an operator's stop, the exit of pi and the normal end race for the same
  child processes. Correct means: a turn ends; it ends as the bridge said it did, or for the reason
  that is given.
- **Managers.** Long sequences of steps, each of which may fail or be the last; some move the very
  record that would allow recovery. Correct means: services never run on a mixture or without what
  they need; a suspension holds whatever is done meanwhile; nothing is left that no record covers;
  data is replaced only when it is kept somewhere; whatever was interrupted can be continued; what is
  installed is what was approved; the way back leads to a whole version.

`PROJECT.json` lists every such hazard with its line under `hazards`, and each component, modelled
or not, under `components`.

## 2 Modules

| module | models | abstract specification | proofs |
|---|---|---|---|
| `Reactivation` | timers, daemon, turns as far as they meet timers, operator commands, crash and restart | `TimerLedger` | `Reactivation_proofs` |
| `Lifecycle` | `lifecycle.py` at the level of system calls | | `Reactivation_proofs`, second part |
| `Approvals` | `on_tool_call` and `approve` | `ApprovalDesk` | `Approvals_proofs` |
| `TurnStream` | queue, handlers, browsers of one turn | | `TurnStream_proofs` |
| `BridgeTurn` | driver, watchdog, bridge and pi of one turn | | `BridgeTurn_proofs` |
| `Rollback` | the Beep manager's swap transaction | | `BeepManager_proofs`, last part |
| `BeepManager` | the operations of the Beep manager, a rollback's swaps as one step with the outcomes `Rollback` has | | `BeepManager_proofs` |
| `LlamaManager` | the operations of the Llama manager | | `LlamaManager_proofs` |
| `ForgejoManager` | the operations of the Forgejo manager | | `ForgejoManager_proofs` |
| `FriendManager` | the operations of the Friend manager | | `FriendManager_proofs` |

`MCReactivation`, `MCLifecycle`, `MCApprovals`, `MCTurnStream` and the managers' `MC` modules add
symmetry sets and the order of the releases for TLC. Names
ending in `_something` after a definition's name (`Busy_posted`, `Evicted_front`, ...) are
plausible errors in that definition, one or more per property: put in its place, each makes the
property fail in its own run, which shows that the property depends on the code. They belong to no
specification.

The common rule for granularity: a step is one thing that other threads can see whole, that is one
transaction of `History`, one section under a lock, one system call on a shared file, one queue
operation, one write to a socket. Whatever a thread reads and uses in a later step is kept in its
record, so that it is stale when the code's would be.

### 2.1 Reactivation

| state | code |
|---|---|
| `status`, `home`, `due`, `fresh` | columns `status`, `conversation_id`, `fire_at <= now`, `created_at > reset_at` of `reactivations` |
| `enabled` | `reactivation_settings.enabled` |
| `turn` | `App.turns` and the worker or request thread of each turn: where it is, what started it, its cancel event |
| `daemon` | locals of `_reactivation_daemon`: `item`, `busy` |
| `control` | `_reactivation_control_lock` |
| `op` | request threads in configure and reset |
| `dead` | the answer of `lifecycle.status()` |
| `sawEnabled` | an observation, for one property |

Actions: a turn is posted (`PostTurn`: streamed, synchronous, or an approval that runs a queued
schedule call), looks at the lifecycle (`TurnBegin`), calls the schedule tool or asks for a
continuation in its reply (`TurnToolCall`, `TurnReply`), is stopped or ends (`TurnModelEnds`), goes
through the checks and the insert of `schedule_reactivation` (`TurnSettings`, `TurnLife`,
`TurnInsert`) and finishes (`TurnDone`). The daemon polls (`DaemonCheck`), looks at the running turns
(`DaemonBusy`), takes the control lock and claims (`DaemonClaim`), checks switch and lifecycle
(`DaemonEnabled`, `DaemonLife`), registers the turn (`DaemonStart`) and writes the outcome
(`DaemonFinish`); `DaemonFault` is an exception caught by the supervisor. The operator cancels
(`CancelReactivation`), configures in three steps (`ConfigureRead`, `ConfigureWrite`,
`ConfigureCancel`), resets in two (`ResetStore`, `ResetStop`) or stops a turn (`StopTurn`). `Crash`
forgets the process; `Start` is `App.__init__` with `fail_orphaned_reactivations`.

### 2.2 Lifecycle

`file` and `tmp` are the two directory entries (absent, empty, a record, or two texts run together);
`thread` holds each call in progress with the record it read and the file its descriptor refers to,
which stays the same file when another thread renames it; `now` is the clock. All six calls of the module
are there, the explicit `initialize` too. Actions follow the
system calls: read (`LookExpired`, `Look`, `LoadRenew`, `LoadKill`; `Initialize` reads nothing), `open` with truncation
(`OpenTmp`), `write` (`WriteTmp`), `rename` (`Rename`), and `Fails`, which ends a call at any point as an error or
a kill would; that the temporary file is gone because another thread renamed it is one such error.
No lock keeps threads apart, so none is modelled. `raced` observes of a save in progress that another save has taken a
step since this one read the file: the properties say that only such saves do harm.

### 2.3 Approvals

`queue` is `App.pending`, both keys of a call pointing to it; `item` is what was logged of a call;
`elevated` is the turn's count; `request` is each thread in `approve` with what it found; `audit` is the set of rows
that record a decision. `AutoCall` and `QueuedCall` are the two outcomes of `on_tool_call`; a call over the budget has
neither. A turn may use any tool-call id for any of its calls, one that is in the queue already included:
the newer call then takes over that key (`Enqueued`), and `Pop` may find another call than `Ask` did. `Ask` / `AskUnknown`,
`AskPhrase`, `Pop`, `Dispatch`, `RecordRun` and `RecordDenial` follow `approve`. `AskPhrase` records what the code records: the
row says "denied" and names the wrong phrase (`Unconfirmed`), and the call waits on. `Restart` empties the queue.
Four observations: `ran` counts the dispatches of a call, `fate` says what was done with a place in the queue, and of each
request `shown` is the call whose card the operator looked at and `late` whether the zombie was dead then.

### 2.4 TurnStream

A frame is a number, `kind` what it says. The worker emits (`Emit`, `Put`, `Evict`, `Return`); the
put and the eviction are two steps because `put_nowait` releases the queue's lock before the eviction
takes it. `Connect`, `Answer` are `GET /api/stream/<turn>` and the second look of a refused request;
`Read`, `Deliver`, `Lose`, `FailWrite`, `FailKeepalive` are the handler's loop: a write into a connection
that is gone may still succeed (`Lose`) or fail, of whatever frame, the terminal one included (`endLost` observes that); `Drop` is
the browser's side of a lost connection; `Sweep` removes the finished turn.

### 2.5 Rollback

`prior` and `snap` are the swaps whose target exists and those the snapshot has a copy for; `target`,
`staged`, `previous` are what lies at the three paths of each swap; `moved`, `placed` are the flags of
`_PathSwap`; `begun` is `completion_started`; `units` is what the last `systemctl` calls achieved.
Forward: `Stage`, `StopServices`, `Away` and `Place` (the two renames of a swap), `Finish`, `CompletionHolds` or
`CompletionFails`, `Commit`. Every one may fail (`StageFails`, `StopFails`, `ApplyFails`); a failure leads to
`Unplace`, `Unmove` for each swap from the last to the first, which may fail too (`UndoFails`), and to
`Restored` or `Unrestored`. Cleaning up removes staged copies and the transaction's directory, in which
the old entries of the state root (`InState`) lie. A killed manager (or one that gets an interrupt, which
`except Exception` does not catch) simply takes no further step: every reachable state is one it may
leave behind, so that the invariants speak of it too.

`Rollback` and `Lifecycle` have the names of their parts in those of `Init`, `Next`, `Spec` and the tuple of variables,
because a proof module extends each of them beside another component (section 4).

### 2.6 BridgeTurn

| state | code |
|---|---|
| `pi`, `lines` | the process that `pi-mono-bridge.mjs` spawns, and what it printed that the bridge has not read; a line stands for what the bridge's reader does with it (a delta, an answer, a failure, a retry, an end, ...) |
| `bridge`, `frames` | the bridge's phase, whether it has a text, an error, an end; the frames the driver has not read |
| `driver`, `inFlight`, `recent` | the thread in `run_turn`: where it is, its frame, its outcome; `tool_in_flight`; whether `last_activity` is within the deadline |
| `dog`, `timedOut`, `cancelled` | the watchdog, with what it has decided and not yet done, and the events it sets |
| `cancel`, `deadline` | the event of `stop_turn`; whether `max_turn_seconds` is positive |
| `sent`, `active` | observations: the first terminal frame written; whether something happened or a tool ran within the deadline |

pi says lines and exits when it likes (`PiSays`, `PiExits`). The bridge starts it or cannot (`Spawn`), reads a line (`Line`), handles the exit of pi, which may come before the last lines are read
(`PiGone`), ends a pi that stays silent (`PiSilent`), forwards a tool call (`Forward`), or dies (`BridgeDies`). The driver
reads a frame or the end of the pipe (`ReadFrame`, `ReadEnd`), runs a callback and answers (`Handle`,
`CallbackEnds`, `Reply`), and closes (`Close`). The watchdog looks (`Look`), sets its event (`Mark`) and
kills (`Kill`), as three steps. `Stop` is the operator, `Quiet` the passing of the deadline.

### 2.7 BeepManager

Records: `marker`, `pending`, `retained`, `purging`. Resources: `disk` says of each tree, the Node
runtime, the account and the host files (as one part) which revision is there, or that it is mixed,
foreign or absent; `life`, `suspended`, `snapshot`, `services`. `asked` is a caller between its plan and
the lock (`Ask`, then `Confirmed` or `Refused`; `Call` is both at once), `op` the operation that holds the
lock with what its local variables hold.

`Converge` is install, repair and update, which are one function (`BM` `_converge`): preflight, stop,
journal, snapshot, identity, directories, Node runtime, bridges, runtime, configuration, services, mark,
forget; a tree is half written between two steps. The identity takes four of them: the account
(`EnsureAccount`), its home, made as root's (`MakeHome`: `"rooted"`) and given to it (`GiveHome`), and the sudoers
(`WriteSudoers`). `Rollback`, `Small` (backup, suspend, resume, kill) and
`Uninstall` (retaining or purging) likewise. `Declined` is a refused check. `StepFails` is the except
clause of the operation: what it undoes depends on what it has done, and undoing may fail too; `Killed`
is no clause at all. `SourceChanges`, `Expires`, `ForeignAppears` are the operator's checkout, the agent's
own lifecycle and other administrators. A rollback's swaps are one step with every outcome `Rollback`
shows; after a torn one nothing more is modelled (`torn`).

What a check of the installation compares matters for what may be resumed. `RuntimeValid` is `_runtime_valid` with
`_bridge_runtime_valid`: the runtime is, file by file, that of the source the manager is run from.
`ConfigurationValid` is what the descriptor, policy, credential and family checks see of `/etc/beep`: that its files are there and well formed, of
whatever revision, since `PRODUCT.json` names none. `ServesOnlyWhole` therefore speaks of the runtime only; what resume may serve
beside it is described in 5.4.

### 2.8 LlamaManager

Records: `marker`, `pending`, `retained`, `kept` (the retained configuration), `suspended`. `disk` has the
five roots and their contents; `snapshot` the rollback directory, part by part; `service` and `boot` the
unit. The operations have the steps of `LM` in their order, which is all that protects them: `StepFails`
leaves everything as it is (a failed `resume` may stop the server), and whether the process was told of
the failure or killed makes no difference. `Reboot` starts what is enabled.

Removing the state root is one `rmtree`, which lists a directory in the order the file system has: after `RemoveFromState` any
subset of its records and the models may be gone. The version and the catalogues are those read when the manager
was started; the digest that is computed again under the lock takes them as they are (`Current`), so that the tree copied may be of another
version than the one planned. Checks of the host files and of the settings look at owners, modes and form, not at the version
they are of. `cut` observes that an operation that rewrites the installed version
was cut short, or that one copied a tree of another version: then a snapshot cannot be vouched for.

### 2.9 ForgejoManager

`unit` has the two services, server and runner, active and enabled; `suspended` is the record of what resume
has to restore; `db` what PostgreSQL has; `op.safe` observes whether the operation has archived all of it (`UserWrites`
makes that untrue while the server runs). `BeginStop`, `EndStop` and `BackUp` (stop, dump, restart, record)
are the coordinated backup that update, backup and rollback share; then come the steps of each operation.
`StepFails` follows `_restore_after_failed_mutation` and the except clauses, `Killed` does not.
`RunnerChanges` is the core's installer, which adds and removes the runner.

### 2.10 FriendManager

`runtime` and `old` are the install root and the tree it was renamed to; `db` is the service's database, of
which only the suspension matters; `recovery` and `transient` the snapshots; `proc` the running service, with
the version it was started from. `Converge` and `Rollback` go forward, `Undo` backward: `StepIsUndone` begins
it where the code's `except` does, `StepFails` is a failure that nothing undoes (also one within the undoing),
`ResumeFails` that of resume. `OwnerSuspends` is `POST /api/suspend` and may come between any two steps;
`Reboot` between operations. Snapshots are cleared entry by entry, so a kill may leave one with its `snapshot.json` and
some parts missing (`Cleared`): what is left of an earlier one (`Earlier`) then counts as a snapshot. The marker of a first
installation goes even when the rest of its undoing fails. `broken` observes that an operation was killed, or could not be undone.

## 3 Runs

All bounds are constants of the modules, named there. Symmetry is used only in runs without liveness
properties.

| run | instance | states | shows |
|---|---|---|---|
| `reactivation_safety` | 2 timers, 1 operator turn of any kind, 2 continuations, 1 operator, 1 crash, 1 daemon fault | 1,165,006 | continuations never overlap, a timer fires once, truthful row, reset and off honoured, `TimerLedger` implemented |
| `reactivation_liveness` | 1 timer, 1 operator turn, 1 operator, 1 crash, fairness | 17,710 | a queued timer leaves the queue, a claimed one settles |
| `lifecycle_calls` | 2 callers, all calls, clock to 3, expiry to 5 | 629,871 | only a save that another raced with, or `initialize`, revives the dead or leaves an unreadable file |
| `approvals_gate` | 3 calls of three classes under 2 ids, 2 turns, 2 requests, budget 1, 1 restart | 574,008 | each call settled once, by requests for its id; budget; none slips out; `ApprovalDesk` implemented |
| `stream_viewers` | queue of 2, 4 frames, 2 browsers, 1 lost connection, fairness | 306,359 | order; the end reachable and learned until its write fails |
| `bridge_outcome` | 2 lines, budget of 1 with 2 calls, fairness | 371,228 | the first terminal frame decides, the reason given is true, the turn ends |
| `rollback_undo` | 4 swaps, 2 of them in the state root, any subset present, any failures | 252,224 | the report fits the disk, nothing lost, no mixture served |
| `beep_manager` | 2 identities, 2 revisions, 1 failure or kill, 1 foreign resource | 1,680,759 | services on a whole runtime only, suspension, everything can be continued, identity, approval, purge |
| `llama_manager` | 1 identity, 2 releases, 1 failure, kill or reboot | 2,045,047 | nothing orphaned but models a purge was to remove, the snapshot is whole, the service has its files |
| `forgejo_manager` | 2 releases, enabled at boot, 1 failure or kill | 3,475,071 | suspension, the runner needs its server, data is archived first |
| `friend_manager` | 2 releases, 2 failures, kills or reboots | 1,382,497 | versions agree, an active Friend is served, a failure is undone, suspension is kept |
| `friend_update` | 2 releases, no failure | | **violated**: an update installs the newer version |

Why the bounds are enough to meet the interesting cases.

- Two timers are a timer and its replacement; two continuations are what can overlap. One crash and one
  fault can fall between any two steps; a second one meets only a state that `Start` has already cleaned.
- Two callers without a lock are what a race needs: one reads, another saves, the first saves. The clock passes the expiry,
  and an extension may be shorter or longer than what is left.
- Two requests are what can compete for one call; three calls under two ids use one of them twice, in one turn or in two, beside a
  call whose id is its own; of three calls in two turns two are in one, which has a budget of one.
- A queue of two with four frames overflows twice, once with and once without a token in it, and the
  terminal frame meets a full queue.
- Four swaps are one before, one after and two among the state root's.
- Two lines are a first word and one that changes what it means (a partial text and an error, an answer and
  the end), of which either may be unread when pi exits; a budget of one with two calls is
  the last call within and the first beyond it.
- Two revisions or releases are an old and a new one: with two, every tree can be of the other version than its
  neighbour. Two identities are an installation and the one that replaces it in a plan made before; in Llama
  nothing but a stale plan depends on the identity, which one identity, a waiting install and a removal in between
  meet. Which plans wait is bounded by the constraint `WaitingMatters` of the two `MC` modules: in Beep those that name the present installation (any
  other is refused, or does what a plan made later does), in Llama those that no other operation has passed (one that is still good
  afterwards could as well have been made then). One failure leaves any of the states the code can be left in, and all operations go on from there
  without a bound on their number; Friend has two, because undoing may itself fail. One caller waits
  at the confirmation, with the operation whose stale plan would do the most harm (`Waiting`).

The proofs remove the bounds from every safety property of these runs (section 4 says under which assumptions); they
remain for liveness.

Fairness. `Reactivation`: every thread that can step does (the operating system schedules it), a
timer's time comes, systemd restarts the process, and a turn ends (strong fairness of `TurnModelEnds`,
because a model may call tools in between, and `run_turn` bounds both the idle time and the number of
calls; `TurnEnds` of `BridgeTurn` is that assumption, checked one level down). No fairness for operators, for
the model's wish to schedule, or for faults. `TurnStream`:
threads run, TCP reports a lost connection in the end, a reconnecting `EventSource` connects; nobody
has to watch and the sweep need not run. `BridgeTurn`: the driver and the watchdog run and time passes;
nothing is assumed of pi and the bridge, which may hang, and callbacks end. The other modules have only safety
properties: an operation of a manager may be abandoned at any step.

`stream_viewers` and `rollback_undo` do not check for deadlock: when the turn is over and
every browser has its answer, or the rollback has ended, nothing is left to do. Everywhere else a stop would be an error, and there is none.

`ClaimedTimerSettles` is checked without faults of the daemon: after one, the row stays `firing` until
the next start of the process, as the code has it.

## 4 Proofs

Each proof module extends the module it is about; two of them hold the proofs of a second module too, which shares the
topic. The theorems hold for all values of the constants
allowed by the modules' assumptions: any numbers of timers, turns, conversations, operators, threads,
crashes.

**`Reactivation_proofs`.** `Invariance` proves `Spec => []Inductive`. `Inductive` adds to the safety
properties what makes them inductive:

- `LockInv`: from claim to outcome the daemon holds the control lock, its row is `firing` and newer
  than any reset. Without it nothing excludes a reset between claim and start.
- `RunInv`: only claimed timers have run, and the daemon's own has run exactly when it is about to
  write the outcome. This carries `FiresAtMostOnce` and `RecordTellsTheTruth` across crashes: a
  restart moves `firing` to `failed`, never back to `pending`.
- `BusyInv`: the daemon's view is stale but not wrong about continuations, because only the daemon
  starts them, and the claim skips the conversations of that view (`Claimable`), not only that of
  the row it had looked at. This is why `ContinuationsNeverOverlap` holds while
  `NeverStartsBesideATurn` does not.
- `RowsInv`, `TurnsInv`, `SettingInv`: what rows and turns refer to; the switch was seen on.

From it follow `TypeCorrect`, `OnePending`, `FiresOnce`, `RecordTrue`, `NoOverlap`, `ResetStops`,
`ControlExclusive`, `OffStops` (an action property) and `LedgerImplemented` (refinement: every step is
a step of `TimerLedger` or leaves it unchanged). The proof has one lemma per conjunct, with one step
per action; frame lemmas say what a group of actions leaves alone.

**`Lifecycle`, in `Reactivation_proofs`.** For any number of callers without a lock, making any of the calls: `LifecycleTypes`,
`TombstoneKept` and `FileKeptWhole` (the properties of its run), and, which no run checks, `AnswersAreTrue` (a call that was not raced
answers "dead" only of a file that says so) and `ExtensionsAdd` (an extension that was not raced never shortens). The strengthening
`SavesInv` says what a save that has not been raced may rely on: the temporary file is its own and holds its record, which is no
step back from what is in the file (`SafeSave`). `OnlyTombstonesWritten`: if `Ops` holds only
`status` and `kill`, whatever is written into the file is a tombstone or cannot be read, raced or not.

**`Rollback`, in `BeepManager_proofs`.** `RollbackInvariance` for any number of swaps. `SwapsInv` says, for each phase, where the
swaps before, at and after the current one are: untouched, aside, swapped, or back; `PhaseInv` which
state the services can be in then. `FilesFit`, `OldKept`, `StraysNamed` and `NoMixServes` follow. The
last three hold in every state, so also in one left by a killed process.

**`Approvals_proofs`.** `Invariance`, `EachSettledOnce`, `OnlyNamesakesAnswer`, `NoneSlips`, `BudgetKept` and
`DeskImplemented` hold for any numbers of calls, turns, requests and restarts and whatever tool-call ids the provider
makes up; nothing is assumed of them. A pointer in `App.pending` is only as good as the pop that removes it, so the invariant
follows a place in the queue from hand to hand: `QueueInv`, what is under a tool-call id is a call of that id which is
under its own entry too; `RequestInv`, what a request found, what its operator was shown and what it popped have one tool-call id;
`PlaceInv`, what a request popped is in no queue and in no other request's hands; `FateInv`, a place is settled once;
`AloneInv`, for a call whose id is its own the place and the call are the same, so that it runs only where its place was settled so. For
the refinement each action is mapped to one of the desk's steps or to none; the desk never comes to "lost" but by a restart because
of `PlaceInv`. `BudgetKept` counts, with the theorems on finite sets, that a turn's
counter is the number of its logged calls that are not read-only.

**`TurnStream_proofs`.** `Invariance`, `ReadersAreSingle` and `OrderHolds` for any size of the queue and any numbers of frames, browsers and lost
connections, whichever writes fail. `QueueInv` says that the queue is in the worker's order, with gaps;
`PastInv` that what a handler holds is older than the queue, and what a page has been shown older than both, so that a page which
takes the stream over can only go on. `EndCanBeLearned` speaks of any run up to the first failed write of a terminal frame, after which
the end may be out of reach (5.2); its strengthening is that a handler at work means that the end is still to come
(`EndInv`: it is in the queue, `EndQueued`, or in a handler's hands, `EndHeld`), which makes the `attached` in `EndIsReachable` harmless.

**`BridgeTurn_proofs`.** `Invariance`, `TypesKept`, `BridgeIsHeard` and `ReasonHolds` for any number of lines and any budget. `NextTerminal`: as
long as the driver has not concluded, the first terminal frame the bridge wrote is the next one the driver will handle, because a bridge
writes on after it only what is never read. `Reasons` and `MarkedFirst` say that the watchdog sets an event only for what it saw and
kills only after it; `Concluded`, that an outcome of the driver's own making ("stopped", "timeout", "exited") is
only reached when the bridge is gone without a terminal frame.

**`ForgejoManager_proofs`.** `RunnerHasItsServer`, `ArchivedFirst` and `SuspendedStaysDown` (nothing runs while suspended, and the server is not
enabled; of the runner's unit it does not say that, for a rollback may leave it enabled, 5.6) for any releases and any number of failures and kills. `Still`: an operation stops the
runner before anything else and leaves it stopped until the server is started again; `Started`: at the step that starts it, the server runs or
was not to run either; `Remembered`: what an archive, a record of a suspension or the operation itself remembers of the services
never has the runner without its server. The last part is what makes rollback and resume, which restore what they remember, safe.
`SuspendedStaysDown` needs more than its property: what an archive says of the boot preference (`Archives`), for a rollback restores
both the record of the suspension and that preference (`Copied`), and the three places in an operation where something may run
(`Elsewhere`). An archive taken after a kill is excepted (`sound`), and so is the installation that a rollback brings back from it, also when the
rollback fails at its last step: a state that takes two failures and that the run, with one, does not reach. `Archived`, for `ArchivedFirst`,
is that a rollback past its backup has archived.

**`BeepManager_proofs`.** All properties of its run: `OnlyWholeIsServed`, `SuspendedStaysDown`, `ApprovedIsInstalled`, `PurgedIsGone`,
`IdentityStays` and `AlwaysContinued`, for any identities,
revisions, failures, kills, foreign resources and any operations waiting at the confirmation (which is assumed to be one of `Kinds`). Kills make
`Serving` the heart of it: it has to hold in every state, since each may be the last. `OnlyWholeIsServed` is about the runtime
(2.7). `Down`: services are off from the step that stops them
to the one that starts them; `Prior`: an operation that gives up before it has touched a tree may bring back what ran,
because that was whole; `Managed`: where there is a marker the host files are not somebody else's, and a snapshot was taken of such an
installation, so that what a rollback brings back can be judged by the health checks alone; `Written`: at each place of a convergence
the trees before it are of the approved revision, which the private copy of the source guarantees; `Removed`: at each place
of a purge what comes before it is gone, also when it was resumed.

`IdentityStays` rests on a second invariant: all records that hold an identity hold the same one (`Identified`), an operation works
under it (`Naming`), and a record goes only when another has it (`Handing`). It assumes that `None` is no marker record
(`NamesAssumption`). `AlwaysContinued` rests on a third one: what there is without a marker is what another record accounts for
(`Accounted`: a pending install, a retained state, or nothing at all), with what an unfinished convergence or removal has done so far
(`Working`), and during a purge nothing but the purge goes on (`Alone`), unless an operation that waited at the confirmation
was started late, which the property excepts. It also excepts a home that was made and not yet given to the account, which the
manager refuses whatever it is asked for (5.4).

**`LlamaManager_proofs`.** `AlwaysCovered`, `SnapshotIsWhole` and `FilesAreThere`, for any releases and identities, any number of failures,
kills and reboots, and any operations waiting at the confirmation. Nothing is undone, so the argument is about places: what a convergence
has written (`Written`), a rollback restored (`Restores`) or a removal removed (`Removes`) when it is at a place, and that the record
that covers it is there (`Covered`); models that a purge cut short had not yet removed are excepted, since the record may go before
them (5.5). For `SnapshotIsWhole` the difficult part is an operation that is repeated after it was cut short, when
the disk may be no whole version any more: `Intact` says that, unless such a cut came between, what is on the disk is as the marker says, or the snapshot is of the
marker's version, or there is no install root to take one of. `TakeSnapshot` keeps a snapshot of the
marker's version in the second case and takes a sound one in the first. `Starts`, for `FilesAreThere`, has to hold for the
boot preference as for the service, since a reboot may come between any two steps; a rollback restores that preference with
the host files of the same snapshot (`Snapped`). Assumptions: the values that stand for nothing are no identities, versions or records
(`NamesAssumption`, `RecordsAssumption`), and `Waiting` holds operations (`WaitingAssumption`).

**`FriendManager_proofs`.** `OneVersion`, `ServedBetween`, `UndoneWhole` and `StaysSuspended`, for any releases, failures, kills and reboots. Whatever
a convergence or a rollback does may be undone, so the invariant tells everything from what the operation found
(`op.before`): where the trees are by now, also with one rename of two done (`Trees`, `Rolling`); what has been written of
records, configuration and settings (`Contents`); and that the snapshot the operation would go back to is of what it found (`Source`), which is
`recovery` when another version was installed and `transient` when the same one was. `Retained` is the corner of it that the proof brought up:
a retained installation's snapshot has no configuration, and going back to it removes none, which is harmless only because there is no tree
to move aside then. `Base` says what an operation that has changed nothing yet stands on, one version everywhere or an uninstalled state,
unless an operation was killed or could not be undone (`broken`), after which nothing is promised before
one succeeds. `Service` and `Flagged` are the points from which a service that is to be up is up and a suspension is on disk; the
owner's own suspension between any two steps is why both speak of the settings as they are and not as they were planned.
`UpdateNeverInstalls` says of all releases and failures what `friend_update` shows of two: no step of an update
changes the marker. TLC has checked these invariants with three releases and three failures as well, before they were proved.
Assumptions: `NamesAssumption` and `RecordsAssumption`, as for Llama.

Some of what is proved is checked by no run of its own, since the theorem says it for every instance: one timer waits
(`OnePending`), control is exclusive (`ControlExclusive`), strays are named (`StraysNamed`), only tombstones are written, answers are durable and
extensions add (`OnlyTombstonesWritten`, `AnswersAreTrue`, `ExtensionsAdd`), one reader (`ReadersAreSingle`), and the types.

Only model-checked: `QueuedTimerLeaves`, `ClaimedTimerSettles`, `ViewerLearnsTheEnd` and `TurnEnds`, since liveness under
fairness is out of the prover's reach. The violated `UpdateInstalls` has a counterexample, and its general form is the
theorem `UpdateNeverInstalls`. No module declares a recursive operator.

## 5 Where code and documentation part

### 5.1 Listed as a finding, with a run

`friend_update`: an update of Imaginary Friend to a newer version never succeeds. After the switch the
manager runs its health and boundary gate, and one part of it, `_runtime_is_root_controlled`
(`RM:1991-2049`), compares the version of the new tree with the one the *old* marker names, since the new
marker is only written after the gates. The update is then undone as a whole. `docs/UPGRADING.md:17-20`
describes an update that ends with the new marker. That it is so for any two versions is the theorem
`UpdateNeverInstalls`. It follows that a rollback is only ever needed after a
killed update.

### 5.2 The core service

In this section and the next five, a property in parentheses is one that the module states in the words of a comment or page and that
the code does not keep. To see the counterexample put its name into the cfg of the component's passing run, under `INVARIANT` or,
for those marked (a), `PROPERTY`: TLC finds it violated within that run's bounds, mostly in seconds. They are defined after the
properties that hold, each of which says how far the promise does go.

- *Beside a turn* (`NeverStartsBesideATurn` (a), `Reactivation_safety.cfg`). `docs/CONFIGURATION.md:430-431`: "A due timer is never
  started while its conversation still has a turn in flight". The running turns are read at `server.py:1919`,
  before the lock and the claim (`:1933`), and the turn is started at `:1962` without another look; a turn posted in between
  runs beside the continuation. A turn posted without streaming (`:2942`) is not registered at all.
  What holds: `ContinuationsNeverOverlap`.
- *Lost tombstone* (`DeathIsFinal` (a), `Lifecycle_calls.cfg`). `lifecycle.py:11-13`: the tombstone is "written to disk and never cleared at
  runtime", and `:273` calls `initialize` "the only path that clears a tombstone". No lock guards the file: `set_ttl_seconds` reads it
  (`:235`) and saves what it read (`:243`), and a kill in between by another request, the daemon or the command line is overwritten with a
  live record. For the same reason two extensions at once may leave the shorter expiry. What holds: `OnlyRacesRevive`.
- *Torn file* (the same run; `OnlyRacesTear` without its condition). `lifecycle.py:184` has the decision durable before `status`
  returns. Two callers share `lifecycle.json.tmp`; the second truncates what the first is about to rename, and an
  unreadable file counts as alive and without expiry, for ever. What holds: `OnlyRacesTear`, `AnswersAreTrue`.
- *After death* (`NothingRunsWhenDead` (a), `Approvals_gate.cfg`). `lifecycle.py:183-184`: "the single read path the chat service
  consults before doing anything privileged", and so `docs/CONFIGURATION.md:471`. `approve` (`server.py:1990-2074`) does not consult
  it, nor does its handler: a call that waits when the zombie dies runs when it is approved later.
- *Tool-call id used twice* (`ShownIsMeant`, `Approvals_gate.cfg`). `server.py:750-752`: each item is addressable by both
  ids "so legacy buttons and text commands resolve the same queue item". The tool-call id is what the provider sends
  (`pi_mono.py:353`), and nothing in the server makes it unique. When it comes again while the older call waits, `:1232` files the
  newer call in its place: the button of the older one approves the newer. And a request that has found a call by it can pop another
  that came since, and runs the one it found: together with a request that named that call's entry, the same call is then
  dispatched twice. What holds: `NamesakesAnswer`, and `SettledOnce` of a call that shares its id with no other.
- *Denied, and run later.* A destructive call that is approved without the right phrase is recorded with the decision "denied"
  (`server.py:2030-2036`) and waits on; confirmed later, it runs, and a second row says "approved". The audit log has then both rows
  of one call. The model has the row (`Unconfirmed`); `SettledOnce` speaks of the rows of an operator's denial only.
- *Queue in memory.* After a restart the waiting calls are gone while their audit rows say they wait (`server.py:753`). `NothingSlips` and
  the desk except a restart.
- *Switched off too late.* The daemon looks at the switch at `server.py:1939`; an "off" after it comes too late for the timer it has
  claimed. `OffStopsContinuations` is about an "off" before the claim.
- *Lost terminal frame* (`EndIsNeverLost`, `TurnStream_viewers.cfg`). `server.py:1029-1032`: a browser's reconnect "can re-attach and
  still receive the remaining (including terminal) frames". A frame has left the queue (`:2711`) when its write fails
  (`:2722-2724`) and is not put back. If it was the terminal one, a reconnect attaches, since the stream is free, and is
  sent keepalives until the turn is swept; the final payload is only sent to a request that cannot attach. What holds: `EndIsReachable`.
- *Reconnect refused* (`ReconnectResumes` (a), `TurnStream_viewers.cfg`). `templates/index.html:2391-2393`: "the server releases the
  attachment on a broken connection so the reconnect can resume the stream". It does when a write fails, up to a
  keepalive interval after the loss. A reconnect that comes earlier finds the stream attached (`server.py:1023`), is answered 404
  (`:2703`), and closes its `EventSource` for good. What holds: `ViewerLearnsTheEnd`, by loading the conversation, not the stream.
- *Switch overwritten.* `update_reactivation_settings` (`history.py:278`) reads the row and writes all
  of it. With two operators `enabled` turns on although neither asked for it after the "off".
- *Chain continued after a reset.* The worker looks at its cancel event (`server.py:1383`) and then
  schedules the follow-up; a reset in between is followed by a new timer.
- *Early eviction.* When handlers read between the failed put and the eviction, only an empty queue is
  noticed (`server.py:893`): with room in the queue the oldest token is dropped, or, without tokens,
  the oldest state frame, which the comment at `server.py:883-884` does not intend.
- *Two keys, two calls.* `/status` counts the keys of `pending` (`server.py:2401`), so a waiting call
  counts twice.

### 5.3 The bridge

- *Hidden failure* (`FailureIsShown`, `BridgeTurn_outcome.cfg`). The exit of pi is handled when the process ends, perhaps before its last
  lines are read (`pi-mono-bridge.mjs:527`). A failure in those lines is not seen, and an earlier, partial text is
  reported as the answer, although `finish` has been written so that a stale text does not hide a failure.
- *Active turn killed* (`ActiveTurnIsSpared` (a), `BridgeTurn_outcome.cfg`). `pi_mono.py:241-243`: the time of the last activity is refreshed after every event
  and tool result "so a long but *active* turn ... is never killed prematurely". The end of a tool call clears
  `tool_in_flight` (`:365`) before it refreshes that time (`:370`): a look of the watchdog in between (`:274-277`) sees no tool and a time
  from before the tool ran, and kills the turn for having been idle. This needs a bridge that forwards tools, which the shipped one
  does not; `ZOMBIE_PI_MONO_BRIDGE` chooses one that does.
- *Stop reaches node only.* The watchdog kills the bridge; pi goes on with tools of its own until it notices.
  A kill while a callback runs is reported as a failed call (the reply meets a broken pipe), not as "stopped".
- *No deadline.* `docs/CONFIGURATION.md:338-343` says that with `max_turn_seconds: 0` a wedged turn ends only when
  the operator presses Stop. The bridge ends a silent pi after 86,460 s by itself, and the Stop button of the page
  (`index.html:933`, `:961`) only closes the browser's stream; only the reactivation button (`:1639`) calls
  `/api/turn/<id>/stop`.
- *Tool budget.* `docs/CONFIGURATION.md:329` names the bridge as one of two places that enforce
  `max_tool_calls_per_turn`; the bridge does not read it, and pi's own tools are not counted.

### 5.4 Beep's manager

- *Stale purge boundary* (`PurgeCanBeResumed`, `BeepManager_ops.cfg`). `docs/RECOVERY.md:22`: "rerun the exact confirmed purge from verified source",
  and the error at `BM:1112`: "An interrupted Beep purge must finish before another mutation." Whether a purge was begun is looked at
  before the confirmation and the lock (`:1667`), and not again. A convergence that waited there is executed on what the purge left and
  takes another identity, and the purge is then refused with `PURGE_IDENTITY_CHANGED` (`:6319-6324`). What holds: `CanBeContinued`, where no operation
  began late.
- *Half-updated configuration served.* An update killed after the runtime was replaced and before all of `/etc/beep` was (`BM:4845-5005`)
  leaves services stopped; resume (`:6211`) then finds the runtime whole and the configuration well formed, and starts them on files of two
  revisions. `PRODUCT.json`, the file of them that is compared (`:1411-1420`), names no revision and is the first one written (`:4840`). `docs/SECURITY.md:28`
  names the stopped services and the health gate as what keeps a failed update from serving a mixture; of the configuration they do not.
- *Home not given away.* A first installation killed between `mkdir` of the home (`BM:3143`) and its `chown` (`:3164`) leaves a home that is
  root's. `_validate_partial_root` (`:2506`, `:2519-2527`) refuses it, and so neither install nor uninstall goes on, although
  `docs/INSTALLATION.md:94-97` has the same install command "rerun", the manager "adopting the partial installation". `CanBeContinued` excepts it.
- A rollback, and a repair that finds no `lifecycle.json`, bring a dead agent to life (`BM:5013`).
- *Interrupted rollback.* Between the two renames of the swap that holds `installation.json` the
  installation has no marker. A manager killed there leaves the old files beside their places
  (`OldIsKept`) and the services stopped (`MixNeverServes`), but a repeated `rollback` requires the
  marker and refuses. Nothing records which swaps were made.
- A resume killed between its start and its unlink leaves running services with `suspended.json`. A repair that
  fails after a killed update replaces the good `latest` snapshot by one of the mixed state. A failed first
  installation on retained state cannot be purged. A kill during the replacement of Node leaves
  `.node-old-*` beside it. `kill` cancels queued timers after the tombstone is written; if that fails, they wait
  beside it (`BM:6248`; not modelled).

### 5.5 Llama's manager

- *Retained of one version, installed from another* (`RetainedCanBeInstalled`, `LlamaManager_ops.cfg`). `docs/RECOVERY.md:23-24`: "Running `install`
  restores the runtime around that state." The removal has removed the install root; when the version differs, install first takes a snapshot
  (`LM:2503-2504`) in a temporary directory of that root (`:2445-2447`), which fails. Repair refuses the version.
- *Another version than approved* (`MarkedIsInstalled`, `LlamaManager_ops.cfg`). `docs/UPGRADING.md:12-14`: "Execution recomputes it while holding the product lock and
  fails if ownership, inputs, version, or ordered steps changed." `VERSION` is read once, when the manager is started (`LM:472`), the
  settings before the lock (`:1034`); the digest that is recomputed (`:1137`) takes both as they are. A tree replaced while the operator
  confirms is copied, and recorded as the version read before.
- *Models without a record.* A purge removes the state root in the order of its directory (`LM:2967`, `:2877-2884`). Killed when
  `installation.json` is gone and `models` is not, it leaves files that install (`:1902`) and uninstall (`:2903`) refuse. `NothingIsOrphaned`
  excepts the models of such a purge.
- Directories are created before the transaction is written (`LM:2514-2520`): killed in between, the next install
  refuses roots it does not own (`docs/RECOVERY.md:18`). A purge removes the state root with the marker before the
  account. `retain` removes the configuration (`:2937`) before the copy it keeps is written (`:2951`).
- A suspended server that is enabled starts with the host. Install or repair of a suspended, enabled server ends
  with `HEALTH_FAILED` (`:2552-2554`). A rollback killed after it moved the product can be repeated only after a repair (`:2766`);
  an update after it replaces the good snapshot.

### 5.6 Forgejo's manager

- *Writes lost by a rollback* (`DataIsNotLost` (a), `ForgejoManager_ops.cfg`). `docs/RECOVERY.md:15-17`: "It first creates a new `pre-rollback` backup so the
  transition can be reversed." The backup starts the server again when it has ended (`FM:4290`), and it is stopped a step later
  (`:4291`): what users write in between is in no archive when the database is dropped. What holds: `DataIsArchived`, that some archive was
  taken in the operation.
- *Runner enabled while suspended* (`RebootKeepsSuspension`, `ForgejoManager_ops.cfg`). `docs/OPERATIONS.md:16-17`: `suspend` "disables both units so a reboot cannot
  bypass suspension". A rollback to the snapshot of a suspended installation brings the suspension back (`FM:4328-4338`) and stops the server
  (`:4384`), and leaves the runner's unit enabled if it was. What holds: `SuspensionHolds`, which does not speak of that unit.
- A repeated update after a killed one replaces the rollback snapshot by one of the mixed state. `install` from a newer
  tree takes its backup while the services run; repair checks no version. Killed in some places the manager refuses
  what would go on: after `etc` is removed in a rollback or purge, while the state root is moved away, between the
  role and `app.ini`, after a purge that leaves `/var/log/forgejo`. Killed between the creation of the administrator
  and the file that holds its password, the password is lost. A suspend killed after the units were disabled records, when
  repeated, that they were to be stopped.

### 5.7 Friend's manager

- *Rollback resumes* (`RollbackKeepsSuspension` (a), `FriendManager_ops.cfg`). `docs/UPGRADING.md:29-33`: "It preserves suspension and does not change unrelated
  services." It puts back the whole database of the snapshot (`RM:2753`, `:3097-3140`), in which the Friend may not have been suspended, and starts the service.
  For the same reason a suspension that the owner asks for during an operation that then fails is undone. What holds: `SuspensionIsKept`, of a
  suspension made before the operation, which is not a rollback.
- A failed resume that could not start leaves the suspension cleared. A suspended service is enabled and
  comes up with the host (it then refuses to act). `enable --now` does not restart a service that runs.
- A failed first installation leaves runtime, unit and service with nothing but a transaction; a failed update of a
  retained installation leaves the new runtime with the old marker. A complete uninstall leaves the sharing group,
  the log and the workspaces' parent, which the next install refuses as `UNSAFE_COLLISION`. Killed between the
  state root and the transaction, install is refused. The snapshot of the database is taken while the service runs.
  An update replaces `recovery` before it switches. A retained installation can only be installed by its own version.

### 5.8 The catalog

`products/beep/docs/OPERATIONS.md:98` calls `list` and `status` read-only; `status` records an outcome
(`family.py:717-758`), and every outcome but that of a suspension is recorded as "active". A call that exceeds its time
kills the manager and records nothing.

## 6 What is abstracted or left out

- Time. A timer is due or not; the lifecycle clock is a small number; keepalive and retention periods
  are "may happen". The minimum and maximum delays of reactivation are not modelled.
- Text. Prompts, results, audit lines, frames' contents. The class of a tool call stands for its
  name and arguments; the confirmation phrase is right or wrong.
- The model. It may call any tool, ask for any continuation, or end, at any time.
- `fsync` and power loss: a rename is durable when it returns. `conversations.db` commits whole.
- Sessions, login, upload, rendering, the system page; policy patterns; the tools' commands;
  providers, skills, audit retention: functions of their input with no interleaving of interest.
- `Rollback`: how a tree is copied and compared, ownership and modes, the symlink checks before each
  phase; a failed check is a failure of the phase. `rmtree` may leave any subset behind.
- `BridgeTurn`: what text and results say; the 60 seconds pi has to end after its last word; lines of the bridge that are
  not frames. A tool call is forwarded as the protocol allows it, although the shipped bridge never does.
- The managers: how a tree is copied, compared or owned; packages, downloads, credentials, receipts, the wording of
  plans; network health checks are "answers or not". A tree is written or removed with a half-way state where
  an interruption could be seen (Beep, Llama), in one step elsewhere. Each module's heading says what else it leaves out:
  adoption of installations older than the marker (all), backups' archives (Llama, Friend), instance identities
  (Forgejo, Friend, where no record outlives another). Recovery commands of an except clause work or fail
  once. `BeepManager` models nothing after a torn rollback: what is left is a matter for an administrator.
- Rate limits, uploads, sessions and rendering of the chat servers; Friend's chat (`friend/application.py`) but for its
  suspension; the catalog (5.8); installers and uninstallers of the core but for what they do with the lifecycle file: sequential
  scripts whose steps are those of tools that are not part of the repository.
- Beep's agent is the core's with differences in the parts modelled here: its lifecycle file is written under
  unique temporary names and locks, its turns take a conversation lock. Those parts are not modelled a second time.

## 7 Plan

Done, in order: `Reactivation` and `TimerLedger`; `Lifecycle`; `Approvals` and `ApprovalDesk`; `TurnStream`; `Rollback`;
`BeepManager`; `LlamaManager`; `ForgejoManager`; `FriendManager`; `BridgeTurn`; the proofs of section 4.

Left, in order of what it would add:

1. `FriendChat` (`friend/application.py:466-563`): suspension, history switch and deletion around the
   model call; settings probed and written.
2. `Catalog` (`family.py`): a record kept about a manager that other callers use too, a target killed by the time limit.
3. Variants for Beep's agent: the lifecycle file with its lock, the conversation lock; the properties that fail for the core
   should hold there.
4. `Delays`: the pair of minimum and maximum delay under concurrent configure requests.
5. Proofs that what a failed run of the managers leaves can be continued, as `AlwaysContinued` says of Beep's: the exceptions that
   section 5 lists would have to become part of the properties.

The number of runs is kept small: each component has one passing run (reactivation two, one of them for liveness), and what the code does not keep is
stated as a property of its module that any reader can put into that run (section 5).

## 8 Running the tools

    tlasany Reactivation.tla
    tlc -workers 2 -config Reactivation_safety.cfg MCReactivation
    tlapm Reactivation_proofs.tla

Each `<Component>_<question>.cfg` belongs to `MC<Component>`, or to the component where there is none. The largest
runs are `forgejo_manager` (3.5 million states) and `llama_manager` (2.0 million), each about a minute.

# TLA+ models of tguserbot

tguserbot is a Telegram userbot: one asyncio process that logs in as a user, loads
plugins from directories and from Git, and runs their commands and event handlers.
This directory holds TLA+ models of its core logic, the TLC runs that check them on
small instances, and TLAPS proofs of what matters most for every instance.

`PROJECT.json` is the machine-readable index: components, runs, the lines of source each
definition stands for, for every checked property a mutated definition that breaks it,
the hazards, and the theorems. Paths below are relative to the repository.

- [Inventory](#inventory)
- [Modules](#modules)
- [What the runs check](#what-the-runs-check)
- [What is proved](#what-is-proved)
- [Disagreements between code and documentation](#disagreements-between-code-and-documentation)
- [What is not modelled](#what-is-not-modelled)
- [Plan](#plan)

## Inventory

Everything runs on one event loop, so two coroutines interleave only at an `await`. What
is hard is therefore not two instructions at once but what another coroutine did during
an await, a cancellation that arrives at one (a command's time limit, the watcher's stop,
the end of the process), worker threads that a cancellation does not stop, and what is
left on the disk when the process dies.

| component | state | operations | talks to |
| --- | --- | --- | --- |
| plugin manager (`manager.py`) | `_runtimes`, `_disabled`, `_generation`, `_lock`, a lock per plugin, `_shutting_down`, the `plugin_state` rows | load, reload, enable, disable, unload, install, update, adopt, shutdown | called by owners' commands, the watcher and the app; drives plugin contexts, storage, the Git source |
| plugin context (`plugin_api.py`) | `_active`, `_stopped`, its commands and event handlers, its task group, its sandbox database | prepare, activate, deactivate, shutdown, spawn | dispatcher, task group, storage |
| command dispatcher (`commands.py`) | `_commands`, `_running`, `_cooldowns` | register, unregister, handle_event | plugin callbacks |
| task groups (`task_registry.py`) | the live tasks, `_closed` | create, cancel_all, run_uninterruptible | plugins, manager |
| rate limiter (`rate_limit.py`) | a semaphore, the last start and a lock per key | slot, wait | plugins (through the context) |
| storage (`storage.py`) | one SQLite connection per database, its lock | execute, fetch, migrate, close | everything that persists; a thread pool |
| watcher (`watcher.py`) | `_snapshot`, its task | scan, tick, start, stop | manager, the plugin directory |
| application (`app.py`, `__main__.py`) | what it has acquired, the shutdown event | start, run, shutdown, heartbeat, supervisor of the monitor | all of the above, systemd |
| Telegram gateway (`gateway.py`) | the client, the session lock, the connection flag | connect, disconnect, acquire_session_lock, monitor_connection | Telegram, other processes, `alert.sh` |
| Git source (`git_source.py`) | the fetched revisions of each plugin | fetch, copy, prune | manager, git |
| Gemini client (`gemini.py`) | a key ring, the remembered model of each router, the last finish reason of each client | generate, stream | ai and sum plugins |
| api plugin (`plugins/api`) | the tables of endpoints and models, the cursor, the pinned model, the conversation | reading a channel, validating keys, a command per medium | a Telegram channel, HTTP endpoints, ffmpeg, storage |
| ai plugin (`plugins/ai`) | the conversation | ask, generate a plugin, reset, models, list | Gemini, storage, Telegram |
| sum plugin (`plugins/sum`) | a scratch directory per command | summarise the last messages | Telegram, Gemini |
| tiktok plugin (`plugins/tiktok`) | two locks, `_temporary_dir`, a thread and a reporter per command | download a link and send its video | yt-dlp, Telegram |
| status plugin, configuration, loader, reply routing, logging | none of their own | - | - |
| deployment (`userbotctl`, `deploy/`) | the checked-out commit, the packages, the unit's state | install, update, health check, rollback | git, pip, systemd |

What makes each of them correct, and where it is hard:

- **Plugin manager.** A plugin is served by at most one generation of its code; a reload
  either takes over completely or changes nothing; nothing stays in service that the
  manager does not know of; a disabled plugin stays off, also after a restart; shutdown
  stops everything and returns. Loads, unloads, enable and disable of one plugin run
  concurrently under two kinds of locks, can be cancelled at each of a dozen awaits and
  can fail in five places, some of them inside the rollback of another failure.
- **Installing.** An update that is refused brings back what ran; the revision the row
  names is on the disk; a plugin's files are never lost. Trees are moved on the disk
  between awaits, in the order unload, move, copy, load, with the failure and the death
  of the process possible between any two.
- **Dispatcher and task groups.** A command runs once at a time per owner, a cooldown
  separates its runs, whatever the handler does with its cancellation; a stopped
  plugin has no task left.
- **Rate limiter.** Permits are neither lost nor doubled by cancellations; starts of one
  key are spaced.
- **Storage.** What a caller is told about a write is what the database holds; no
  transaction is left for the next caller. A cancelled coroutine leaves its thread behind.
- **Watcher.** What is on the disk ends up running; what the owner disabled does not;
  stop() returns.
- **Application, gateway, heartbeat.** One client per session; every way out of start()
  gives back what it acquired, in an order in which no plugin loses its services; the
  watchdog restarts a bot that is really down and only that.
- **Gemini.** An answer is one model's, and is said to be cut off exactly when it was,
  although streams break off, are retried, run out of quota, and share their client with
  a second owner's.
- **ai and api plugins.** A failed or cancelled exchange leaves no question in the
  conversation that the next one would be sent behind; what is shown is one stream of one
  model; every command says something. The question is stored before the answer is asked
  for, and five awaits later it may have to be taken back.
- **api catalogue.** No post of the channel falls between the first scan and the handler of
  new ones; a refresh applies all it read; every key that was stored is validated. Four
  kinds of tasks write the same rows, one statement at a time.
- **sum and tiktok plugins.** What the model did not get is named in a message that is not
  clipped; a status is not
  overwritten by a late report; the video is the one of the link; directories are removed.
- **Deployment.** An update that does not come up is rolled back, and every way out leaves
  a bot that runs, while systemd restarts what the script is replacing.

## Modules

Each module is named after what it models; `MC*` modules only give names to the model
values of the instances (and, for the manager, the refinement mapping).

| module | models | lines of code it stands for |
| --- | --- | --- |
| `AsyncLock` | `asyncio.Lock` and other first-come-first-served lines | external, as the code uses it |
| `PluginManager` | load, reload, enable, disable, unload, shutdown, restart; the contexts; the command table | `manager.py`, `plugin_api.py`, `commands.py`, `task_registry.py` |
| `PluginService` | the abstract specification of the manager: one attempt at a time, a take-over in one step or nothing | - |
| `PluginInstall` | install_git, update_git, install_local, pruning, restart, for one plugin | `manager.py`, `git_source.py` |
| `Commands` | handle_event, cooldowns, time limits, task groups, the shutdown of a context | `commands.py`, `plugin_api.py`, `task_registry.py` |
| `SqliteGateway` | the connection, the threads that use it, close() | `storage.py` |
| `RateLimiter` | slot() | `rate_limit.py` |
| `Watcher` | scan, tick, stop(), and the manager operations as it sees them | `watcher.py`, parts of `manager.py` |
| `AppLifecycle` | start(), shutdown(), the session lock, several processes, the alert hook | `app.py`, `gateway.py`, `__main__.py`, `alert.sh` |
| `Deploy` | the same under systemd, with the scripts that change the code beneath it (extends `AppLifecycle`) | `userbotctl`, `install.sh`, the unit |
| `Heartbeat` | monitor, supervisor, heartbeat, watchdog | `app.py`, `gateway.py`, `notify.py`, the unit |
| `ApiCatalog` | the channel, the tables, the validations, restarts | `plugins/api/_catalog.py`, `plugins/api/plugin.py` |
| `ApiPlugin` | the commands over that catalogue (extends `ApiCatalog`) | `plugins/api/plugin.py`, `plugins/api/_catalog.py` |
| `PluginCalls` | the bound on commands and the worlds the next four share | - |
| `Gemini` | the model router, generate() and stream() | `gemini.py` |
| `AiPlugin`, `SumPlugin` | their commands over a call of `Gemini` | `plugins/ai/plugin.py`, `plugins/sum` |
| `TikTok` | a link, its thread, its reporter, the two locks (over `AsyncLock`) | `plugins/tiktok/plugin.py` |
| `BundledPlugins` | the composition of the last four | - |
| `AsyncLockProofs` | proofs: lines for a lock, and lemmas about sequences the others use | - |
| `PluginManagerProofs` | proofs about `PluginManager`, and that it implements `PluginService` | - |
| `PluginFilesProofs` | proofs about `Watcher` and `PluginInstall` | - |
| `CommandsProofs` | proofs about `Commands` and `RateLimiter` | - |
| `SqliteGatewayProofs` | proofs about `SqliteGateway` | - |
| `AppLifecycleProofs` | proofs about `AppLifecycle`, `Deploy` and `Heartbeat` | - |
| `ApiPluginProofs` | proofs about `ApiCatalog` and `ApiPlugin` | - |
| `BundledPluginsProofs` | proofs about `Gemini`, `AiPlugin`, `SumPlugin` and `TikTok` as `BundledPlugins` composes them | - |

Conventions:

- An action is a stretch of a coroutine between two awaits; a variable (`proc[p].pc`,
  `op[t].at`, `call[m].at`, `at[p]`, ...) names the await at which it is parked. An
  action whose guard reads only such a place is a coroutine that goes on.
- `CONSTANT Worlds` is a set of sets of things that may go wrong together. `Init` chooses
  one member as the variable `world`, which no step changes. One run thus
  explores several combinations of faults, and a property that holds only without some
  fault says so in its own text (`"cancel" \notin world => ...`). `PluginManager` uses the
  constant `Faults` instead, because its proofs are for every combination at once.
- Fairness is a specification of its own, `FairSpec`, beside `Spec`. Modules that another
  one extends, or whose proofs share a module, call theirs `RateSpec`, `WatcherSpec`,
  `HeartbeatSpec` and `DeploySpec`.
- Operators that are mutated forms of their neighbour (a dropped guard, a missing reset)
  stand just before the definition they are a mutation of.
- Properties under the heading "what the code says of itself and does not keep" are
  claims of a comment or a document that TLC refutes. They are kept as statements; the
  ones a run checks are listed below.

### PluginManager

A coroutine of `Tasks` is an owner's command or the watcher, `App` is the one that shuts
down, and a name is the coroutine `asyncio.gather` creates to unload that plugin. A
context is named by the generation number its load was given (`PluginManager._generation`).

| place `pc` | the await |
| --- | --- |
| `row`, `mark` | reading and writing the `plugin_state` row before a load (load_local, reload_local, enable), the write of "disabled" |
| `op`, `lock` | waiting for the plugin's lock and for `_lock` |
| `import`, `prepare` | `_load_path`: the import in a thread; opening the sandbox, migrate(), setup(), start() |
| `drain`, `seal` | the old context is being shut down: its tasks, then stop() and its sandbox |
| `record` | the row "active" |
| `undo`, `undorow` | `_rollback_load` (uninterruptible), the row "failed" |
| `stopping`, `sealing`, `unrow` | `_unload_locked` |
| `quiesce`, `gather` | shutdown(): wait_idle() and the unloads |

The swap (deactivate the old context, activate the new one) has no await and is one step. A
load that fails or is cancelled goes through `undo`; whether the old context is put back
depends on `back`, exactly as `old_deactivated and not old_restored` and the old context's
`_stopped` decide it. An enable() of a Git plugin that finds nothing to load
(`EnableGivesUp`: no row, not from Git, or no staged directory, the fault "gone") puts the
name back into `_disabled` and leaves the row as it was; `reverted` remembers those names,
since a name may so be disabled without a row that says it. `Restarted` ends the process in
any state; only the rows survive.

`PluginService` is what the manager promises to its users. The mapping takes `serving[n]`
to be the one active context of `n` and a load to be an attempt from the moment it has a
generation until its context was activated or dropped. Every one of the many steps of a
reload maps to a stutter except the one that activates, so a reload is a take-over without
a gap, or nothing.

### PluginInstall

One plugin, with the trees that may hold it: the revisions fetched from Git, the installed
directory, the backup an adoption moves aside, and the shipped directory. A version is a
number; `Broken` versions do not load. A load is one step here: `PluginManager`
refines `PluginService`, which is where that is shown. The process dies at most once in a
behaviour, because each further death during an adoption may nest backups and only the
first level is represented.

### Commands

Each message is a task. Up to its first await handle_event() refuses it (already running,
in its cooldown) or claims its key, in one step. A callback ends, raises, is cancelled by
its time limit or by a shutdown, or swallows the cancellation and is late. Contexts are
replaced by a next generation while callbacks of the last one are still running: the
deactivation does not wait for them, which is what `StoppedMeansStopped` and
`KeysHeldByRuns` are about.

### SqliteGateway

The coroutine takes the lock, hands the operation to a thread and waits. Cancelling it
gives the lock back while the thread goes on: calls to `execute`, `commit`, `rollback` and
`close` of SQLite's connection are the thread's steps, and are atomic because the module
`sqlite3` serializes them. `open` are the writes of the current transaction, whoever made
them, `durable` the committed ones.

### RateLimiter

The two first-come-first-served orders, of the semaphore's waiters and of the remembered
keys (`OrderedDict.move_to_end`), are lines of `AsyncLock`. `given` is history: all starts
reserved for a key since it is remembered. The clock may be late, so a woken sleeper can
start after its slot.

### Watcher

Contents are numbers and a stamp stands for size and times of files. The scan looks at one
directory at a time while it is edited; its digest may be read after a further edit.
Operations of the manager are three steps: begin (with the checks of load_local and
reload_local), import, end.

The owner's command is told in `asked[n]`. disable() puts the name into `_disabled` with its
first step (`off`) and then waits for the manager's lock, so the operation under way - or
one that hangs - may have the plugin running for as long as it holds it; its unload is a
later step, and only then is the plugin in `down`. enable() takes the name out, loads, and
may fail or be cancelled by the command's time limit. One owner's commands for a plugin are
one at a time (`commands.py:326`).

### AppLifecycle and Heartbeat

A process is the step of start() or shutdown() it is in and the set of what it has
acquired. Steps of start() fail or are interrupted by SIGINT anywhere, and shutdown() may
itself be interrupted and called again. An interrupted acquisition of the lock is taken to
leave the lock free: the file object of the worker thread is dropped with its result.

`loading` are the processes in which an owner's command is in the middle of a load. The step
of shutdown() that unloads waits for it if anything is published (world "owner"). Otherwise
`manager.shutdown()` returns at once (`manager.py:980-982`), or it gives up after
wait_idle() (987), does not count the enable() of a Git plugin, or raises, which
`app.py:166` suppresses: then client and storage are taken while the load goes on and
publishes (world "late", `UnloadGivesUp`).

Heartbeat counts ticks of five seconds. Timers that are due fire before time goes on,
except while a call blocks the event loop (`wedged`), which returns at any tick or never. When it
returns, all timers that expired meanwhile are due at once; the loop runs what is due in
some order, but nothing a second time before the rest had a turn, which is what `passed` remembers.

### Deploy

One process of `AppLifecycle`, `Main`, is the unit's: in the worlds with "deploy" its steps
are `StartStep`, `ShutdownStep` and `Exit` of that module (all of them `MainMoves` in the
proofs), started by `Launch`, ended by SIGTERM or by the code it was started with. `tree`
and `deps` are what APP_DIR and the .venv hold, `booted` what the process was started with:
the old code comes up, a half-pulled tree does not, the new code does unless "broken" is in
the world. `script` is where update_code(), rollback_and_start() or install.sh is; each
command of it is a step, which fails or not, and so is the health check, which reads the
unit's state while systemd may restart it. The start limit is a counter that an interval
empties. READY=1 is sent when start() is over. `notifier.reset()` sends "RESET=1", which is
no field systemd knows: it is taken to have no effect. In the world "unreset" git checkout or
git reset of the rollback fail, which `userbotctl:307-312` swallows: it goes on with the new
tree, or with one that is half written, and starts that.

The patch that keeps uncommitted fixes before `reset --hard` is not modelled, and a script
that is killed may leave the unit stopped (`told = "killed"`).

### ApiCatalog and ApiPlugin

A post is its message id, keys and models are their places in the orders the code sorts
them in. `ingest[w]` is whoever writes posts - the handler of a live post, the first scan
of `_bootstrap()`, the refresh - with the place of the statement it is at: looking the
endpoint up, inserting it, marking a model, reading and advancing the cursor. `probe[s]` is
a validation that holds a slot of the semaphore, `queue` those that wait for one. A death of
the process (`Restart`) keeps the tables and the updates that were not delivered.

| place of a command `req[r].at` | the await |
| --- | --- |
| `candidates`, `remember` | the tables, and the question into `history` |
| `show`, `stream` | the placeholder; the HTTP stream of `cands[tried]`, retried on the next one |
| `finish`, `keep`, `forget`, `delete`, `footer` | the end of a stream, the answer into `history`, or what undoes the question and the placeholder |
| `say`, `error` | a message; the one of `_command()` about an exception |
| the others | downloading, ffmpeg, the models for each role, the subcommands |

Whether a cancellation falls inside the try of `_chat()` is `CancelledInside` or
`CancelledOutside`: only the first tidies up. A cooldown does not expire within a
behaviour. Simplified, since no property depends on it: the 120 s of a failing server
overwrite the 6 h of a refused key, and the reasoning of several candidates may be joined.

What the modules show of the code, beside their properties: a crash during the first scan
leaves the rest of the backlog unread, since the cursor is set by the first post that was
stored and the next start does not scan (`plugins/api/plugin.py:242`; `NoPostMissed` is
about starts that are not interrupted). The handler is registered by a task of setup(),
so catch_up() (`app.py:120`) may deliver an update before it (`Lost`). Two tasks that insert
one key collide on UNIQUE: the scan ends there, a live post loses its models (`Inserts`).
mark_checked() writes the verdict before the models. A model that is not in the table yet
is not cooled. A failure of ffmpeg or of Telegram leaves the placeholder of a medium, and
a thread of ffmpeg that outlives its command may write beside the removal of its
directory.

### Gemini, AiPlugin, SumPlugin

`call[c]` is a routed call: the models it has not asked yet, the attempt, the attempts that
gave text, and how the stream ended. `active` and `last` are the router's: all calls of a
router share them, which is what two owners' streams disagree about. Keys are not told
apart: a refused or spent key is the refusal of the request. Only a spent quota moves the
chain on; a transport error or a broken stream opens the same model again.

`cmd[c]` is a command of the ai plugin at one of its awaits: the question is stored
(`remember`), the placeholder shown (`show`), the stream read (`stream`), its last edit made
(`Finishes`), the answer sent, and then kept or taken back. `sum[c]` is a summary: the
window is read, attachments are downloaded newest first within the two limits, read from the
scratch directory in a thread, and sent. A size of 0 is a download that failed. The progress
editor's edits and the window of the conversation that is sent are left out, and so are the
modes "pro" and "fast": each has a router of its own (`ai/plugin.py:234-240`) over the same
code.

Both plugins answer through `CommandContext.respond()`, which clips a message to 4096 UTF-16
units, from its end (`Clip`): a message is `whole`, says it is `cut`, or is `clipped`, and then what
stood at its end - ai's notice that the answer was cut off, sum's list of what is missing - is gone.

### TikTok

`link[c]` is a command, `thread[c]` its `_download_sync()`, `reporter[c]` the task that edits
the progress. `queue` is `download_lock`, `turns` is `progress_lock`, in which the command
and its reporter alternate. The thread of a cancelled command goes on, outside the lock it
was started under; since all threads write `_temporary_dir`, one may then read the next
one's (`target` and `out`). A cancelled mkdtemp leaves its directory. `_await_reporter()`
takes a cancellation for the reporter's own and goes on to the upload. The reporter's first
edit repeats the "0%" that is shown already if nothing was downloaded yet; Telegram refuses
an edit that changes nothing, and the reporter ends: progress may then never be shown.
`asyncio.Event.set()` is called from the hook's thread, which asyncio does not promise to
wake its waiters; the reporter looks at the event at its next tick in any case.

### BundledPlugins

A world with "sum" or "tiktok" is about that plugin, the others are about ai. The
ai and sum plugins have routers of their own, so that a behaviour with both is a product of
two; what they share is `Gemini`, and the composition interleaves the commands of one with
the attempts of their calls.

## What the runs check

| run | instance | checks | distinct states |
| --- | --- | --- | --- |
| `manager_git` | one Git plugin, two callers, shutdown, three loads; plugins fail or are gone, the process dies, shutdown gives up waiting | `DisabledStaysDown`: a plugin that was disabled stays down and recorded; `OperationsReturn`: calls and shutdown return; `RefinesPluginService` | 117 k |
| `manager_two_plugins` | two local plugins competing for one command, two callers, three loads | `Served`: a published plugin is in service; `CommandsOwned`: the command table is exact; `ShutdownStopsAll` | 2.16 M |
| `manager_faults` | one plugin, all faults together, also cancellations and failing writes | `NoZombie`, `OneGeneration` | 1.24 M |
| `plugin_installs` | eight worlds of a Git or an adopted plugin, four versions (one broken), four commands | `RecordedRevisionIsStaged`; `FailureRestores`; `WorkingCopyKept` | 606 k |
| `command_calls` | four messages, three owners and two remembered cooldowns; or one owner and two generations with two background tasks | `KeysHeldByRuns`: one run at a time, and keys are given back; `RunsSpaced`; `StoppedMeansStopped`; `CallsEnd` | 476 k |
| `gateway_calls` | two callers and close(), four operations, statements that fail or callers that are cancelled | `AcknowledgedIsDurable`; `CloseLosesNothing` | 267 k |
| `rate_slots` | three callers, two keys, two permits, one remembered key, four calls | `PermitsAccounted`; `SpacedStarts`; `EveryCallRuns` | 264 k |
| `watcher_ticks` | two plugins, three edits, a broken version; an owner who disables; then also enable, stop, hanging operations, undone and early edits, one command per plugin | `Converges`: what is on the disk ends up running; `DisabledStaysDown` | 2.41 M |
| `app_processes` | two processes, three starts, two SIGINTs, deaths, the alert hook; or one process under systemd with an update or an installation of good, broken or flaky code, other dependencies, a script that is killed and a rollback that git refuses; or the owner's loads, also late ones | `SingleWriter`: one client; `PluginsHaveTheirServices`; `StartsAndShutdownsEnd`; `UpdateLeavesABot` | 110 k |
| `heartbeat_unit` | the real numbers: poll and retry 5 s, heartbeat 10 s, grace 180 s, watchdog 60 s; calls that block the loop for a while or for good | `NoVouching`: no ping for what is not seen; `OutageRestarts`: an outage or a wedge restarts | 919 k |
| `api_plugin` | eight worlds: two posts with two keys and three models, one refresh, one restart, keys that do not answer; or two commands on a filled catalogue, cancelled or refused by Telegram | `RefreshApplies`; `NoPostMissed`; `EveryKeyIsChecked`; `ContentOfOneStream`; `NoDanglingQuestion`; `CommandsAnswered` | 165 k |
| `bundled_plugins` | fifteen worlds of two commands: no key, busy, quota, broken streams, cancellations, refused messages, two owners; summaries; two links | `OneModelAnswers`; `TruncationSaid`; `FailureLeavesNoTrace`; `NothingOmitted`; `MessageTellsOutcome`; `AsksEnd` | 274 k |

Each module defines its type invariant (`TypeOK`, `RateTypeOK`, ...). Those of
`PluginManager`, `PluginInstall`, `Watcher`, `Commands`, `RateLimiter`, `SqliteGateway` and
`Heartbeat` are theorems. The others declare the types for the reader, and the proofs carry
the part of them they need; the runs spend their properties on behaviour.

Every invariant and every action property of the runs is a theorem as well, and so is the
refinement: see [What is proved](#what-is-proved). The rest of the table is liveness.

### Why the bounds are enough

- *Three loads* (`MaxGen`) are the least with a published generation, one being replaced by
  it, and a further load queued behind; *two callers* and the shutdown are two waiters in
  the line of a lock beside its holder. Each plugin registers either nothing or the one
  command both want, which is the conflict in which activate() fails half-way.
- `PluginInstall`: four versions with Keep = 2 make pruning remove one while an older is
  in use (a rollback), and leave one version beyond the broken one; four commands are an
  installation, a refused update, a rollback and one more, or two adoptions
  and a disable and enable.
- `Commands`: three owners and two remembered cooldowns make the map overflow by the
  least; a fourth message is the one that comes back after its key was forgotten.
- `SqliteGateway`: four operations are one per caller, one queued behind the other's
  abandoned thread, and close().
- `RateLimiter`: one more caller than permits, one more key than is remembered, one call
  more than callers; the clock reaches the second reservation of a key and one beyond.
- `Watcher`: three edits make a directory appear, change and disappear, or two
  directories change within one tick, with the broken contents as the last or the middle
  of three. A command of the owner per plugin is one that meets each of the watcher's
  operations on it, begun, hanging, or still to come, on either plugin.
- `AppLifecycle`: the third start is the one after both processes were used; the second
  SIGINT is the one that interrupts shutdown().
- `Deploy`: `Burst` is the unit's 5; with the start of the owner, the start of the new code, its
  restarts and the start of the rollback it can be reached, which is the case
  rollback_and_start() resets it for.
- `Heartbeat`: the numbers are the program's own, and a ping vouches for a connection seen
  at most 195 s ago in a loop that was never blocked (`Vouched`), and 305 s otherwise
  (`VouchedBlocked`: a call may block the loop for almost the watchdog's limit just before
  the monitor's turn, and again before the heartbeat's). That a short outage costs no
  restart holds for one outage only, since the heartbeat samples every ten seconds; it is
  not a property here.
- `ApiCatalog`: two posts are the one the first scan reads and the one that is published
  beside it, and they may offer one key or two; two keys are two validations at
  once, three models one for each role; one refresh meets the live handler and the scan;
  after one restart every statement of a scan has been cut off once.
- `ApiPlugin`: two commands are a failed one and the next in the same conversation, two
  attempts a failing candidate and the next one; three rows of history make a trim take
  a question and leave its answer.
- `Gemini`: chains of up to three models have a first, a middle and a last, two attempts
  are a try and its retry; the second call of a router finds a model remembered.
- `SumPlugin`: three attachments of sizes up to 3 against 2 for a file and 3 for all: too
  large alone, too large for the rest, and one that fits after one that did not.
- `TikTok`: the second link waits for the first, or follows its abandoned thread.

`CHECK_DEADLOCK FALSE` is said wherever calls, edits, boots or time are bounded: when the
bound is used up and everything has returned, nothing is left to do. `manager_git`,
`manager_two_plugins` and `manager_faults` are checked for deadlocks.

### Fairness

Weak fairness of steps the runtime takes by itself, and of nothing else: the event loop runs
a coroutine whose await is over, worker threads finish their call, time limits of the code
(`asyncio.wait_for`, `asyncio.timeout`, budgets of cancel_all and wait_idle) expire, and
systemd restarts what dies and watches what does not. A request of the Gemini client or of
the api plugin has a timeout, so a stream ends or breaks, and yt-dlp has one too; an update
of the channel that can be delivered is; the manager's lock comes to the owner's command in
its turn, and an owner's load ends; the commands of a deployment script end. Nobody has to
issue a command, edit a file, send a signal, fail, cancel or die, a call that blocks the
event loop need not return, and the reporter of a download need not have anything new to
say. A callback of a plugin need not return (its time limit expires instead), and a task
that swallows its cancellation need not end (`CallsEnd` says what remains true then). In
`PluginManager` imports and database statements are assumed to return: an import that hangs
would hold `_lock` for ever, since the code has no time limit there. In `Heartbeat` the
fairness of the tasks is strong: calls that block the loop over and over do not keep it from
what is due in between, because asyncio runs all that is ready before it looks for more.

## What is proved

For every value of the constants, from the assumptions named in the modules, which TLC
evaluates in the runs. They say what the code guarantees or what a constant is: numbers are
numbers, `Owner` is one of the senders, names, callers and the app are told apart; the
plugins of the watcher are finitely many; `install_git()` refuses the name of a plugin of
the shipped tree (`InstallAssumption`); a router asks each model of its chain once
(`GeminiAssumption`), and the answers of the ai plugin are streamed (`AiPluginAssumption`).

Each theorem follows from an invariant that is inductive: the initial states have it, every
action keeps it, and it implies the property. Proofs have a lemma for each kind of action;
actions that touch nothing an invariant speaks of share one. A step lemma is stated without
temporal operators, and the theorem combines them by `PTL`.

### PluginManagerProofs

| theorem | property | of which faults |
| --- | --- | --- |
| `TypeCorrect` | `TypeOK` | all |
| `ZombieFreedom` | `NoZombie` | all |
| `SingleGeneration` | `OneGeneration` | all |
| `TableExact` | `CommandsOwned` | all |
| `ServiceContinuity` | `Served` | `OnlyPluginsFail` |
| `DisableIsFinal` | `DisabledStaysDown` | `OnlyPluginsFail` |
| `ManagerRefinesService` | `RefinesPluginService` | `OnlyPluginsFail` |
| `ShutdownIsComplete` | `ShutdownStopsAll` | all but "slow", no Git plugin |

for any number of plugins, callers, commands and loads. `OnlyPluginsFail` leaves out a
caller that is cancelled and a write of the core database that fails, for which the three
properties do not hold: `RollbackKeepsManagerConsistent` below is one such behaviour. It
keeps failing plugins, conflicts over a command, a shutdown that gives up waiting, and
restarts. "slow" is that giving up, after which shutdown() promises nothing; a Git
plugin's enable() is not counted by `_inflight`, so that shutdown() does not wait for it.

NoZombie is not inductive: a step of the load that holds `_lock` keeps it only because its
locals still describe the published context, nobody else holds `_lock`, and its new
generation is in no other place. `IInv` says so in five parts:

1. `LockInv` - the line for `_lock` is ordered, the coroutines in it are those whose place
   is inside or in front of `async with self._lock`, and those inside hold it. With
   `OneHolder` (AsyncLockProofs) this is mutual exclusion of all steps of `_load_path` and
   `_unload_locked`.
2. `AppInv` - the shutdown coroutine is never inside the lock, and the unloading
   coroutines exist only after it has got to gather().
3. `TargetInv` - whoever works has a plugin to work on.
4. `ContextInv` - published contexts bear the name they are published under; no context
   is newer than the counter.
5. `LoadInv` - per place, what the locals `old` and `new` are: `old` is what is published,
   `new` is the newest generation, published nowhere, in service only between the swap and
   the publication; once `undo` is reached, `new` is out of service.

The rest is built on it:

- OneGeneration: two contexts of one plugin in service would be the published one and the
  one being swapped in, and between swap and publication the published one is out of service.
- `Served` needs `ServedInv`: a published context is in service, or a load has its own in
  service in its place (`PublishedInv`), and no rollback has anything to put back
  (`RollbackInv`).
- `DisabledStaysDown` needs `GoesDown`: a disabled plugin is down and its row says so, or a
  disable() will see to it, because each load that looked at `_disabled` before it is ahead
  of it in the line for `_lock`. Names that only a failed enable() put back (`reverted`) are
  excepted: nothing writes their row. The property is about the moment nothing works on
  the plugin; the invariant is about all the moments before.
- `ShutdownStopsAll` needs `CountedInv` (`LoadsAreCounted`) and `ShutdownInv`: once
  wait_idle() is over no load is left, none can begin, and each published plugin has an
  unload of its own.
- The refinement maps serving to the active context (`ServedBy`) and the attempt to the
  coroutine that holds `_lock` before its swap (`UnderWay`). One lemma per kind of
  action shows a step of PluginService or a stutter, from all of the above.

### PluginFilesProofs

*Watcher.* `WatcherKeepsDown` says that from the return of disable() on nothing of the
plugin runs, until it is enabled again. It is inductive with `Marked` (a plugin in `down` is
in `_disabled`) and `Obeys`: an operation that is under way on such a plugin has looked at
`_disabled` after it was marked, so that it loads nothing - the ones that looked before held
the lock, and disable() waited for them, however long they hung. `WatcherTypes` needs that
the operations of a tick are for different plugins, which `DifferencesAre` shows of
`Differences`.

`SeenIsRunning` is the safety of `Converges`. That property fails only if the watcher
believes it is done and is not; `SeenRuns` says that it never does, and `GoesDown` the same
of what the owner disables: after the first scan, an enabled plugin for which no operation
of the tick is left runs what its entry in the snapshot says, as long as that is still what
the directory holds and loads, and does not run if the entry is gone. `SeenInv` adds what a
pending operation will do (`Fits`), what the one under way has imported (`Loads`), and that
an edit brings contents nobody has scanned (`Numbered`), so that what was not seen is seen
later. What is left to liveness is that ticks go on. It is for the worlds of `Converges`:
the watcher alone with the directory and an owner who disables.

*PluginInstall.* `InstallTypes`, from `Shaped`: per place of a command, what it has fetched,
staged, moved or remembered. Then

- `RevisionStaged` (`RecordedRevisionIsStaged`): `RevisionsHeld` carries, per place of the
  command, that the revision it will record and the one it will go back to are staged, through
  pruning, which keeps the one that is passed to it. For one owner: with two, one prunes
  what the other just went back to.
- `FailuresRestore` (`FailureRestores`): `RevisionsHeld` and `Undone` say which tree each place
  of a failing command goes back to and that it is whole.
- `CopyKept` (`WorkingCopyKept`): `FilesHeld(ran)`, once a version ran a whole one is
  installed, or aside with a command that brings it back. The property's conditions
  are those without which TLC finds the files lost: two owners adopting at once, a
  cancellation between two moves, and a death on top of a failing disk. The process dies at
  most once in a behaviour; a second death during an adoption may nest backups.

### CommandsProofs

- `KeysExact` (`KeysHeldByRuns`): a message claims a free key, keeps its own or gives it back.
- `NoTaskLeft` (`StoppedMeansStopped`), inductive with `ClosedFirst`: a task group is closed
  before its context is anywhere in its shutdown, so that no task is spawned behind
  cancel_all().
- `RunsApart` (`RunsSpaced`), from `ClaimedSince`: a run begins no later than the claim that is
  remembered of its key, and what is forgotten is forgotten of both.
- `CommandTypes` (`CommandsTypeOK`), with `RememberedInv`: `_cooldowns` has each key once and never
  more than its maximum; move_to_end() and popitem() are shown for every sequence without
  duplicates (`MoveFacts`).
- `RatePermits`, `RateCapped`, `RateTypes` from the invariant that types, the line of waiters
  and the count of permits agree, with the cardinality of the holders moved by one in each
  direction (`TakesPermit`, `GivesPermit`); `RateSpaced`, from `LatestRemembered`: the last
  start remembered of a key is the latest of all it was given.

### SqliteGatewayProofs

`AnswersTrue` (`AcknowledgedIsDurable`), `CloseIsLast` (`CloseLosesNothing`) and
`GatewayTypes`. The invariant has five parts beside the types:
`LineInv` (the line for the lock is the users inside of a call, each of its own operation),
`ThreadInv` (unless callers are cancelled, a thread at work belongs to the user that holds the
lock), `KeptInv` (a write that succeeds is committed), `UndoneInv` (one that fails is not, and
what is in the transaction is of the thread at work) and `ToldInv` (a caller was told what its
thread found). From the second follows `OneAtWork`, which the properties need in the worlds
without cancellations.

### AppLifecycleProofs

- `OneSession` (`SingleWriter`) and `ServicesKept` (`PluginsHaveTheirServices`), for any
  number of processes, with or without a unit (`DeploySpec`). The invariant says, place by
  place, what start() and shutdown() have acquired there (`Fits`), and that the session lock
  has one owner; plugins are there only beside a client and a database, and a client, unless
  connect() fails half-way, only beside the lock. A load that is under way when shutdown()
  unloads is waited for (`LoadsFit`), except in the world "late", which
  `PluginsHaveTheirServices` leaves out and `NothingLoadsAfterUnload` below is about. Every
  step of `Deploy` moves `Main` as `AppLifecycle` allows.
- `PingsAreBacked` (`NoVouching`) and `HeartbeatTypes`, for all values of the periods: the age
  of what the heartbeat goes by is bounded by the timers under way - the monitor's while the
  flag is up (`FlagInv`), the heartbeat's until it notices that it is down, and by
  `disconnected_since` from then on (`DownInv`). Once the loop was blocked the same parts hold
  with what a blocked call adds to each, at most the watchdog's limit, since after that there is no
  process to ping (`LateInv`, `LateDownInv`).

### ApiPluginProofs

- `RefreshesApply` (`RefreshApplies`): `RefreshInv` says of each place of the refresh what of
  the posts read so far is in the tables, down to the mention it is at, and `Grow` that
  nobody else's statement takes anything of a post out again: handler, first scan,
  validations, commands.
- `ContentIsOneStream` (`ContentOfOneStream`): in `CommandsInv`, content is of the stream
  under way while there is one, of one stream for ever after, and a next candidate is
  asked only while there is none.
- `QuestionsSettled` (`NoDanglingQuestion`): `QuestionsInv` says that an unanswered question is the
  newest row and of a command at a place that will answer it or take it out (`Pending`), or of one
  that was cancelled outside the try of `_chat()`. Trimming needs that rows go in order.
  One owner is one command at a time (`Sequential`).

### BundledPluginsProofs

- `AnswersOfOneModel` (`OneModelAnswers`): text of a call under way is of the model it asks now
  (`OneSource`), since a chain is given up once a piece is out; for every chain, number of
  attempts and calls.
- `FailedExchanges` (`FailureLeavesNoTrace`): `Traces`, as in the api plugin, and the placeholder
  with it.
- `TruncationTold` (`TruncationSaid`): `Told`, the router's last reason is the call's own
  from the end of its stream until its message is out, because nobody else's call is under
  way. It is about answers that fit one message with their notice.
- `SummariesNameOmissions` (`NothingOmitted`): `Accounting`, each attachment is still to come, kept,
  or named as missing, and so is a transcript that was cut, in every summary that fits
  one message; and what is kept fits the budget (`Budgeted`, over a sum of a
  function of any finite domain); the scratch directory is there as long as it is read.
- `MessagesTell` (`MessageTellsOutcome`): `Outcome` says what the message shows at each place and
  that the reporter is over before the last status; without cancellations `Loading`
  says that the thread at work is the command's own that holds `download_lock`, which is why
  the one `_temporary_dir` serves all, and `Final` what stands at the end.

### AsyncLockProofs

Joining and leaving a line keep its type and order; there is one holder; who holds keeps
holding until it leaves. And what the others need of sequences: removing and appending an
element keeps the type and the absence of duplicates.

### Only model-checked

- Everything with fairness: `OperationsReturn`, `CallsEnd`, `EveryCallRuns`, `Converges`
  (its safety is proved), `StartsAndShutdownsEnd`, `UpdateLeavesABot`, `OutageRestarts`,
  `EveryKeyIsChecked`, `NoPostMissed`, `CommandsAnswered`, `AsksEnd`. Liveness and ENABLED are
  beyond the prover.
- The type invariants of `PluginService`, `AppLifecycle`, `Deploy`, the api plugin and the
  modules of `BundledPlugins` were checked by TLC on the instances of the runs and are not
  theorems.

## Disagreements between code and documentation

Stated at the end of the modules and refuted by TLC. No run checks them; each is one
`INVARIANT` or `PROPERTY` away.

| statement | claim | what happens |
| --- | --- | --- |
| `PluginManager!RollbackKeepsManagerConsistent` | `manager.py:472` | a load cancelled after the old context was stopped leaves it published |
| `PluginManager!NothingLoadsAfterShutdown` | `manager.py:978` | shutdown() looks at the runtimes before it waits for loads under way |
| `PluginManager!ServingContextsCanSpawn` | `plugin_api.py:299` | an interrupted shutdown has closed the task group of a context that is put back |
| `PluginManager!EnabledIsRemembered` | none | load_local() writes "disabled" from a check made before an await |
| `PluginManager!DisabledIsADecision` | `manager.py:650-651`, "because that is a decision rather than an observation" | an enable() that finds nothing to load disables the plugin (554), whatever its row says |
| `PluginInstall!FailedReloadKeepsPrevious` | `README.md:199` | update_git() catches Exception, a cancellation is none |
| `PluginInstall!RunningRevisionKept` | `README.md:208` | with two owners, one prunes what the other just went back to |
| `PluginInstall!RestartRuns` | none | a refused update is recorded until the old revision was loaded again |
| `RateLimiter!KeyLocksBounded` | `rate_limit.py:9` | only one of the two maps is trimmed |
| `Watcher!CancelOnlyAfterBudget` | `watcher.py:136` | wait_idle() returns between two operations of one tick |
| `AppLifecycle!OneClient` | `gateway.py:202` | connect() that fails gives the lock back with its client connected; the alert hook goes on without it |
| `AppLifecycle!NothingLoadsAfterUnload` | `manager.py:978`, "Authoritative: nothing loads after this returns" | with nothing published shutdown() returns at once, whatever is being loaded |
| `SqliteGateway!OneThreadAtATime` | `storage.py:122`, "One serialized SQLite connection" | a caller cancelled by its time limit gives the lock back while its thread uses the connection; the next operation runs inside the same transaction |
| `PluginInstall!FailedInstallCostsNothing` | `manager.py:937` | the unload, the move and the copy come before the `try` that undoes them |
| `Gemini!OneAttemptAnswers` | `gemini.py:834-837` | a stream that breaks off is opened again, behind the text that is already out |
| `AiPlugin!ReplySaysSo` | `plugins/ai/plugin.toml:41-42` | respond() clips a message at its end, where the notice stands |
| `SumPlugin!EveryOmissionNamed` | `plugins/sum/plugin.py:10-13` | the same: compose() puts the list of what is missing after the summary |
| `AiPlugin!NoTraceEver` | `plugins/ai/plugin.py:409` | a cancellation outside the try leaves the question or the placeholder; so may a refused message or a second owner |
| `AiPlugin!QuestionsQueue`, `ApiPlugin!QuestionsQueue` | `plugins/ai/plugin.py:353-354`, `plugins/api/plugin.py:410` | a slot of the rate limiter spaces the starts and nothing more: two owners race one conversation |
| `AiPlugin!TruncationNeverMistaken` | `gemini.py:319-322` | the reason is the client's, a second stream of the router overwrites it |
| `ApiPlugin!CooledKeysAreLeftAlone` | `plugins/api/_catalog.py:13` | the candidates are read once: a command goes on with the other models of a key it has just cooled |
| `TikTok!DownloadsSerialized`, `OwnVideo`, `ScratchGoes` | `docs/tiktok-plugin.md` | the thread of a cancelled command outlives the lock and shares `_temporary_dir` with the next; a cancelled mkdtemp leaves its directory |
| `Deploy!NoLiveBotSeesAPull` | `tests/test_deploy.py` | a unit that failed its start is about to be restarted while git reset writes; install.sh takes a starting unit for none |
| `Deploy!EveryFailureLeavesABot` | `userbotctl:278-279` | git checkout and git reset of the rollback may fail unseen: the new code is started again |
| `Deploy!RollbackRestoresDependencies` | `userbotctl` | the rollback installs the project, not the old requirements.lock |
| `Deploy!GoodUpdateStays` | `tests/test_deploy.py` | the start limit is cleared before the start of the rollback, not before that of the new code |

`ShutdownStopsAll` is checked for local plugins: enable() of a Git plugin loads outside of
`_operation()`, and wait_idle() does not see it. The unit says of the 180 s of
`DISCONNECT_GRACE` that they "must stay below WatchdogSec", which is 60 s, and `app.py:36` says
the opposite: the model uses both numbers as they are.

## What is not modelled

- Parsing, validation and formatting: manifests, configuration, posts of the channel, the
  messages of commands, the loader's review of a plugin's source, the SQL guard, log
  redaction, the status view. They are functions of text; their interleavings are none.
- Telethon and Telegram: reconnecting, flood waits, delivery of updates except where the
  catalogue depends on it. The client is a connection that is up or down.
- The import of a plugin: a version loads or does not. An import has no time limit and runs
  under `_lock`.
- Reply routing (`topics.py`, `messaging.py`): no state. Its fallback repeats a reply without
  the topic when the first call failed, so that a reply whose answer was lost may be sent
  twice.
- initialize() and migrate() of the databases: a sequential list of statements that may all
  run again, with the version written last; nothing runs beside it.
- run_uninterruptible() gives up after eight cancellations; the models cancel a coroutine
  less often.
- Of plugin contexts: a command registered after setup, which stays in `ctx._commands` if
  the dispatcher refuses it; a connection that is leaked when the creation of a sandbox
  database fails.
- Of Gemini: the key ring and the rotation over it, the length of waits, list_models(); of
  the ai plugin the progress editor and the window of history (which `plugin.toml` counts in
  turns); the file of a generated plugin is written in one step, though write_plugin() is
  not atomic.
- Of deployment: userbotctl's setup, auth, logs and health views and the first installation,
  which run before there is anything to interleave with. install.sh runs under `set -e`
  and leaves the unit stopped where one of its commands fails: that is modelled.

## Plan

All components with state of their own are modelled and checked, and all their safety
properties are proved. What is left:

1. The safety of the liveness properties, as `SeenIsRunning` is that of `Converges`:
   nothing is ever in a state from which no step leads where the property wants it.
   `EveryKeyIsChecked`: a key that is stored and unchecked is in the queue, in a probe, or
   still to be queued by whoever stored it. `NoPostMissed`: a published post is stored, before a
   scan or in an undelivered update. `UpdateLeavesABot`: a script that is over leaves a unit
   that runs or that systemd will start.
2. The types of `AppLifecycle`, `Deploy`, `ApiPlugin` (with the bound on the rows of the
   conversation) and of the modules of `BundledPlugins`.
3. The bound on the keys the rate limiter remembers, which needs that a line of finitely many
   has a first.

# Unifideck: a verification project in TLA+

Unifideck is a Decky plugin for the Steam Deck: a Python backend of one asyncio
event loop that syncs the game libraries of several stores into Steam, installs
games, and runs them; and a React frontend that polls it over RPC. This directory
models the parts of the backend where steps of several actors interleave, checks
them with TLC and proves part of what is checked with TLAPS.

Paths below are relative to `src/py_modules/unifideck/` unless they begin with
`src/`. `PROJECT.json` maps every definition to its lines.

1. [Inventory](#inventory)
2. [Modules](#modules)
3. [Runs](#runs)
4. [Fairness](#fairness)
5. [Proofs](#proofs)
6. [What the model leaves out](#what-the-model-leaves-out)
7. [Findings](#findings)
8. [Plan](#plan)

## Inventory

### Execution model

All services are objects of one process. RPC calls, bus handlers and background
tasks are coroutines of one event loop: a step is what runs between two awaits.
Three things leave the loop: blocking file work (`asyncio.to_thread`), the bus's
handlers that are plain functions (a thread each, under a 60 s timeout), and the
launcher, a process of its own. A `CancelledError` is thrown into a task at the
await it is suspended in, and before the first step of the task if it has not had
one. Persistence is by JSON files, replaced by write, fsync and rename. The plugin
process can end at any moment: Decky restarts it independently of Steam.

### Components

| component | state | operations | talks to | hard behaviour | correct when |
|---|---|---|---|---|---|
| Download queue `services/download/` | `_queue`, `_running`, `_running_tasks`, `_finished`, the queue file | add, cancel, start, stop, worker poll, install | stores (install), bus (events), file threads | add and cancel around the worker's awaited save; cancellation at every await; crash between pop, save and spawn; saves that overlap | keys unique, cap kept, slots freed, one verdict per item, nothing accepted is lost, pending items served |
| Queue persistence `services/download/persistence.py` | the file, the temporary file | save, load | the file system | concurrent saves share the temporary path; I/O errors; crash | a lone save replaces the whole file or nothing |
| Library sync `core/sync_*.py` | `_lock`, `_pending_request`, `_cancel_event`, `_all_games` | sync_all (plain, forced), cancel, install-state handler, single-store sync | stores (fetch), bus, caches | merged requests, cancel against the last fetch, install during a sync, store timeouts | requests served, a cancelled run replaces nothing, the library agrees with the disk |
| Post-sync phases `services/metadata_service.py`, `services/artwork/`, `services/compatibility/`, `core/sync_finalize_mixin.py` | the pending set, the tracker, one task per phase | start by the event before, end, cancel, watchdog | each other through the bus | ends of an older run, tasks replaced at work, cancellation that swallows an end | the bar settles, complete means idle, cancelled stays |
| Backfills `services/{size,metadata,pcgw}_backfill.py` | a task and a cache each | spawn, stand down, resume | stores, sync | the walk must follow a sync | started after each sync |
| Event bus `event_bus/event_bus.py` | handlers, once-handlers | on, once, emit | everything | plain handlers run in threads; 60 s per handler | part of the modules that use it |
| Priority dispatcher `event_bus/priority_dispatcher.py` | heap, coalesce map, counters | enqueue, coalesce, drop, stop | bus | nothing in the program enqueues to it | - |
| Event replay and its client `event_bus/event_replay.py`, `src/src/api/event-bus-client.ts` | a ring per event type; a watermark, a timer, the handlers | record, snapshot; subscribe, poll, dispatch | every service through the bus, the views | rings overflow, polls fail, come back late or never settle, two chains of timers, Steam restarts with the backend running | handled once and in order, nothing stale runs again, losses have a reason, the polling lives on through rejected calls |
| Reliability, supervision `event_bus/` | counters | record, report | bus | none | - |
| Shortcuts `services/shortcut/` | shortcuts.vdf and games.map in memory, the registry | mark, remove, reconcile, icons, save, user switch | Steam and other tools through the same file, the sync and the downloads through the bus | operations without a lock, first loads that meet, foreign writers, two files, failed reads and writes, stale libraries, another user | the files follow the memory, tags and rows the disk, foreign entries survive, users stay apart |
| Cloud saves `services/cloud_save/` | two directories, a manifest each, a lock per game | up, down, resolve | launcher, stores' clouds | conflict detection, crash inside a swap | no save overwritten unseen |
| Cache manager `core/cache_manager.py` | a dictionary per cache | get, set, flush, snapshot, restore | sync, phases | rollback against later writes | a cancelled run leaves the caches of before |
| Launch history `services/launch_history/`, `services/launcher/circuit_breaker.py` | failures per game in a file | record, clear, bypass | plugin and launcher process | the launcher builds its service without the history, so no gate reads it | - |
| Launch, Proton, prefixes `services/launcher/`, `launcher/` | files | one pipeline per launch | subprocesses | I/O | - |
| Playtime `services/playtime/` | a row per session, sums per day and game (SQLite), the live sessions | launch, stop, heartbeat, start, stop of the plugin | frontend (reports), bus | missed reports, crash and restart, sums kept beside the rows | every second counted once |
| Playtime sync `services/playtime_sync/`, `stores/{gog,epic}/sessions.py` | the stamps of the rows, a lock | drain | playtime through bus and database, stores | drains that overlap, lost answers, stop and crash before the stamp | every finished session is sent, twice only unknowingly |
| Achievements | snapshots | poll | stores | - | - |
| Security, tokens, logins `services/security/`, `security/`, `auth/` | encrypted files, counters | store, revoke, log in | browsers, stores | external protocols | - |
| Stores `stores/` | per-store sessions | get_library, install_game, ... | CLIs, HTTP | external | - |
| Boot and teardown `bootstrap/`, `services/bootstrap/`, `src/main.py` | the container | start, stop | all | order of services | - |
| RPC `rpc/`, frontend `src/src/` | none, views | one method per operation | services | polling | - |
| Updates, sweeps, configuration, Steam files, CDP, support bundle, actions | files | sequential | - | I/O | - |

`PROJECT.json` lists every component with its status and reason, and every hazard
at its line with the properties that watch it.

## Modules

| module | models | built on |
|---|---|---|
| `SaveFile` | what a save of the queue promises: a copy at one moment, a replacement at a later one, or a failure; what saves that overlap may do | - |
| `QueueFile` | the protocol behind it: open, write, fsync, rename over inodes | implements `SaveFile` |
| `DownloadQueue` | `DownloadService` and its worker, over process lives | `SaveFile` |
| `SyncRun` | the control of one run `_run_sync`, shared by the next two | - |
| `SyncQueue` | the lock, the merged request, the library and the installs | `SyncRun` |
| `PostSync` | the phases after a run, the tracker, the watchdog, the walk | `SyncRun` |
| `Playtime` | `PlaytimeService`: the rows, the heartbeat, the orphans, the sums | - |
| `Outbox` | what the playtime sync promises: recorded, sent at least once, stamped | - |
| `PlaytimeSync` | the drains over that database, the stores, start, stop and crash | `Playtime`, implements `Outbox` |
| `Shortcuts` | `ShortcutService` and those who write the same files | - |
| `ReplayBuffer` | the rings of the backend and their snapshot | - |
| `EventClient` | the frontend's client that polls them | `ReplayBuffer` |
| `PlaytimeProofs`, `PlaytimeSyncProofs` | lemmas about the ledger; theorems about `PlaytimeSync` | `Playtime`, `PlaytimeSync`, TLAPS |
| `DownloadQueueProofs`, `QueueFileProofs`, `SyncQueueProofs`, `PostSyncProofs`, `ShortcutsProofs`, `EventClientProofs` | theorems about the module of that name | that module, TLAPS |
| `MCDownloadQueue`, `MCQueueFile`, `MCSyncQueue`, `MCPlaytimeSync`, `MCShortcuts`, `MCEventClient` | values of the constants for TLC | |

Definitions that begin with the comment `Mutant:` are altered forms of the definition
that follows them, used to see that a property notices the change. They are part of no
specification.

### DownloadQueue

An action is the code between two awaits. The service's lock never spans an await, so
a locked block is part of one action. An item is an accepted call of `add`; two items
may carry one key `store:game_id`.

| code | model |
|---|---|
| `_queue`, `_running`, `_running_tasks` | `queue`, `running`, `tasks` |
| where `_run_install` is suspended | `install[i]`: created, active (the installer), warming (prefix warm-up), finishing (executable look-up), completing / failing / rejecting (an event being delivered), erroring / cancelling (in an except block), done |
| `task.cancel()` | `cancelReq`: the error waits for the task's next step |
| `add`, `cancel` of a running and of a queued item | `Add`, `CancelRunning`, `CancelQueued` then `CancelEmit` |
| `_pop_ready_items`, `_dispatch_items` | `Pop` (with the start of the save), `Spawn` |
| `start`, `stop`, the end of the process | `StartLoad`, `LoadRead`, `LoadAssign`, `StopEarly` (before the load is through), `Stop`, `StopDone`, `Exit` |
| the thread of `save_queue` | `Snapshot`, `Publish`, `SavesMeet`, from `SaveFile` |

`outcome` records the published ends of an item and `forfeited` the items a process exit
drops by design: the running ones, which are never persisted, and those an unfinished or
failed save left out. A call that is served while `start` awaits the load (`EarlyCalls`), and
a `stop` then, save the list that the load is about to replace over the file: `forfeited`
takes the item of that call and what the file held (`AtRisk`), and `astray` says that the
file, or a save under way, holds such a list. They are observers: no guard reads them.

### SaveFile and QueueFile

`SaveFile` is the abstract specification of a save, `QueueFile` the detailed one. There,
paths name inodes, `open("w")` truncates whatever the temporary path names, a descriptor
keeps its inode when the path is renamed, a shorter text written over a longer one keeps
its tail, and each step can fail or be the last one of the process. The refinement maps
the stages of the protocol to *snapped* and the file to what `load_queue` would return.
The promise for saves that overlap is weak because the code's is: the file may hold any
of their copies, or text that does not parse.

### SyncRun, SyncQueue, PostSync

`SyncRun` has one action for each stretch of `_run_sync`: set-up, the check of the cancel
flag before and after each fetch, the progress event, the finalization, the events it
emits, an exception. `SyncQueue` puts it behind asyncio's fair lock, with calls that queue
and merge, forced calls that bypass the queue, the library as seen from one game of the
first store, the handler that records an install when it gets the lock, and the sync
of one store, which asks for no lock. `PostSync`
puts the services behind it: one task for metadata, a set of artwork batches, one task for
compatibility with those it replaced at work (`orphans`), events in flight to the coroutine
handlers (`posted`, in order) and to the threads of `_on_post_sync_phase` (`reports`), and
the threads between their test of the pending set and their act on it (`closing`).

`PostSync.mixed` is an observer: work of more than the chain of one run with artwork is
about. Phase-end events carry no run, so that the end of an older phase counts for a newer
run. The statements of completion are about the runs where that does not happen.

### Playtime, PlaytimeSync, Outbox

Every handler of `PlaytimeService` runs without an await from its first statement to its
commit, and is one action.

| code | model |
|---|---|
| `play_sessions`, `reported_at` | `row` (free, open, closed), `reported` |
| `_active` | `active` |
| `daily_stats`, `game_stats` | `daily`: how often each row was added; `totals`: the rows that are summed |
| `_on_game_launched`, `_on_game_stopped` | `GameLaunched`, `GameStopped` |
| `_checkpoint_active` | `Beat` |
| `_reconcile_orphans` at start | `Start` |
| `_drain`, waiting for the lock, then at each await | `waiting`, `at`, `todo`, `cur` |
| `is_available`, `report_play_session` | `Available`, `Unavailable`; `StoreTakes`, `SendFails`, `AnswerLost` |
| `mark_session_reported` | `Stamps`, and `StampRaises` after `stop` has closed the database |

The frontend reports launches and exits and can miss either, so any sequence of the two is
possible. A session of a store that counts minutes and is too short for one (`Tiny`) is
answered with a yes and not sent. `known`, `unsure` and `missed` are observers.

### Shortcuts

One action per stretch between two awaits of an operation. The first operations find nothing
in memory and load the files, each for itself: the later of two loads that meet replaces what
the earlier operation has made of its own. Then the operation changes the memory in one step
(`Apply`), reads the file again, merges what others have added, writes it, writes games.map
and the registry. Every read may fail, which the code does not tell from an empty file, and
every write may fail, swallowed or raised. A shortcut is the tag of its game. The icon update
after the artwork phase works on the file alone, and other programs write it. The text
of a write that has met another is either's or does not parse, as in `SaveFile`.
`solo`, `saved`, `missed` and the field `late` are observers. After a `Restart` so are `mem`
and `rows` until the first load replaces them: the properties compare with what the process
before has held.

| code | model |
|---|---|
| `_shortcuts`, `_shortcuts_loaded`, `_shortcuts_path` | `mem`, `loaded`, `path` |
| `_games_map`, `_games_map_loaded` | `rows`, `mapLoaded` |
| the files | `file` per user, `mapFile`, `registry` |
| `_load_shortcuts`, `_load_games_map` | `LoadReads`, `LoadDone`, `MapReads`, `MapDone` |
| `mark_installed`, `mark_uninstalled`, `remove_game` | `InstallChanges`, `RemoveGame` |
| a sync: fetch, then `_on_sync_complete`, `reconcile` | `SyncFetch`, `SyncComplete` |
| `_save_all`: the file read again | `SaveReads` / `SaveReadFails`, `SaveMerges` |
| its two writes | `SaveReplaces` / `SaveFails`, `MapWritten` / `MapFails` |
| `_update_icons_from_grid` | `IconsRead`, then `SaveReplaces` / `SaveFails` |
| `set_shortcuts_path` | `Switch` (in `SwitchSpec` only) |

### ReplayBuffer, EventClient

| code | model |
|---|---|
| `_buffers`, `record`, `snapshot` | `rings`, `Record`, `Snapshot` |
| `subscribers`, `timer`, `lastSeenTimestamp`, `primed` | `subs`, `timer`, `lastSeen`, `primed` |
| a chain: `setTimeout`, the call, its answer | `loop[l]`: armed, asked, answered, lost |
| `pollOnce` | `Fires`, then in the backend `Serves`, then `Handles`; or `Fails`, or `Lost` |
| the sort and the loop over an answer | `Before`, `Place`: each event has a `turn` of its own |
| a restart of Steam | `Reload`: a new client, the old rings |

A rejected call (`Fails`) reaches the `finally` block, which arms the next timer. A call that
never settles (`Lost`) does not, and nothing in the client bounds it: the chain is dead, and
while `timer` holds its handle `ensurePolling` starts no other (`Stuck`).

`stopPolling` clears an armed timer only: a poll that is out arms the next timer if there
are handlers again by then, beside the chain a new `subscribe` has started. Both run on, and
the field `timer` holds the handle of the last. The module has this as the code has it;
`MCEventClient` lets two run.

## Runs

| run | question | bounds | distinct states |
|---|---|---|---|
| `download_queue` | do keys and slots hold under every order of add, cancel, worker and installs? | three items, two of one key; cap 2; one life; one save by calls at a time | 1.5 M |
| `download_recovery` | does the file follow the queue, is nothing lost across stop, crash and restart, has an item one verdict, is a pending item served, does a cancel take effect? | two items, one not installable; cap 1; two lives; calls before the load is through included | 375 k |
| `queue_file` | does the file protocol do what `SaveFile` promises? | two writers, four inodes, lists of length 0 to 2 | 21 k |
| `sync_queue` | are requests served and calls answered, does a cancelled run keep the library, does the library follow the installs? | four calls, one forced, one without artwork; two stores; four runs; two of a cancel, an install and a sync of one store | 948 k |
| `post_sync` | does the bar settle, does complete mean idle, does cancelled stick? | two runs, the first without artwork; one store; one cancel | 901 k |
| `playtime_sync` | is every second counted once across crashes, is every finished session sent, and twice only when the plugin could not know? | three games of a store that counts minutes, one that counts seconds and one that takes none; two rows; four ticks | 283 k |
| `shortcuts` | do the files follow the memory and the tags the disk, do foreign entries survive? | two games, two tasks, one user, three operations, one restart or foreign change | 3.7 M |
| `event_client` | once and in order, nothing stale, no loss without a reason, does the polling live? | two types, rings of 2 and 1, snapshots of 2, two chains, three events, two milliseconds, two loads | 549 k |
| `download_cancel_leak`, `sync_cancel_flips`, `sync_size_walk`, `shortcut_user_switch` | one sentence of a doc or comment each, that the code does not keep | small | - |

What the properties say, with the hazard each is for, stands in the comment before each
definition. In short:

- `NoDuplicateKey`, `LiveInstallHoldsSlot`, `SlotAccounted`, `ConcurrencyCap`: the queue
  and the two dictionaries agree although add, cancel, worker and installs change them in
  separate steps.
- `OneVerdict`, `CancelTakesEffect`: an item publishes one of complete and failed, plus at
  most a cancellation that raced its delivery; a cancelled install ends.
- `DiskSettled`, `PersistBeforeSpawn`, `NoSilentLoss`: the file against the memory.
- `QueuedIsServed` (downloads and syncs), `CallsReturn`, `BarSettles`: progress.
- `SettledHoldsLive`, `CrashFindsWholeFile`, `ImplementsSaveFile`: the file protocol.
- `StrandedOnlyBehind`, `CancelKeepsLibrary`, `LibraryTracksInstalls`: the sync's lock,
  cancel flag and library.
- `CompleteMeansIdle`, `CancelledEarlySticks`: the status against the tasks.
- `SessionLedger`: rows, live sessions and both sums agree, and sessions of a game share no
  second, over crashes and restarts. `OnceIfKnown`, `NothingForgotten`, `FinishedIsReported`,
  `ImplementsOutbox`: the drains.
- `SavedIsMemory`, `FlagsFollowGames`, `ForeignKept`: the memory, the files, the disk and the
  entries of others.
- `OnceInOrder`, `NoStaleReplay`, `LossExplained`, `WatermarkMoves`: the events on their way
  to the handlers.

Why the bounds are enough: two requests of one key and a third of another are the least that
can violate key and slot properties together, and a cap of two lets two installs be live
while a third waits; two lives show a restart after each kind of exit; two writers and a
leftover give every order of truncation and rename; a forced call, two plain ones that merge
and one that arrives later give each way a request can end; two runs give every way an older
phase meets a newer run. Two rows and four ticks hold a session that a crash leaves open and
one after it, or two drains that meet over two stores; a third game is of a store that takes
nothing. Two tasks give every meeting of two loads or two writes, and three operations with
one restart or foreign change an install, a sync fetched before it and a removal, with a
failed read or write and a new load between them. Three events overflow a ring of one and a
snapshot of two, share a millisecond or not, and lie before and after a reload; two chains
bring answers back in the wrong order. Bounds that cap counters (`MaxBoots`, `MaxSaves`,
`MaxRuns`, `MaxCancels`, `MaxOthers`, `MaxCalls`, `MaxEvents`, `MaxLoads`, `MaxTime`,
`MaxMs`) stand in the guards of calls, starts and the clock only: work already begun is
never stopped by one (`MaxSends`, which ends the sendings of one session, is the exception:
the drain then fails instead). `MaxSaves` holds calls back while that many saves are in
flight; with `MaxSaves = 1` the worker's save and the save of `stop` still overlap that of a
call. `EarlyCalls = FALSE` is a bound of `download_queue` and `download_cancel_leak` only.

No run checks deadlock: each may stop, with all calls spent; in `event_client` both chains may
be lost and nobody listen, with every event emitted and every load spent.

## Fairness

The event loop runs every coroutine that is ready and the thread pool every thread, so
the steps of code already begun are weakly fair: loading, the worker's poll (it wakes
every second), the saves, each install (`DownloadQueue.Fairness`); the run, the lock and
the delivery of a cancellation (`SyncQueue.FairSpec`); the phases and the watchdog's sleep
(`PostSync.FairSpec`). That an installer ends is assumed of the store's tool; that a fetch
or a phase ends is the code's, which puts a timeout around each request. A drain that can
go on does (`PlaytimeSync`, weak fairness of `Sync`; its requests have timeouts, and it may
fail every time). In `EventClient` timers fire and answers are processed (weak fairness of
`Fires` and `Handles`); a call may be rejected any number of times, and a chain that keeps
asking is answered some day (strong fairness of `Serves`: without it a backend that rejects
every call satisfies the code). That a call settles is not assumed: `Lost` may end any chain,
and `WatermarkMoves` excepts the client whose chain it was (`Stuck`). Never owed: calls
of the user, emissions, launches, cancellations, stops, crashes and exceptions.

## Proofs

### The download queue

`DownloadQueueProofs` proves, for every set of items, keys, cap and bound, with overlapping
saves and calls before the load is through included:

| theorem | states |
|---|---|
| `TypeCorrect` | `Spec => []TypeOK` |
| `NoDuplicates` | `Spec => []NoDuplicateKey` |
| `InstallsHoldSlots` | `Spec => []LiveInstallHoldsSlot` |
| `CapRespected` | `Spec => []ConcurrencyCap` |
| `SlotsAccountedFor` | `Spec => []SlotAccounted` |
| `SpawnedHasLeftFile` | `Spec => []PersistBeforeSpawn` |
| `SettledFileIsQueue` | `Spec => []DiskSettled` |
| `AcceptedIsNeverLost` | `Spec => []NoSilentLoss` |
| `VerdictIsFinal` | `Spec => OneVerdict`, an action property |
| `InvHolds` | the inductive invariant behind the first four |

Assumptions: `ItemsAssumption` (finitely many items, keys a function of them) and
`BoundsAssumption` (a positive cap), both evaluated by TLC in the runs.

The argument. `NoDuplicateKey` is not inductive: a restart replaces the queue by what a
thread read from a file that some save wrote, so every copy of the queue that can become
the queue again must itself be free of duplicates - the copies the saves hold, the file,
what the reader has read (`CopiesKeyedOnce`). While the load is awaited the worker is off
and nothing is running (`EmptyUntilLoaded`), so that the loaded list meets no running key.
`LiveInstallHoldsSlot` needs that a batch between pop and spawn already owns its slots and
that its items have no live install (`BatchHoldsSlot`); with it, the cleanup of one install
never frees the slot of another. The cap then follows: `Pop` fills at most the free slots,
and live installs are counted by the slots they hold. The proof that a step keeps the
invariant has one step per action, with the lemmas on sequences (removing one element or
a prefix keeps a list keyed once) stated first.

`SlotAccounted` follows from where an item can be (`StageInv`): a batch waits for the worker
only (`BatchWaits`), a pending item has no install (`PendingUntouched`), and an install that
was never entered has changed nothing (`UntouchedUntilEntered`).

`PersistBeforeSpawn` is about the file, and the file comes from the copies of the saves. In
`SpawnInv` nothing in the copy of a save that has met no other has been popped or spawned: a
pop begins a save of its own, after which that copy is no longer trusted
(`SoloUnspawned`). When the worker's save is over the popped items have left the file
(`BatchLeftFile`). A load trusts the file again, whatever the saves of early calls made of
it since the reader thread saw it: each item in it was either read, and starts over, or was
added in this process, where nothing is spawned before the load is through
(`UnspawnedUntilLoaded`).

`FileInv` carries the last three. A save which has met no other has the queue in hand once it
has copied it, since every change of the queue begins a save, unless the load has replaced the
list since (`SoloHoldsQueue`, `astray`). While `start` loads, nothing has happened yet or a call
has come early, and then all that is pending there is forfeited (`EarlyForfeited`): whatever
the load makes of it loses nothing else. A cancelled item is pending no more and its install
is ending or over (`CancelledIsOver`), and an item has published an end exactly when its
install is ending or over (`EndPublished`).

### The queue file

`QueueFileProofs` proves for every number of writers, lists and inodes `TypeCorrect`,
`SettledFileIsQueue` (`SettledHoldsLive`), `CrashSeesWholeFile` (`CrashFindsWholeFile`) and
`RefinesSaveFile`, that the protocol implements `SaveFile`. Assumption: `FileAssumption`
(two more inodes than writers; the empty list is one of the lists; a length is a number).

The argument. A save that has met no other is the only one in flight (`LoneIsOnly`), and
knows what the temporary path names at each of its stages (`LoneKnows`): it has truncated
what an earlier process left there and nobody else writes it. Where saves have met, a text
that parses under the temporary path is the copy of a save that has written and not ended
(`StrayIsCopy`), which is what `SaveFile` promises of them. Each step then maps to the step
of the same name, to `Clash`, or to a stutter.

### The sync

`SyncQueueProofs` proves for every set of requests and number of stores, runs and other
calls:

| theorem | states |
|---|---|
| `TypeCorrect` | `Spec => []TypeOK` |
| `QueueServedOnRelease` | `Spec => []StrandedOnlyBehind` |
| `CancelledRunKeepsLibrary` | `Spec => []CancelKeepsLibrary` |
| `LibraryAgreesWithDisk` | `Spec => []LibraryTracksInstalls` |

Assumptions: `RunsAssumption`, `RequestsAssumption`, `CallsAssumption` (sorts and bounds).

The argument. What the library holds is right because whatever contradicts the disk is to be
overwritten: the last install state that waits for the lock is the disk's (`LastFlipIsDisk`),
and with none waiting neither the library nor what the run has fetched is stale
(`NothingStale`). An install state joins the end of the lock's queue and is taken from its
front, so the proof is about positions in that queue. A cancelled run remembers it until its
last check (`StopSticks`).

### What follows a sync

`PostSyncProofs` proves for every number of runs, stores and cancellations:

| theorem | states |
|---|---|
| `TypeCorrect` | `Spec => []TypeOK` |
| `CompleteIsIdle` | `Spec => []CompleteMeansIdle` |
| `EarlyCancelSticks` | `Spec => CancelledEarlySticks`, an action property |
| `MetadataHeardOnce` | one event of the metadata service in the line at most, none beside a task |

Assumptions: `RunsAssumption`, `CancelsAssumption`.

The argument follows a token. In a run that is not mixed one thing is under way at any
time - the metadata task, its event, the batch, its event, the compat task (`OneToken`) -
and while it is, the last phase has not been reported, so that no thread of the bus can have
found the pending set empty (`LastPhaseAwaited`). Before SYNC_COMPLETE is taken there is
no token at all (`NotYetAtWork`): no service can overwrite the status of a run cancelled
early, and its own loop cannot because the flag was set with the status (`CancelShows`).
`MetadataHeardOnce` is why the model may remove one event where the code cancels one delivery
(`Silenced`).

### The shortcuts

`ShortcutsProofs` proves for every set of games, tasks, foreign entries and bounds, of one
user (`Spec`; `SwitchSpec`, with a change of user, is what `shortcut_user_switch` refutes):

| theorem | states |
|---|---|
| `TypeCorrect` | `Spec => []TypeOK` |
| `FilesHoldMemory` | `Spec => []SavedIsMemory` |
| `FlagsAgreeWithDisk` | `Spec => []FlagsFollowGames` |
| `OthersShortcutsKept` | `Spec => ForeignKept`, an action property |
| `InvHolds` | the inductive invariant behind them |

Assumption: `ShortcutsAssumption` (sorts of the constants).

The argument. A task that is alone with the files has in its text every foreign entry of the
file but those added since it read them, or all of them if that read failed
(`SoloHasForeign`). A change that is to be written is in the hands of such a task, in its text
or already in the file (`PendingIsInHand`); a write that fails gives that up, and a later save
takes it up again. Once it is written only the icon update still writes, with the same tags
(`WrittenStays`). For the flags the property says too little: it must also say what is known
of a game without a shortcut (`GamesKnown`). A load keeps it because a game that the files
bring back otherwise than the memory held it is among the `missed` (`NotForgotten`), so that a
process that has not loaded yet is held to what the one before it held.

### Playtime and its sync

`PlaytimeSyncProofs`, with the lemmas about the ledger in `PlaytimeProofs`, proves for every
set of games, rows and stores:

| theorem | states |
|---|---|
| `TypeCorrect` | `Spec => []TypeOK` |
| `LedgerKept` | `Spec => []SessionLedger` |
| `SentOnceIfKnown` | `Spec => []OnceIfKnown` |
| `NoneForgotten` | `Spec => []NothingForgotten` |
| `OutboxImplemented` | `Spec => ImplementsOutbox`, the refinement |
| `InvAlways` | the inductive invariant |

Assumptions: `PlaytimeAssumption` (the null values are no values, lengths are numbers) and
`SyncAssumption` (each game has a store, those that take sessions are stores).

The argument. That two sessions of a game share no second is not inductive: an open row grows
with the clock, so it must lie behind all others of its game (`OpenIsLatest`); and since a
start closes what a crash has left with the duration found there, that duration must end
before the process did (`SeenToTheEnd`). One lemma per operation of `Playtime` shows what it
keeps, and that no operation touches a closed row (`ClosedStay`), which is all that the
drain needs to know of the ledger. `DrainInv` is what a drain relies on between two awaits:
the rows it has read stay finished and unstamped until it stamps them, because the lock
keeps other drains out; and a row that was sent without being stamped is the one in hand or
in `unsure`. With these each step is a step of `Outbox` or a stutter: an end of a session or
a start of the plugin is a `Record`, an answer taken is a `Send`, a stamp a `Stamp`.

### The event client

`EventClientProofs` proves for every set of types, caps, and number of chains and loads:

| theorem | states |
|---|---|
| `TypeCorrect` | `Spec => []TypeOK`, the caps of the rings included |
| `StaleNeverReplayed` | `Spec => []NoStaleReplay` |
| `LossesExplained` | `Spec => []LossExplained` |
| `HandledOnceInOrder` | `Spec => OnceInOrder`, an action property |
| `PollingNeverDies` | `Spec => []PollingAlive`, the safety half of `WatermarkMoves`: the chain held is armed or its call is out, for ever if the call never settles |
| `InvAlways` | the inductive invariant |

Assumptions: `CapAssumption` and `LimitAssumption` (rings and snapshots hold something),
`BoundsAssumption`, `PrimedAssumption` (the events to pass over are event types),
`NoTimerAssumption`, `LoadsAssumption`.

The argument is about what a snapshot on its way back still says when it is handled. An event
that left its ring was pushed out by as many later ones as the ring holds (`GoneIsPushed`);
hence an answer misses only what was pushed out of a ring or the snapshot, or came after all
it holds (`AnswersMiss`), and it reaches past the events from before the load
(`AnswersReach`). The first answer handled therefore lifts the watermark over everything that
is older than the client (`PrimedIsPast`), and since stamps never go back (`StampsRise`) no
stale event is fresh afterwards. That a watermark is the stamp of an event
(`WatermarkSound`) gives the loss its reason. What is handled at all is later than the
watermark, and so than all that earlier answers brought; inside an answer the places are
ordered as `Before` is (`PlaceOrders`). The lemmas about `Newest` (a bounded
deque, a list cut to its newest) are stated first.

### Only model-checked

Every invariant and every action property that a passing run checks is proved. What remains
with TLC is liveness - `QueuedIsServed`, `CancelTakesEffect`, `CallsReturn`, `BarSettles`,
`FinishedIsReported`, `WatermarkMoves` - since fairness and `ENABLED` are out of the prover's
reach. No proof here needs induction over
recursive data, and no module uses a recursive operator.

## What the model leaves out

- `SaveFile`: a save copies the list at one moment, where the code's thread iterates the live
  list. A list that changes meanwhile has begun another save, and saves that meet may leave
  anything.
- `DownloadQueue`: a `stop` between the assignment of the loaded list and the creation of the
  worker's task; the history of finished items and its file; progress, queued and started
  events; the completion callback, which nothing sets; the arguments of each store's
  installer; the worker's branch for an unexpected error, since a save logs and swallows
  its own.
- `QueueFile`: a text reaches its inode in one piece; that the removal of the temporary file
  fails as well (where it does, so does the rename).
- `SyncQueue`, `PostSync`: the phases after a sync of one store, the cooldown of the UI, the cache snapshot
  and its rollback, what a phase fetches. An exception of the finalization leaves the run
  after its last fetch without having replaced the library. Coroutine handlers see events
  in the order of their emission; the first steps of tasks come in any order. The watchdog
  does nothing when nothing is pending, and is left asleep in the model then. The handler
  timeout of the bus is a step that drops an install handler that waits for the lock
  (`flipLost`).
- `Playtime`, `PlaytimeSync`: suspend and resume, which nothing emits; a session split over
  midnight; steps of the wall clock; errors of SQLite; the totals a drain pulls for display;
  a session whose start cannot be parsed.
- `Shortcuts`: the passes that remove duplicates and orphans, the reset of LastPlayTime,
  `set_executable`, the save in `stop`, the load by the boot and its repair of shortcuts for
  logins (the loads of operations are modelled), appids and names, the stores whose shortcuts a sync
  may sweep (all registered ones). A sync with an empty library reconciles nothing, as in
  the code.
- `ReplayBuffer`, `EventClient`: the interval of the polls, what handlers do, events of types
  the client never asks for (`Types` are the fixed list it asks for), an answer that is an
  error in an envelope (only a backend that has not booted sends one, when nothing stale is
  in its rings).
- Components not modelled: see the inventory and the notes in `PROJECT.json`.

## Findings

Each is shown by a run that TLC ends with a counterexample.

1. A task cancelled between `create_task` and its first step never runs its finally block:
   its slot stays taken (`download_cancel_leak`).
2. A cancellation during the artwork phase is overwritten by the compatibility phase
   (`sync_cancel_flips`).
3. The size walk that is to re-spawn after a sync never does: it is started from a thread
   without an event loop (`sync_size_walk`).
4. A save that is under way when the user changes writes one user's shortcuts into the file
   of the other (`shortcut_user_switch`).

### Exceptions in the properties

Where the code has a corner that a property would otherwise stumble over, the property or a
constant says so. These corners were met while modelling:

- An add served while `start` awaits the load is lost, and it, a cancel or a `stop` then may
  overwrite the persisted queue. `download_recovery` and the theorems include these calls;
  `NoSilentLoss` excepts what they put at risk (`forfeited`) and `DiskSettled` the file that
  holds such a list (`astray`).
- Saves in flight together share a temporary path, so that the target can be torn
  (`persistence.py:80`, `shortcut/persistence.py:76`). `SaveFile` promises no more, and
  `SavedIsMemory` and `ForeignKept` are about writes that had the files to themselves.
- A request queued behind a forced sync, or behind a run an exception ends, waits for the next
  call of `sync_all`; `StrandedOnlyBehind` says that this is the only way.
- A sync of one store takes no lock: what it has fetched before an install is written over
  the install's record (`flipLost`).
- The first answer of a new client passes over stale types altogether, a launch or a sync that
  began after the load included. Two events of one millisecond come newest first, against
  the comment of `event-bus-client.ts:229-230` (`OnceInOrder` says so), and one in the
  watermark's millisecond is lost (`SameMs`). Two chains of timers can run. A call that never
  settles ends the polling (`Stuck`): there is no timeout around it.
- A reconcile with a library from before an install drops the row of that game, and a store
  whose fetch failed has its shortcuts swept (`missed`). Entries of registered games are
  rewritten by plain syncs too. A forced reconcile that changes kept entries only is not
  saved (`saved = "lost"`). A foreign entry that its owner removed from the file while the
  service held it comes back with the next save.
- A file that cannot be read counts as empty: shortcuts.vdf before a save, which then writes
  over the foreign entries it has not seen (`late`), and either file when it is loaded
  (`missed`). A failed write of games.map is swallowed (`persistence.py:276-280`), and the row is
  lost with the process (`saved = "lost"`). A change not written when the process ends is
  gone, too.
- The loads of shortcuts.vdf and games.map are not idempotent while they are awaited, against
  `shortcut/service.py:120` and `:128`: two first operations both load, and the later load undoes the
  earlier operation's change, without any failure (`missed`).
- A crash or stop between a store's answer and the stamp makes the next drain send the session
  again (`unsure`), although `stores/gog/sessions.py:12` leaves de-duplication to the caller.
  An orphan of less than five seconds is in the totals of the game and not in its days
  (`TotalsAgree`).
- Cloud saves are left out because their hard part has no effect: the manifest of the last
  shared state is written only by code that nothing calls.

## Plan

Done: the download queue, its persistence and their refinement; the sync with its queue and
its phases; playtime, its sync and the outbox they implement; the shortcuts; the event
client. Proofs of every safety property that a run checks, and of the two refinements.

Models next: the cache snapshot of a run and its rollback, in `SyncRun`. The other
components keep their status for the reasons given in `PROJECT.json`.

# Craft on Whales: specifications, model checks and proofs

Craft on Whales (a NestJS backend and a Vue frontend) is a control panel for
Minecraft servers that run as Docker containers. This directory holds TLA+
modules that describe the part of the backend where things can go wrong in ways a
unit test hardly reaches: the operations that start, stop, rebuild, delete and
restore a server while others do the same, and the writers of shared tables and
directories. TLC checks the modules on small instances; TLAPS proves the most
important invariants for every value of the constants.

Paths below are relative to `src/backend/src/` unless they start with `docs/`.

## 1. How the program runs

The backend is one Node process. Two pieces of its code never run at the same
instant; they interleave at `await`s. So one TLA+ action is the code between two
awaits, which usually holds one database statement, one Docker call or one file
operation, together with the synchronous code around it. What a call read before
an await it keeps in a local variable, and in the models in the call's record.

Who runs concurrently on one server:

- HTTP requests (there is no per-server queue of requests);
- cron jobs of the scheduler and timers of the crash watcher;
- background tasks, which a request starts and does not wait for;
- the Docker daemon, the Minecraft process, the mc-router proxy (which may start
  a stopped container itself) and an operator's own `docker` commands.

Nothing of what coordinates them is persisted: locks, queues and timers are maps
and promise chains in memory. The servers row, the backups rows, the container and
the directories survive a restart of the panel.

## 2. Inventory

The parts of the system that decide how servers behave, and what makes each
correct. `PROJECT.json` lists all of them with their source files.

| Part | State | Operations | Correct when |
|---|---|---|---|
| Lifecycle guard, `servers/server-locks.service.ts` | `inFlightOps`, an entry per server | `guard`: run, share a start, or refuse with 409 | one body per server runs; no entry leaks; sharers return with the start they share |
| Long operations, `servers/server-operations.service.ts` | `active`, a kind per server | `start`, `assertNotBusy` | a restore or world install excludes every guarded call but its own |
| Lifecycle, `servers/server-lifecycle.service.ts` | the servers row (`containerId`, `pendingRecreate`, configuration, `deletedAt`), the container, the data directory | start, stop, restart, recreate, kill, delete, update, routing changes | no create meets an old container; an edit reaches the container or stays flagged; a directory is not wiped under a live server; nothing survives a delete |
| Status column: the lifecycle, `docker/docker-watcher.service.ts` | `servers.status`, `lastStartedAt` | records of the operations, handlers of the events; they read nothing of each other's (the poll `refreshStatuses` has no caller, section 6) | it tells what the container did last, or that very event was lost or overwritten in a way that can be named |
| Creation and ports, `servers/ports.service.ts`, `createServerImpl`, the settings form, `map/map.service.ts` | ports in rows, JSON columns and integrations; `createChain` | check ports, claim them, roll back | two servers do not share a port; a failed creation leaves nothing and blocks nobody |
| Backups, `worlds/backups.service.ts` | backups rows, archives, the server directory | create, restore, delete, retention | retention drops only what it should; a restore can be undone and finds its archive |
| World save lock, `worlds/world-save-lock.service.ts` | a promise chain per server; the server's save-on/save-off | `withSaveLock` | nobody's `save-on` lets the server write under another's copy; saves come back |
| Crash detection and auto-restart, `docker/docker-watcher.service.ts` | the events stream, `crashWindows`, timers | reconnect, classify an exit, restart after a delay | a bounded number of restarts per window; every crash that was seen is followed up; never against a stop the user asked for |
| Scheduler, `scheduler/scheduler.service.ts` | the schedules table, `jobs`, the cron objects that live | create, update, delete, re-arm for a new time zone, boot; the deletion of a server deletes its schedules | exactly the enabled schedules are armed, once each |
| World operations, `worlds/world-lifecycle.service.ts`, `world-transfer`, `world-shrink`, `world-chunks` | directories of worlds and of their split dimensions, `level-name`, `LEVEL` | rename, activate, reset, delete, duplicate, install, copy, shrink, chunk edits | a world that is being played is left alone; what is removed is in the backup; the active level has its world |
| Modpack upgrade, `updates/update-upgrade.service.ts`, `packs/packs.service.ts` | the pin in the row, `server_packs`, `activeUpgrades`, pre-update backups | apply, upgrade, roll back | the pins agree; a server does not run a world of a newer pack; no upgrade is refused for ever |
| Mods and the shared library, `mods/mods.service.ts`, `library/library.service.ts`, `storage/storage-cleanup.service.ts` | `server_content`, the mods directory, `library_files` and its files | add, update, remove, toggle, reapply after a pack operation, clean up orphans | row, file and flag of a mod agree; an installed mod keeps its library file |
| Player log ingestion, `analytics/log-ingest.service.ts` | taps, events, sessions | attach, handle a line, detach | one event per join and leave; no session stays open |
| Inventory, chat commands, teleports | player data files, one teleport slot | edits offline or by RCON | an edit is neither lost nor doubled; the slot comes free |
| Storage index and quotas, `storage/storage-index.service.ts` | cached sizes | scan, check | quotas hold |

How they interact. The API controllers call the services directly. Start, stop,
restart, recreate and routing changes take the guard. Restores and world installs
are long operations: they refuse the guarded calls of others through
`assertNotBusy`, and their own nested stop passes because `AsyncLocalStorage`
identifies it. Kill takes neither lock, and delete only looks at the long
operation. The services meet in the servers row, the container, the data
directory and the RCON console; each of them reads there, awaits, and acts on what
it read. The watcher is told of container events by a stream that has no history;
it writes the status column and calls back into the guarded restart.

The behaviours that are hard are therefore: two operations interleaved at any
await; a row read long before it is used (image pulls and archives take minutes);
a Docker call, a disk or RCON failing between two steps that belong together;
events lost, delayed and handled out of order; the panel going down between two
steps. `PROJECT.json` lists them as hazards, each at its line.

## 3. The modules

| Module | Models | Proofs | Model-checking module |
|---|---|---|---|
| `Callers` | the set of concurrent calls on a server, shared by the locks and the two modules that implement them | | |
| `ServerLocks` | the guard and the long operation, with opaque bodies: the abstract specification | in `ServerLifecycleProofs` | through the refinements |
| `ServerLifecycle` | the bodies, await by await | `ServerLifecycleProofs` | `MCServerLifecycle` |
| `ServerStatus` | the status column and its writers | | `MCServerStatus` |
| `ServerPorts` | creation, the settings form, maps, deletion | `ServerPortsProofs` | `MCServerPorts` |
| `ServerBackups` | backups, retention, restores, the save lock | `ServerBackupsProofs` | `MCServerBackups` |
| `CrashRestart` | exits of a container, the events stream, the delayed restart | `CrashRestartProofs` | `MCCrashRestart` |
| `Scheduler` | schedules, armed cron jobs, the time zone, a server's deletion | `SchedulerProofs` | `MCScheduler` |
| `WorldOps` | the nine world operations, starts of the server, edits of its level | `WorldOpsProofs` | `MCWorldOps` |
| `PackUpgrade` | applying, upgrading and rolling back a modpack, edits of its environment | `PackUpgradeProofs` | `MCPackUpgrade` |
| `ServerContent` | the mods of a server and the shared library | `ServerContentProofs` | `MCServerContent` |

### ServerLocks

`inFlight` is the entry of `inFlightOps` for one server and `active` the kind of
the long operation. `phase` says for each call whether it is outside, runs a body
or shares another's promise. `Enter`, `Join` and `Leave` are the three ways through
`guard`; the test and the write of the entry are one step because no await lies
between them. One server is enough: both maps are keyed by id and no call touches
two ids.

### ServerLifecycle

`row`, `ctr` and `world` are the servers row, the container and the directory.
`call[c]` is the stack of a call: `pc` is the await it stands at, `k` the frames it
returns to (a start nests a recreate, a recreate of a running server nests a start,
a restart nests either), `seen` and `flagged` what it read from the row. The
configuration is a version number, which each edit bumps; a container carries the
version it was created with. `UpdateServer`, `FlagRouted`, `ContainerExits` and
`RouterStarts` act between any two steps, and `DaemonError` makes the Docker call
a call is waiting for fail, with the code's own recovery (`RecreateFail` keeps the
row flagged and without a container).

A restore appears with the steps that touch the lifecycle: its stop, whose errors
it swallows, the look at the container, the wipe and the extraction.

Bounds: `MaxConfig` edits, and `MaxNest` frames under a start that finds its server
flagged once more (each needs an edit at the right moment).

### ServerStatus

`box` is the container: whether there is one, whether it runs, whether it was
created with the health probe and what that says. Every change of it is an event,
lost while `stream` is down (`getEvents` asks for no history) and otherwise a
member of `handlers`: `handleEvent` calls are not awaited, so they finish in any
order. `op` is the guarded operation in progress and `kill` the kill that needs no
guard; each has a record of its own after its container step. A handler or record
is marked `old` once the container has changed again. `PanelRestarts` takes all of
them, and the boot reads no container.

There is no poll in the module: `refreshStatuses` is called by nothing (section 6),
so a status that is wrong stays wrong until the next event or record. `news`, a
history variable, says what became of the container's newest event: told by the
last write, still due, lost with the stream or the panel, or told and then
overwritten by the handler of an older one (`overtaken`) or by a record about what
the container had left behind (`overruled`). The properties are about the column
wherever the event was told.

### ServerPorts

Ports are names; `Used` is what `allPortsInUse` and the probe see now. A creation
waits for its turn in `chain`, checks its ports one await at a time, writes its row
and then pulls and builds, or rolls back. An edit of the extra mappings does the
same without the chain. The history variable `raced` collects the ports that were
checked while someone else had checked them and not yet written.

### ServerBackups

A world is a version number and 0 an empty directory; an archive holds the version
it was cut from. `tail` is the promise chain of the save lock, its head the holder.
`call[c].torn` records what happened to the directory while it was copied (a write,
a restart, a restore). `Prune` reads the rows of one pass and puts the ones to drop
in `left`; `DropFile` and `DropRow` then take them one at a time in the code's
order, with any other call in between. `Crash` is the panel going down: calls and
lock vanish, rows, archives and the server's save mode stay.

A restore stops the server, swallows a refusal, looks at the container, takes its
safety backup (`BeginSafety` looks again), wipes and extracts. `StartServer` may
come anywhere in it: a start that was in flight when the restore began, one by
mc-router, or any start while the restore is the one of a pack's rollback, which
takes no long-operation lock (`updates/update-upgrade.service.ts:276`). What such a
server writes after the safety copy is in `call[c].after`.

A `scene` chosen in `Init` fixes the ceilings, the calls, the faults and the bounds
of a behaviour, so that one run covers several situations without multiplying them.
`WorldOps`, `PackUpgrade` and `ServerContent` have scenes as well.

### CrashRestart

Each exit of the container is a follow-up: a `handleEvent` call with its awaits
(the row, the query for a requested stop, the crash record, the restart's timer).
`window` is the array of `crashWindows`, kept as a set of crashes (the exit and the
instant it was counted at): the code only filters and counts it, and the exit keeps
two crashes of one instant apart. `watch` is the connection with its error and end
events, of which a broken stream emits both. The limit for "a stop was
requested in the last three minutes" is computed as the code computes it, by
comparing SQLite's `YYYY-MM-DD HH:MM:SS` with an ISO time as text: `now`,
`DayLength` and `StopWindow` are just what that comparison depends on. `armed` is
the history of restarts of this process and `due` a crash that nobody followed up.

### Scheduler

`jobs` is the map from a schedule to its cron object and `live` the objects that
have not been stopped, which is not the same: `schedule()` stops what the map
holds, awaits the time zone and then overwrites it. A request works from rows it
read earlier (`now`, `todo`).

`Own` are the schedules of a server that may be deleted. `deleteServer` lists them
(`DeleteServer`), deletes them one by one with their jobs (`DeleteNext`, `DeleteRow`)
and ends in a transaction that deletes the rows of whatever was created since
(`Cascade`), and no job. Three histories name what can be out of step: `raced` has
the schedules two requests worked on at once, `late` those created after that list,
and `doubt` says of a schedule's last change that it was made from a row that had
changed meanwhile, or between a deletion's stop and the end of its row.

### WorldOps

`disk[name][part]` is the set of worlds whose files lie in a directory, so that
two worlds moved into one directory, or a half-moved one, are visible. `call[c]`
has what the request read (the level, the directories, the look at the container)
and `hit`, the history of how the server came up under it: woken by mc-router, by
a start that was in flight, by one that came later, by a look Docker did not
answer. `Excuses` says which of those each operation's own lock leaves open.
`prop` is `level-name` in server.properties, `env` is `LEVEL` in the row and `box`
in the container: the settings form sets or removes the second (`EditLevel`), the
file editor changes the first (`EditProperty`), and mc-router starts a container
with the third, so that they may differ. `raced` has the names two requests used at
once, `unmade` those whose world the next start is to make.
The locks are read off the requests: the guard is held by a start and by an editor
past its second look's `guard` (`Guarded`), the long-operation lock by an install
(`Installing`). With `GuardEntry`, `LockActive` and `LockPhase` as the lock's entry,
kind and phases the module implements `ServerLocks`, as `ServerLifecycle` does: the
two describe different callers of the same two locks.

### PackUpgrade

Versions are numbers. `pin` and `pack.pinned` are the two places a pin is written,
`built` the version the container was made with, `world` the newest that ran the
world. `op` is the guard's entry, whose sharing and refusing of the upgrade's own
stop, recreate and start are those of `ServerLocks`. `active` is the entry of
`activeUpgrades`: every `step()` of an upgrade sets it (`Announced`), also after an
overlapping upgrade has deleted it, and the `finally` of an upgrade deletes it,
whosever it is (`Released`). A rollback restores the backup the client names, any
of the server's, or the newest pre-update one (`Choices`).

Two writers beside the requests: `UserBackup` (a user's or the scheduler's) and
`EditEnv`, which is `updateServer` with an environment that names another version,
by hand or because a change of the active world writes back the environment it
read (`world-lifecycle.service.ts:183-193`). `unpinned` are the backups of no
upgrade that pinned its version, and `doubts` names what came between the world
and the pack.

### ServerContent

A mod is a row (`row`), a file (`dir`) or its `.disabled` twin (`off`), a library
row (`lib`, numbered, because a row that was deleted and inserted again has a new
id) and that row's file. A content is bytes as of a category, because the library
is unique by both; `stored` are the paths on disk, and `FileOf` gives two
contents one path where they are the same bytes in two categories that share a
directory.

The mods directory also has files without a row: one in `Init`, and those that a
pack's installer or the user's file manager puts there (`Placed`) or deletes
(`Dropped`), where the scene has such hands. A toggle renames them like any file.

`Working` and `Holding` say from when to when a request works on a name and uses
some bytes; with them a step that writes a name notes whom it disturbs (`alone`).
Three histories record what a later look may find out of step: `doubts` by name,
`frayed` the bytes that a cleanup took from a request using them, `shorn` those
whose file went with the row of another category.

## 4. The runs

| Run | Instance | Shows |
|---|---|---|
| `lifecycle` | three calls, one edit, two re-flagged frames, no failures | no create meets an old container (`NoNameCollision`); a restore whose stop succeeded wipes and refills the directory of a dead server (`StoppedRestoreIsSafe`); the bodies implement `ServerLocks` (`ImplementsLocks`) |
| `lifecycle_faults` | two calls that run fairly, one edit, Docker fails anywhere, mc-router starts containers | a row without a container is flagged (`NoContainerIsFlagged`); the only edits a container can lack unflagged are those made inside a recreate (`OnlyRacedEditsAreMissed`); a flagged start launches nothing older than the row it read (`LaunchAppliesFlaggedConfig`); every call returns (`CallsReturn`) |
| `status` | both kinds of container, two handlers at a time, exits of three kinds, a stream that breaks, kills, restarts of the panel | at rest the column tells what the container did last, unless that event was lost or overwritten (`RestingStatusIsTrue`); of a container that stays down it comes to say so, with the same exceptions (`DownIsShown`) |
| `ports` | two creations, two edits, four ports, one of them foreign | `OwnPortsDisjoint`, `OnlyRacedPortsShared`, `NoGhostServer`, `CreatesFinish` |
| `backups` | two callers, three archives, one backup kept per bucket, five scenes: copies under every fault, retention without and with ceilings, restores of a server that anybody starts at any moment, restores among other safety backups | `PausedCopiesAreWhole`, `SavesComeBack`, `LockIsHandedOn`, `DropsAreDeserved`, `NewestSurvives`, `RestoreIsReversible` |
| `crash_restart` | two exits, three instants around a midnight, one restart per window | restarts stay limited however handlers and timers interleave (`RestartsAreLimited`); one stream is listened to and the watcher never gives up (`OneStream`); a crash it saw ends in a restart or in an event that says why not (`CrashIsFollowedUp`) |
| `scheduler` | three requests, two schedules of which one is of a server that may be deleted, two changes of the time zone, two jobs | a job nobody can stop comes from two overlapping requests only (`OrphansAreRaced`); the armed jobs are the enabled rows, in the zone of the settings, overlapping requests or not, but for three named kinds of schedule (`QuietIsInStep`) |
| `worlds` | two requests at a time out of three, two worlds and a free name, ten scenes, in four of which LEVEL and level-name are edited meanwhile | `LiveWorldsAreLeftAlone`, `BackupCovers`, `LevelHasItsWorld`, `WorldsStayWhole`; starts, editors and installs implement `ServerLocks` (`ImplementsLocks`) |
| `packs` | two requests at a time out of three, three versions, two backups any of which a rollback may name, six scenes, in one of which the environment is edited | the two pins agree, but for torn and edited ones (`PinsAgree`); a server does not run a world of a newer pack but for named reasons (`WorldFitsPack`); no entry of `activeUpgrades` is left behind (`EntryHasItsUpgrade`) |
| `content` | two requests at a time out of three; four contents, of which two have one name and two are the same bytes in two categories; three scenes: the user's requests, a cleanup on a faulty disk, a pack's reapply beside other hands in the directory | a mod's row, file and flag agree but for named reasons (`RowsMatchFiles`); the library keeps what is installed (`ModsKeepTheirSource`) and has what it lists (`ListedIsStored`) |

Two more runs look for a counterexample to what a comment or a document of the
repository says, and find one (section 6).

Why the bounds are enough to be interesting. Every hazard of the lifecycle needs
two calls, and the ones about a shared start beside another operation need three.
One edit is enough to be missed or applied. In the ports model each shared port is
wanted by two parties. With one backup kept per bucket the second backup of a kind
already exercises retention, and three archives are needed for a restore whose
safety backup meets another. The clock is in seconds because `created_at` is: in
the scenes without a tick all rows share one second and are ordered by their ids
alone, which are random and so in no order of making. Two exits are one more than
the limit `MaxRapid` of `crash_restart`, and its clock has an instant before and
one after midnight, where the comparison of texts changes its answer. The
scheduler needs two requests for an orphan and a third beside them for a re-arming;
a schedule created late needs only the deletion and the creation. Two handlers are
the first number that can finish in the wrong order. The two contents of one
library path are on two servers, so that a cleanup can find one unused while the
other is installed.
In `worlds`, `packs` and `content` two requests are in progress at a time and a
third meets what they left; the larger mixtures are cut to two requests, one where
mc-router wakes the server, because each excuse needs no more: each excuse, doubt
and reason named in a property was removed in turn, and TLC then found the property
violated, so none of them is there without a behaviour that needs it.

The searches are exhaustive: about 585,000 distinct states for `lifecycle`, 637,000
for `lifecycle_faults`, 97,000 for `status`, 520,000 for `ports`, 2.6 million for
`backups`, 790,000 for `crash_restart`, 6.3 million for `scheduler`, 1.0 million for
`worlds`, 4.1 million for `packs` and 4.8 million for `content`; each ends within about
three minutes.

Deadlock is checked in the lifecycle and status runs. The others end when what
bounds them is used up (creations, archive names, exits, jobs, requests), so they
say `CHECK_DEADLOCK FALSE`. Symmetry over the calls is used only for invariants,
action properties and the refinements (safety properties), never with liveness.

### Fairness

- `lifecycle_faults`: weak fairness of each call's next step. Node resumes a call
  whose promise has settled, and each Docker call settles: it answers or fails
  (`execCapture` has a time limit, the wait for a stop is raced against a timer and
  followed by a forced stop). Requests and the environment are not fair.
- `status`: weak fairness of the awaits of the guarded operation (`Resumes`), of the
  kill's (`KillResumes`) and of each event handler, and of nothing else: the stream
  may stay down for good, time does not pass, and no poll is assumed.
- `ports`: weak fairness of each creation's next step, for the same reason as above.
- `crash_restart`: weak fairness of the guarded operation and of each exit's
  handler and timer, which Node runs when they are due. Time, the stream, users and
  exits are not fair.

## 5. What is proved

All for arbitrary constants that satisfy the modules' `ASSUME`s: the callers do not
include `NoCall`, bounds are naturals, the bucket sizes are positive, scenes are
well typed, the two initial worlds have different names and there are numbers for
both, no content is the one that stands for none.

| Theorem | Says |
|---|---|
| `ServerLifecycleProofs!LifecycleTypes` | type correctness |
| `ServerLifecycleProofs!CreateNeverCollides` | no container create meets the server's previous container |
| `ServerLifecycleProofs!LifecycleImplementsLocks` | the bodies, step by step, implement `ServerLocks` |
| `ServerLifecycleProofs!GuardIsExclusive` | so `guard` admits one body per server |
| `ServerLifecycleProofs!OperationInvariant` | after a restore's stop no call is in a guarded body, and where mc-router does not start servers the container stays down |
| `ServerLifecycleProofs!RestoreNeverUnderALiveServer` | a restore whose stop succeeded wipes and refills the directory of a dead server |
| `ServerLifecycleProofs!MissingContainerIsFlagged` | a row without a container is flagged for a recreate |
| `ServerLifecycleProofs!OnlyARaceLosesAnEdit` | an edit that a container lacks unflagged was made inside a recreate |
| `ServerLifecycleProofs!FlaggedStartLaunchesFresh` | a flagged start launches nothing older than the row it read |
| `ServerPortsProofs!PortTypes` | type correctness |
| `ServerPortsProofs!CreatesNeverShareAPort` | the own ports of two live servers are disjoint |
| `ServerPortsProofs!OnlyARaceSharesAPort` | any port two servers share was checked by two parties at once |
| `ServerPortsProofs!NoServerIsAGhost` | a row without a container belongs to a creation in progress |
| `ServerBackupsProofs!BackupsTypes` | type correctness |
| `ServerBackupsProofs!LockHandedOn` | the save lock has one holder, is handed on and forgets nobody |
| `ServerBackupsProofs!PausedCopies` | no write falls into a copy with saves paused, short of a restart or a restore |
| `ServerBackupsProofs!SavesReturn` | saves of a running server are off only while a call in its section will send `save-on`, or where one was not answered or the panel went down |
| `ServerBackupsProofs!NewestIsKept` | retention never drops the newest backup |
| `ServerBackupsProofs!DropsHaveReasons` | what lost its row or archive was discarded, or has a full bucket of newer backups, is past the age ceiling or too much for the size ceiling |
| `ServerBackupsProofs!RestoresAreReversible` | the safety backup of a restore that has wiped the world is there, where it fits its bucket, there is no ceiling and no user discarded it; and it holds that world, unless a server that was started all the same wrote after the copy, or a rollback's restore passed |
| `CrashRestartProofs!CrashTypes` | type correctness |
| `CrashRestartProofs!OneStreamAtATime` | one stream is listened to, and the watcher never gives up |
| `CrashRestartProofs!RestartLimit` | in no window of time are more than `MaxRapid` restarts armed |
| `SchedulerProofs!SchedulerTypes` | type correctness |
| `SchedulerProofs!OrphansComeFromRaces` | a job nothing can stop comes from two overlapping requests on its schedule |
| `SchedulerProofs!RestingSchedulesAreInStep` | a schedule at rest is armed exactly when its row is enabled, overlaps or not, but for one created after its server's deletion listed the schedules, armed from an old row, or armed between a deletion's stop and the end of its row; the last two need an overlap |
| `WorldOpsProofs!WorldTypes` | type correctness |
| `WorldOpsProofs!PlayedWorldsAreLeftAlone` | a world that is played loses files only to a request the server came up under in an excused way |
| `WorldOpsProofs!BackupsCoverLosses` | what a request with a backup takes off the disk is in a backup, but for what another wrote there since |
| `WorldOpsProofs!DirectoriesHoldOneWorld` | a directory holds one world and none outlives its world, but at names that were raced |
| `WorldOpsProofs!TheLevelHasAWorld` | between requests the active level has a world, but where the next start is to make it or its name was raced |
| `WorldOpsProofs!WorldOpsImplementLocks` | starts, editors and installs, step by step, implement `ServerLocks` |
| `PackUpgradeProofs!PackTypes` | type correctness |
| `PackUpgradeProofs!PinsAlwaysAgree` | row and pack table name one version outside the two writes, but for crossed or torn ones and edits of the environment that no whole request has repaired |
| `PackUpgradeProofs!UpgradesAreReversible` | no server runs a version older than one that has run its world, whichever of the upgrades' backups is restored, but for five named reasons |
| `PackUpgradeProofs!NoEntryIsLeft` | an entry of `activeUpgrades` has an upgrade that will delete it |
| `ServerContentProofs!ContentTypes` | type correctness |
| `ServerContentProofs!ListedFilesAreStored` | a listed library file is on disk, but while a cleanup is between the two, or where one took it from a user or from another category |
| `ServerContentProofs!ModsKeepTheirLibraryRow` | an installed mod keeps its library row, unless a cleanup took it from a request that used it |
| `ServerContentProofs!RowsAndFilesAgree` | row, file and flag of a mod agree and a name without a row has no file, but for five named reasons |

The arguments, module by module.

*Lifecycle.*

- Between a recreate's remove and its create another call could make a container.
  What forbids it is the guard, so the invariant `Inv` adds `Owner`: a call stands in
  a guarded body exactly when it owns the entry. A delete outside the guard can only
  remove the container, and mc-router can only start one that exists; both keep
  `NoNameCollision`.
- The refinement maps a step of a call to the step of `ServerLocks` it is: entering,
  sharing or leaving the guard, starting or ending the long operation, or a stutter.
  Mutual exclusion is then proved once, of the abstract specification. It is not
  inductive there either: nothing in it forbids an entry that names nobody while a
  body runs, so its invariant says that a call runs a body exactly when the entry
  names it, and that a sharer shares a live start.
- A restore is safe because of what its stop leaves behind. `OpInv` says that there is
  one restore, that it stands at its own steps or at those of the stop it nests, and
  that after a stop that succeeded nobody is in a guarded body (`Quiesced`): the guard
  was its own, and `assertNotBusy` refuses whoever comes later. Only a body or
  mc-router launches, so the container stays down (`StaysDown`).
- Edits are lost in one place. `FlagInv` says that an edit inside a recreate's window
  is noted as missed, that the container recorded at the end is the one built from the
  row that recreate read, and that a start that saw the flag stands behind such a
  recreate.

*Ports.*

- `PortInv` adds `HeadRuns` (only the head of the chain is past its queue) and
  `ChosenFree` (what a creation has checked is in no other row's own ports). The second
  holds on because only a creation writes own ports and only one creation is checking.
- For ports of any kind, the row, the checks of a creation and those of an edit are all
  holders of a server's ports (`Has`), and `Apart` says that a port held for two servers
  was raced. A step either moves claims between the holders of one server, or claims
  what it has just found unused by all of them.

*Backups.*

- `QueueInv` ties the lock's queue to the calls: no call is in it twice, those in it hold
  the lock's promise, everyone behind the head waits. `PauseInv` says of a paused,
  undisturbed copy that the server is down or not saving; it needs the queue, because
  only the head may send `save-on`. Saves come back for the same reason: whoever paused
  them is in its section until it has sent `save-on` (`InSection`).
- A retention pass drops rows it read some awaits ago. The invariant `NewestKept` says of
  the newest row ever made, unless a user discarded it, that it is in the table, that its
  archive exists, and that it is in nobody's list. A newer row that appears after a read
  is not in the list of that read (its id is fresh: `IdsApart`, `NotYetMade`), and at the
  time of the read the newest of the rows is spared by all three kinds of pass
  (`NewestIsSpared`; this is where `Keep` must be positive).
- That a pass removes only what deserves it (`Deserved`) is about rows read long before.
  `ReasonInv` says it of every row in somebody's list as well (`LeftDeserved`): a row that
  a pass picks has a reason at the read (`CandidatesDeserve`; at most one row is the newest
  and spared, because ids are unique: `OneNewest`), and the reason stays, because it is
  told of all backups ever made and of the time, which only grow (`ReasonsStand`). That a
  total only grows with its rows is said without a fold: it is the number of the units of
  size (`Units`, pairs of a row and a number up to its size), so that more rows have a
  larger total and a difference of sets the difference of totals (`TotalGrows`).
- A restore can be undone although others may start the server under it. Whoever changes
  the world tells every restore that has made its copy (`after`), so the world its archive
  holds is the one there is, or the restore knows of a change (`Covered`). From then on no
  pass has the archive in its list (`Spared`): a pass counts the newer backups of the bucket,
  and those are fewer than `Keep` (a cardinality, which only grows with the rows).

*Crash detection.* The limit is about every window of time at once, while the code counts
only the crashes before a new one. `Counted` says that a restart younger than the crash
window is counted there, so those a new restart shares a window with are among the
crashes that were just counted.

*Scheduler.* While a request works on a schedule, both properties are false of it. The
invariant says what is true of it then. What two requests work on is raced (`Apart`); the
map knows only jobs that fire (`Registered`); what a request has read of a schedule that
is not raced is still so (`AllCurrent`). Where row and job differ, or a job has an older
time zone, some request stands where it will see to it (`InHand`), unless `doubt` names
the step that made them differ, which is raced then (`Doubted`). Of a deletion of the
server, `Listed` says that what it has not listed was created late: its transaction takes
the row of nothing else that is armed.

*World operations.* `Shape` says which steps each operation comes to. On it rest four
invariants and the refinement.

- `LiveInv`: who has its look behind it and a world still to take has noted each way
  the server came up under it. `LockInv` says which ways there are: no start is in
  flight beside an editor inside the guard, and the only ones beside an install were
  there when it began.
- `CoverInv`: what a request with its backup behind it has yet to take is in a backup,
  or younger than the backup at a name that was raced.
- `WholeInv`, name by name where nobody raced: a directory holds one world; a dimension
  without a main directory belongs to a request that is midway there; and a request
  that is about to fill a name finds it empty, or has emptied it itself (`WholeCall`).
- `LevelInv`: the level has a world, is raced, is to be made by the next start (`unmade`), or
  a request in progress owes it one (`Owes`): a replacing install between removal and
  placing, and a rename until it has written the new level in both places. Whoever is about
  to write the level knows of the name it writes that there is a world, or that it was raced
  or unmade (`LevelCall`). An edit that makes a name the level races it with every request
  that is using it, so that a request's own copy of `LEVEL` may be old without harm.
- The refinement needs that each lock has one holder (`OneHolder`); then the entry's
  owner is well defined. A step moves at most one request, which keeps its operation until
  it ends (`Turns`), takes a lock only where nobody has it (`LockStep`) and never holds
  both, so it is one step of `ServerLocks` or a stutter (`MoveIsLockStep`). A start of the
  server by mc-router moves nobody through the locks.

*Packs.*

- Between the two writes of one request the pins differ, and another request may write in
  between. The invariant says of a request at its second write that the row holds what it
  wrote (`Held`), or that someone wrote across it, which is then in `doubts`; and of a
  request before its first write that it carries a version (`Carried`), which types need.
- An edit of the environment makes the pins differ (`torn`) until a request writes both with
  nobody across.
- An entry of `activeUpgrades` is set by every step of an upgrade and deleted by every
  upgrade's end, so that of two that overlap either may delete it and either may set it
  again. `EntryHasItsUpgrade` is inductive all the same: whoever sets it is under way, and
  the end of the last one under way deletes it.
- `FitInv` follows the world. It is never newer than the pin, nor is a backup whose upgrade
  has pinned its version (`Below`), and none such is newer than the version a rollback will
  pin, so that it does not matter which of them a rollback is told to restore. A request
  nobody wrote across climbs from the pin (`Climbing`), has saved a world that is not newer
  (`Saving`), or returns to that version (`Returning`, `Wiped`).

*Content.*

- `ListedIsStored` and `ModsKeepTheirSource` are made true by requests in progress. The
  invariant says of those that bytes they stored are on disk and a library row they looked
  up is there, or that a cleanup frayed or shore those bytes (`Sourced`); and of a cleanup that what
  it removes was unused when it listed it (`Careful`). So whoever holds or refers to it at
  the removal has come since, which is what `frayed` records. That a library row is
  numbered from one (`Numbered`) makes a row of `server_content` name one.
- `RowsMatchFiles` says something only of names at rest. `MatchInv` adds what a request that
  nobody disturbed has seen of its name and may still rely on (`Seen`), and what it leaves
  there between two of its writes (`Midway`); a name is at rest when no request is between
  two writes of it (`Settled`). Other hands in the directory disturb whoever works on the
  name, and leave it in doubt.

Each invariant was checked with TLC on the instances above before it was proved. Most
type invariants are left to the proofs; the runs check that of `ServerStatus`, and that
of `CrashRestart` as well.

Model-checked only:

- liveness (`CallsReturn`, `CreatesFinish`, `CrashIsFollowedUp`, `DownIsShown`), which TLAPS
  does not handle under fairness;
- `ServerStatus` as a whole, whose state is small enough that the run covers two overlapping
  handlers, an operation and a kill in every order;
- the restores of `ServerBackups` beside world operations: those take the save lock there
  like a backup, and what they change in the directory is in `WorldOps`.

## 6. Where the code and its words part

| Run | What happens |
|---|---|
| `restore_has_its_archive` | The safety backup of a restore is itself a `pre-restore` backup and is pruned at once. When the archive asked for is the oldest of a full bucket, it is deleted before it is extracted, after which the directory is wiped. `docs/backups.md:66` says that the world data is replaced with the snapshot. |
| `no_restart_against_stop` | `events.createdAt` is text in SQLite's format and is compared with an ISO time (`docker-watcher.service.ts:228-240`): on one date a space sorts before `T`, so the stop requested a moment ago is not found, the exit counts as a crash and the server is restarted. The comment at line 290 says that this must not happen. |

Known from modelling, and met by the properties of the passing runs as named
exceptions:

- A restore's own stop is refused with 409 while a start is in flight. The restore
  swallows that, finds no live container at that instant, and wipes the directory
  while the start goes on to launch the server; the comment at
  `worlds/backups.service.ts:259` says "NEVER rm -rf under a live container".
  `StoppedRestoreIsSafe` covers restores whose stop was accepted.
- A delete looks at the long operation only and runs beside a restart or recreate,
  which then creates the container again; a kill takes neither lock
  (`server-lifecycle.service.ts:583` and `:906`).
- An edit saved while a recreate pulls its image is not in the container, and the
  recreate clears `pendingRecreate` at its end: `OnlyRacedEditsAreMissed` describes
  exactly these edits.
- No poll repairs the status column. `refreshStatuses`
  (`server-lifecycle.service.ts:1053`) has no caller in `src/backend/src`, while its own
  comment says "called on boot + 60s poll", `docker/DOCKER_NOTES.md:75` and
  `servers/SERVERS_NOTES.md:204` describe that poll, and `docker-watcher.service.ts:84`
  reckons with it. So a container that dies while the events stream is down stays shown as
  running, a start that hangs is never shown as stalled, and a container without a probe
  that has booted stays shown as starting. `RestingStatusIsTrue` says what is left: the
  column is right where the newest event was told (its exception `news`).
- An event handler that is slow, or an operation's record, overwrites the status that a
  newer event has already set (`overtaken`, `overruled`).
- A schedule created while its server is being deleted, after the list, keeps its job: the
  transaction deletes the row, and the cron job fires until the panel restarts, on a server
  that is gone. The comment at `server-lifecycle.service.ts:949` takes the schedules for
  disarmed by then.
- `SavesComeBack` excepts a `save-on` that was not answered, or was never sent
  because the panel went down (`stuck`); nothing sends it at the next boot. A
  server started while its backup waits or runs is copied with its saves on, and
  not flagged.
- Two maps, or a map and the mapping of a stopped server, may share a port: the
  search for a free one reads the maps' rows alone (`map/map.service.ts:207`).
- A world operation other than an install or an edit of region files looks at the
  container once, and a start that comes later is not kept from running on the
  directory it changes (the `start` excuse of `LiveWorldsAreLeftAlone`).
- A server can be started while it is restored, when its start was in flight, by
  mc-router, or during a rollback's restore, which holds no lock: what it then writes is in
  no backup (`RestoreIsReversible`), and it may boot on half a world.
- A rollback that cannot resolve its version, or restores a backup that no upgrade has
  pinned its version after (the client may name any), leaves an old world under a new
  pack, or the reverse. An edit of the pack's version in the environment leaves
  `server_packs` as it was (`PinsAgree`); so does a change of the active world that
  writes back an environment from before an upgrade.
- Setting `LEVEL` or `level-name` to a name without a world leaves the level without one
  until the next start; so does a reset that writes back a row from before `LEVEL` was set.
- A mod added over a disabled one leaves two files and a row that says disabled
  (`overlaid`), and so does one added over a disabled file without a row; two requests on
  one name leave a row of the one with the file of the other (`raced`); a file that the user
  deletes leaves its row (`lost`); a cleanup may take library files that are being installed
  (`frayed`), and the install then fails after having removed the file it replaces.
- Library rows are unique by bytes and category, and the paths of four categories are one
  (`library/library.service.ts:28-31`). A cleanup that finds the bytes unused as one of
  them removes the file that a mod of another was linked from (`shorn`); the comment at
  line 147 says that no other record references what it lists.

## 7. What is left out

In the modelled parts: labels, notes, events and log excerpts; free-space checks;
renaming a backup; the port arithmetic (a suggestion is any free candidate, where
the code takes the first); the contents of archives and worlds; the routing
hostname rules, of which only the flag and the recreate remain. World exports and
duplications take the save lock like a backup whose archive is discarded, and are
not a separate kind of call. `WorldOps` leaves out names that end in `_nether` or
`_the_end` (which the code takes for dimensions of another world), exports and the
save lock. `PackUpgrade` leaves out the resolution of versions, the rest of the pack's
environment, the confirmations asked of a user, and the deletion of its backups by
users or retention. `ServerStatus` leaves out `lastStartedAt`, and takes one container
step for what Docker reports in two events (a `die` with its code, then a `stop`, which the
watcher does not handle). `ServerContent` leaves out datapacks, the names of a pack's own
mods but for the toggle that excludes them, manual uploads that replace a mod (import
first, then removal, then install), icons and quotas, and gives one file name to each
content: the code derives the library path from the bytes and the name, so that two
downloads of one file under two names store it twice and list it once.

Not modelled: the parts that only convert, format, fetch or serve (registries,
blueprints, statistics, gateways, the frontend), administration without concurrent
state (accounts, tokens, settings), and log ingestion, inventory edits and chat
commands, which are in the plan. `PROJECT.json` gives the reason for each. The
modules cover what writes shared state under concurrency; measured in lines that is
a small part of the repository, most of which is text, forms and conversions.

## 8. Plan

1. For the models there are: what remains of the safety properties is out of the
   provers' reach or has no step worth a proof (section 5); the lemmas under the
   liveness properties (that a promise somebody waits for has a call that will
   settle it) could still be stated as invariants.
2. `LogIngest`: taps, line handlers that overlap (a leave may be recorded before
   its join, `analytics/log-ingest.service.ts:261`; the check for a duplicate reads
   before it inserts, `:187`), sessions. Abstract specification: a set of sessions
   in which each player has at most one open.
3. `Inventory`: edits of a player's file against the player joining
   (`inventory/player-data-file.service.ts:348`), and live moves in two commands of
   which the second may fail (`inventory/inventory-edit.service.ts:409`).
4. Datapacks beside `ServerContent`, and the dependency solver as a pure algorithm
   against a reference definition.

The number of runs stays as small as the number of questions: new modules get one
passing run each, with scenes in `Init` where situations differ.

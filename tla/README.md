# FleetPilot in TLA+

FleetPilot is a self-hosted fleet manager: one Flask process (gunicorn, one worker, four request
threads: `gunicorn.conf.py`) with a dozen background threads, SQLite and JSON files in a data
directory, a few root helpers behind `sudo`, and SSH to the managed hosts. This directory holds
TLA+ models of the parts whose correctness depends on the order in which those threads, helpers,
crashes and restarts act, the TLC runs that check them on small instances, and TLAPS proofs of what
matters most for every size.

Everything is translated from the source, not from the documentation. Where the documentation,
a comment or a message promises something the code does not keep, a run shows it (see *Divergences*).

- [How to run](#how-to-run)
- [Inventory](#inventory)
- [The modules](#the-modules)
- [How state and actions correspond to the code](#how-state-and-actions-correspond-to-the-code)
- [Runs, bounds and what they show](#runs-bounds-and-what-they-show)
- [Fairness](#fairness)
- [Proofs](#proofs)
- [Divergences](#divergences)
- [Seen while modelling](#seen-while-modelling)
- [Not modelled](#not-modelled)
- [Plan](#plan)

## How to run

    tlc -config Requests.cfg RequestsMC     # one run; module and cfg of each are in PROJECT.json
    tlapm Services_proofs.tla               # one proof module

`PROJECT.json` lists components, runs, the mutant that breaks each property, the source lines behind
every definition, hazards and theorems. Mutants are operators marked `Mutant` that stand before the
definition they would replace; no specification uses them.

## Inventory

State, operations and hard behaviour of each part that has any, and what makes it correct; the rest is
under *Not modelled*. Parts share the process. Where they also share state, the section says so.

### Disk Tools (`disktool_core.py`, routes in `app.py`, `scripts/fleetpilot-disk-action`)
State: SQLite tables `disks` and `operations`, the global `auto_enabled`, one thread per format, the
root helper. Operations: format, SMART test, stop, clear history, page view (`sync_disks`), the
auto-mode switch and loop, recovery at start. Page views, the auto-mode thread and the switch all run
the same `sync_disks()`, whose transaction and whose read of `auto_enabled` are apart. Hard: three
callers of one unlocked procedure, a transaction that locks the database while `lsblk` and `smartctl`
run, a clock of whole seconds deciding who is *new*, threads that outlive their row, stops of the
process. Correct means: a task row tells the truth about its thread, and auto mode tries what is new and
nothing else.

### Configuration backup and restore (`config_backup.py`, `runtime_env.py`)
State: `backups/*.tar.gz`, `restore_pending/`, the data directory, `pre-restore-*` folders. Operations:
create (a page, the daily thread), prune, delete, download; upload (stage), cancel, apply at start. Hard:
files are copied one by one while the program writes them; names are of a second, and two that share one
share its temporary file; pruning works on a list that admins change; the process stops between any two
file moves; a SQLite database has side files; two uploads share one directory. Correct means: a backup is
whole, its databases are consistent, and it stays; no file is lost by a restore, no database meets
another's write-ahead log, an archive is restored whole or not at all.

### Scheduled shutdown (`scheduled_shutdown.py`)
State: tables `shutdown_schedules` and `shutdown_log`, `_fired` in memory. Operations: add, edit,
toggle, delete, run now, the polling pass. Hard: a pass runs SSH commands one after the other while
time goes on and users edit; the database can refuse; restarts forget `_fired`. Correct means: a due
schedule is fired, once, and the log shows it.

### Update pages (`app.py` 3890-4220, `scripts/fleetpilot-update`)
State: running and restart-pending flags, update threads, root commands, systemd's restart timer.
Hard: flags tested and set apart; root commands that cannot be killed on time-out; every early return
must clear the flag; the thread schedules the end of its own process. Correct means: one helper at a
time, flags that clear, no restart announced that does not come.

### Users, roles and sessions (`user_management.py`, `account_security.py`, routes in `app.py`)
State: SQLite users, roles and `user_sessions`; the cookie of each browser. Operations: sign in and
out, change a password, end one's other sessions, add, edit and delete users, prune sessions. Each
request checks user, session row and password tag. Hard: handlers test first and write in several
transactions; a restart falls in between; a session row can be pruned. Correct means: an ended session
stays ended, and an active administrator is left.

### Lockout and two-factor sign-in (`app.py`, `two_factor.py`)
State: `_login_attempts` in memory by address and by account, counters in the cookie; tables of secrets,
backup codes, keys. Hard: a request tests the lists, then takes time over the password, then records;
lists are cut to their window only by the test; setting up an authenticator is a chain of requests that
can be left anywhere. Correct means: what locks was reported, locks end, a backup code works once, and
nobody is asked for codes of an app that does not hold the secret.

### Host list (`app.py`: `load_hosts`, `save_hosts` and their callers)
State: `hosts.json`, a 15-second cache that hands out the cached dictionary itself,
`_host_discovery_inflight`. Operations: add (form, scanner, registry API), edit, delete (page,
registry API), detect MAC or OS, upload an image, capability probes in threads of their own. Every save
also syncs the server registry and the hardware monitor. Hard: threads share the object, or hold two
copies; a slow probe answers late; a save truncates before it writes. Correct means: an abstract map,
of which each operation changes its own host.

### Server registry (`server_registry.py`)
State: SQLite `servers` and `server_modules`; a connection per thread, which may be inside a
transaction. Operations: `upsert_server`, `register_module`, delete, `batch()`, the import at start;
called by every save of the host list, by the pages of other modules and by the API. Hard: rows are
found by name *or* address; a batch rolls back, a single statement does not; a transaction nobody
committed is read and continued by the thread's next request. Correct means: a sync of the host list
arrives whole or not at all.

### Automatic updates (`scheduler.py`, `updater.py`)
State: `update_settings.json`, the APScheduler job, what each update thread does. Hard: settings saved
hours after they were loaded, a truncated file, scheduled and manual updates at once, `run_update()` has
many ways out. Correct means: every host is tried, and the report says what happened.

### Reverse proxy routes (`proxy_manager.py`, `scripts/fleetpilot-proxy-apply`)
State: `proxy_routes.json`, `haproxy.cfg`, its backup, what HAProxy has loaded. Hard: two roll-backs in
each other, of the registry by the request and of the configuration by the helper; time-outs of both.
Correct means: what a request answers about the routes is so.

### SMART manager (`smart_manager.py`)
State: alerts, poll settings, the worker. Hard: two collectors look for an open alert and insert one in
two statements; errors end the worker. Correct means: a disk that stays bad is alerted again and again.

### Audit log (`audit_log.py`)
State: a table whose rows carry the hash of the row before. Hard: the timestamp is taken before the wait
for the database; pruning goes by timestamps. Correct means: an untouched log verifies.

### Fan controller (`fan_controller.py`) and Corsair Commander (`corsair_commander.py`)
State: tables of devices and samples, pollers; the fans themselves. Operations: detect, test, install,
read, set. Hard: a command takes several remote steps and works on the device as it read it; one number
is a percentage and a register value; refreshes and pollers store in another order than they read;
detection, test and reading each look at a host in their own way. Correct means: pumps are not slowed,
a page shows its own device and does not go back, an answer fits the host.

### Router manager (`router_manager.py`)
State: `routers` with `status_json` and the secrets, files in `router_backups/`, the polling thread, a
session with the router per job (poll, update check, backup, restart) over SSH, HTTPS, TR-064 or TCP.
Hard: polls, pages and update checks write the whole status back after minutes; backups overlap, are
pruned and cut off; each platform asks in its own number of requests, any of which can fail, be refused
or be answered by nothing of use. Correct means: the page comes to show the router as it is; a saved
backup is kept; what is answered and what channels are told follows from what the router said.

### Backup servers (`backup_controller.py`)
State: SQLite `backup_servers`, jobs, snapshots, history; `_poll_threads`, `_poll_stop`, `_db_lock`.
Operations: add, edit, delete, refresh, the polling loop of each server, start of all at boot. Hard:
threads and events found by a number that outlives the row; requests to slow servers made while the one
database lock is held; an exception in the middle of a transaction. Correct means: each listed server is
polled, the lock is held by who works under it, the rows shown are those of one poll.

### Virtual machines (`vm_controller.py`)
State: endpoints, `vm_events`. Hard: each HTTP request is retried after an error that looks transient,
the action itself included. Correct means: the answer and the log say what was done.

### Hardware monitor (`hw_monitor.py`, `hw_monitor/hw_stress_test.py`)
State: SQLite tasks, servers, live rows; the collecting threads of a round; on the server, the stress
test with its phases, monitor and timer. Hard: a thread that is late writes in a later round; requests
cancel and delete tasks whose threads go on; three threads stop the stress test in any order. Correct
means: results stay, pages follow the servers, a failure is saved.

### Vulnerability scanner (`vuln_scanner.py`)
State: SQLite `targets`, `findings`, `settings`; `_progress`. Operations: scan all or one (own thread),
the daily loop, prune, store, notify. Works on the host list as it was at its beginning. Hard: the daily
scan ignores the running flag; a scan's list is old when it stores; failed scans must neither erase nor
hide findings. Correct means: a target shows its last good scan, what is new is reported, removed hosts
go.

### Notifications and e-mail (`notify.py`, `email_config.py`, `email_notifier.py`)
State: `notify_channels.json` under `_lock`; `email_settings.json` under none. Operations: add, change,
delete and test a channel, deliver a message (a thread per channel, which writes the outcome back); the
two forms of the e-mail page, and mails that ask several times whether they may leave. Hard: deliveries
report into a list that pages change; `send()` reads it without the lock; two posts of the e-mail page
share one temporary file. Correct means: what an administrator saved stays, deliveries or not, and no
mail leaves that nobody asked for.

### Version check (`version_manager.py`)
State: `version_check.json`, what git and GitHub say. Operations: check, dismiss. Hard: both load, wait
or compute, and save the whole file, which a save truncates first. Correct means: the notice is of a
version that a check found and nobody dismissed, and plugins hear of it once.

### Monitoring (`checkmk_integration.py`, `metrics.py`)
State: the token file; the answers are made from the SMART registry. Operations: page, new token, agent
output, piggyback, status, metrics. Hard: the token is made when first needed, without a lock, while it
can be replaced; disks of one name from several sources become one line. Correct means: a replaced token
opens nothing, and a disk that fails is told.

### Storage controller (`storage_controller.py`, `collect_remote_storage_disks()`)
State: `storage_endpoints`, `storage_disk_log`, the disk registry. Operations: add, delete, page, poll,
collect. Hard: a NAS is asked in several requests between which disks are swapped; rows are written one
by one, after the endpoint may have gone. Correct means: a row names a disk its NAS had, and what the
row says is of that disk.

## The modules

| module | models | theorems in |
|---|---|---|
| `DiskTools` | Disk Tools | `Requests_proofs` |
| `ConfigRestore` | staging and applying a restore | `Settings_proofs` |
| `ConfigBackup` | backups of the data directory | `Services_proofs` |
| `ShutdownSchedule` | scheduled shutdown | `Hosts_proofs` |
| `Accounts` | users, administrators, sessions | `Access_proofs` |
| `SignIn` | failed attempts and locks | `Access_proofs` |
| `TwoFactor` | authenticator app, backup codes, keys | `Access_proofs` |
| `HostMap` | what the host list promises: a map | |
| `HostStore` | file, cache and threads, refining `HostMap` | `Hosts_proofs` |
| `AutoUpdate` | automatic and manual updates of hosts | `Hosts_proofs` |
| `StressTest` | the stress test on a server | `Hosts_proofs` |
| `BackupPolling` | the polling threads of backup servers | `Services_proofs` |
| `BackupRecords` | the rows they write, refining `BackupPolling` | `Services_proofs` |
| `RouterBackups` | configuration backups of routers | `Services_proofs` |
| `VmActions` | power actions and job starts | `Services_proofs` |
| `VulnScan` | vulnerability scans and the daily schedule | `Services_proofs` |
| `AuditLog` | the audit log | `Requests_proofs` |
| `SelfUpdate` | both update pages | `Requests_proofs` |
| `ProxyRoutes` | reverse-proxy routes | `Requests_proofs` |
| `HwTasks` | the task manager of HW Monitor | `Requests_proofs` |
| `ServerRegistry` | the registry of servers | `Requests_proofs` |
| `FanControl` | setting fans | `Told_proofs` |
| `FanSamples` | reading fans | `Told_proofs` |
| `FanSetup` | detecting, testing, installing | `Told_proofs` |
| `Commander` | Corsair Commander devices | `Told_proofs` |
| `SmartAlerts` | disk alerts | |
| `RouterStatus` | the status of a router | |
| `HwMetrics` | the live values of servers | |
| `Notify` | channels of notifications, settings of e-mail | `Settings_proofs` |
| `VersionCheck` | the notice of a new version | `Told_proofs` |
| `Monitoring` | the token and the answers for CheckMK and Prometheus | `Told_proofs` |
| `StorageDisks` | disks of NAS systems | `Told_proofs` |
| `RouterDrivers` | what jobs ask of a router, and what is made of it | `Told_proofs` |
| `RequestPromises`, `TellPromises` | no state: promises of several of these modules stated together | `Requests_proofs`, `Services_proofs`; `Told_proofs` |

The `MC` modules instantiate them. `RequestsMC`, `PollersMC`, `AutomationMC`, `ProgressMC` and
`KeepingMC` each hold several parts that share no state: the variable `part` says which of them an
execution is one of, and one run explores them all. Since the parts are independent, this loses no
behaviour of any of them that a property of a single part could tell.

## How state and actions correspond to the code

A variable is a table, a file, a global or what a thread is doing; an action is a stretch of code
between two points at which another thread, a stop or an answer can come in between. What is only there
to state a property is marked *history* in its module and guards nothing.

**DiskTools.** `firstSeen` and `present` are the columns of `disks`, `ops` and `nextOp` the table
`operations` and its AUTOINCREMENT counter, `callers` what each caller of `sync_disks()` is doing
between `BeginSync` (the timestamp), `LockTables` and `CommitSync` (the transaction, which holds the
database), `ReadAutoFlag` and the loop over new disks, each of which has one try (`AutoFormat`,
`AutoSmart`; `LoopEscapes` is an error of the row that says what was skipped). `workers` are the format
threads: `WorkerValidates`, `HelperStarts`, `HelperEnds`, `WorkerFails`; what a thread has to report while
a sync holds the database is late or refused (`ReportsFailure`), and `unreported` notes whose end was.
`Crash`/`Boot` end the process and run `recover_interrupted_tasks()`.

**ConfigRestore.** A file's content is the archive it came from, `Live`, `Torn` or `None`. An upload is
one `StageClears`, `StageMakes`, then `StageOpens`/`StageVerifies` per file, then `StageReady` or
`Refuse`; `StageEscapes` are the errors that neither `except` names (a truncated archive, a manifest
that is no object, a database that is none), after which the staging stays (`uncaught`). A start is
`BootRestore`, then per listed name `MoveCurrent`, `MoveSide`, `MoveStaged`, then `ApplyDone`;
`ProcessStops` can come between any two. `kept` is what lies in pre-restore folders.

**ConfigBackup.** `maker` is a request to make a backup, or the daily thread: `MakeBegins`, `CopiesFile`
per file, `OpensDraft`, `PacksDraft` and `MovesDraft` are `create_backup()`, `ListsAutos` and `PrunesAuto`
are `prune()`. `halfWritten` are the files in the middle of a write, which a copy takes as they are unless
SQLite's backup makes it; `drafts` are the .tmp files. Two with the same second and label write into one
file, even after the first has moved it to its place (`PacksDraft`).

**ShutdownSchedule.** Two units of time make a minute, as the thread sleeps 30 seconds. `PassBegins`
reads the table, `Fire` marks and sends, `Logs` writes the row, `PassEnds` sleeps; `PassFails` is the
`except` of `_scheduler_loop`. A slow host keeps a pass waiting for up to `Patience` units, as the
connection, the banner, the sign-in, a second handshake and the command each have a time-out of their own.

**SelfUpdate.** `Admit` is the test of the flag, `Launch` the start of the thread, `Begin`/`Run`/
`ToolEnds`/`ToolTimesOut` its commands. `tools` are root processes: on the packages page one that times
out goes on alone (`GivesUp`), the FleetPilot helper is waited for, because `subprocess.run` cannot kill
it. `TimerFires` is the timer the helper leaves with systemd.

**Accounts.** `account` joins `users` and `user_roles`, `row` is `user_sessions`, `cookie` what a
browser sends: user, session, password tag. `Verifies` and `Completes` are the two halves of a login;
`EditsUser`, `Updates`, `SetsRoles`, `Revokes` and `DeletesUser`, `DeletesRows` the transactions of an
edit and a deletion, whose test of the last administrator comes first. `Completes` also prunes.

**SignIn.** `attempts` holds the ages of each list's failures; `PostsPassword` and `PostsCode` test the
lists, `Fails`, `PasswordRight`, `CodeRight`, `KeyRight` come when the check has taken its time.
`codeDue` and `wrongCodes` are in the cookie, `LimitSet` is the settings page.

**TwoFactor.** `totp` is the row with its secret and whether it is on; `app` the secrets the user's
app holds, `seen` the codes a page has shown. `visit` is what a browser's request has read and not yet
written: `EnableChecks`/`EnablesApp`, `SelectsCode`/`SpendsCode`, `IsChallenged`/`SignsChallenge`.

**ProxyRoutes.** `registry` is `proxy_routes.json`; `config`, `backup` and `running` are the helper's
files and HAProxy. A request `SavesRoute`, then the helper `LoadsRoutes`, `Checks`, `Replaces`,
`Reloads`, each with its failure, and after one the request puts back and applies once more.
`TakesLong` is the request's time-out.

**AuditLog.** `Stamps` takes the time, `Inserts` is the transaction; a row's hash is its id. `Prunes`
and `AuditRestart` delete by timestamp; `ClockMoves` both ways.

**HostStore.** Dictionary objects are numbered and `heap` holds their content, so that two threads that
hit the cache change one object and two that miss it change two. `LoadHits`, `LoadReads`, `LoadCaches`
are `load_hosts()`; `Opens`, `Dumps`, `Drops` are `save_hosts()`; `DumpRaises` is `json.dump` on a
dictionary that another thread resizes. `RefusedRename` is an edit whose port is no number: the host has
left the shared dictionary already, and `forgotten` notes it. `HostMap` calls that `Hide`, and `Recover`
the next reading of the file. `Looks`/`Answers` bracket the network call of detections and
probes.

**ServerRegistry.** `regTx` is the transaction a thread's connection is in, with the rows as it sees
them; `regOp` the entry it is at and what is left of its batch. `RegLooksUp` is the SELECT, `RegWrites`
the INSERT, UPDATE or DELETE and, outside a batch, the commit; `RegCommits` ends a batch; `ConstraintFails`
and `RegLocked` are the two errors, which only a batch rolls back (`RegGivesUp`). `RegRestart` runs the
import.

**AutoUpdate.** `saver` is a settings request (`Truncates`, `WritesSettings`, `RemovesJobs`, `AddsJob`);
`run` the job and the manual threads inside `run_update()`; `JobTruncates` and `JobSaves` are the job's
own save of what it had read.

**FanControl.** `devices` are the rows, `fan` what drives each channel, `command` a request between the
remote steps of its type. `PwmValue` and `PwmPercent` are the two conversions with their rounding.
**FanSamples.** `reading` is what the poller and each refresh have asked and not yet stored; ids are
given out once, `samples` keeps those of deleted devices.
**FanSetup.** A host is a record of what is installed and plugged in and of what its tools would print
(for ipmitool lines of any kind or of fan speeds, for liquidctl devices or their speeds, because detection
and reading parse them differently); `told` the last answer;
`install` an installation between its commands.
**Commander.** The same for `corsair_commander.py`, whose refresh stores good readings only and whose
samples, a set of rows, are pruned by age (`CcPurges`); of samples of one day that were equally good one
is kept, which no page can tell.

**SmartAlerts.** `collector` is what the worker and importing pages have read; `LooksForAlert` and
`RaisesAlert` are the SELECT and the INSERT. `Reached` are the disks whose host lists them: hosts that
take a password only never do, as the collector passes none on. `WorkerDies` is an error outside the
loop's `try`.

**RouterStatus.** `shown` is `status_json`; `routerJob` holds the status a poll or check read before it
asked. **RouterBackups.** `files` are router, second and whether whole; `CreatesFile` is `O_EXCL`,
`ListsBackups` and `PrunesOne` the removal of all but the newest, `DeletesRow` and `DeletesBackups` the
two steps of deleting a router. **RouterDrivers.** `record` is the row with its platform and the secrets
it has, `session` what each job has asked and heard; a job is `BeginsJob`, `RequestAnswered` or
`RequestFails` per request, with a fate of the request for each way in which a platform's driver reads
it, then `StatusComplete` or `StatusRefused`, `StoresStatus` or `StoresUpdates`, `ReportsChange`,
`JobAnswered`. `online` is what the page shows, `believed` what whoever reads the messages believes.

**BackupPolling.** `type` is the row, `nextId` the AUTOINCREMENT counter, `loop` and `stop` are
`_poll_threads` and the events of `_poll_stop`. A poll is `Gets`, `Asks` (the answer, and what each type
of server takes for a failure), `Locks`, `Stores` or `StoreRaises`, `Shows`; a page (`PageRefreshes`)
does the same in its request. `starting` and `deleting` stand between the two calls of the add and
delete handlers. **BackupRecords** repeats each of these steps with what it makes of the rows of jobs,
snapshots and history, inside the transaction of the poll.

**VmActions.** `vmClick` is the request a click is at and its attempt; `vmDone`, `vmLost`, `vmAnswers`
count what reached the server and what came back.

**HwTasks.** `taskRow` and `taskThread`; the id is answered before the row exists. **HwMetrics.** A
round starts a thread per server and waits 18 seconds (`RoundEnds18`); `Replaces` is `INSERT OR
REPLACE`. **StressTest.** `main`, `monitor`, `limiter` are its threads, `running` and `stopEvent` the
two flags they stop each other with. A signal is served by the main thread, which may hold the lock of
the log just then (`SignalledInLog`).

**VulnScan.** `status` and `findings` are the tables, `scan[u]` what a thread's scan has left to do and
has found new; `scan["schedule"]` is the daily one; `mayAsk` is `enabled()`, which an offline instance
is not. `StoresContainer` and `StoresServer` are `_store()`
with any result. A host has one container; routers and FleetPilot's own targets are hosts without one.

**Notify.** `channels` is the file, `lockedBy` who is inside `_lock` with the list it loaded there;
`RequestEnters`/`RequestSaves` are a change by a page, `Sends` the unlocked reading by `send()`,
`ServiceAnswers`, `DeliveryEnters`, `DeliverySaves` the thread of one delivery. Of e-mail, `mailTmp` is
the temporary file both forms write, `into` the name by which the file a post opened goes now;
`FormLoads`, `FormOpens`, `FormWrites`, `FormReplaces` are a post, `MailScheduled`, `MailWritten`,
`MailSent` the three times a report asks for the settings.

**VersionCheck.** Commits and releases are numbers, a release's tag negative. `CheckStarts` loads,
`ReleaseAnswers` and `CommitAnswers` are GitHub, `CheckOpens` and `CheckWrites` the save, `Announces` the
plugin hook; a dismissal is `DismissLoads`, `DismissOpens`, `DismissWrites`.

**Monitoring.** Tokens are numbered as they are made. `ReadsToken`, `MakesToken`, `WritesToken` are
`_get_or_create_cmk_token()`; `ChecksToken` compares; `TellsMonitoring` is the answer, made of
`disksListed` as it is then. `DiskSeen` is what the SMART registry does to it.

**StorageDisks.** `inSlot` is what is in the NAS, `endpoints` the table with the deleted rows, `asksNas`
what a page, a poll or a collection has read so far; one action per request of the TrueNAS and the Unraid
client, then `Registers`, `SavesHealth` and `LogsDisk` per disk.

## Runs, bounds and what they show

| run | parts and their instances | checks |
|---|---|---|
| `requests` | format tasks (1 disk, which auto mode skips, 2 tasks), restore (2 files, 2 archives, 1 upload at a time, 2 stops), proxy (2 routes, 1 request at a time), audit (2 recorders, 3 events, 3 times), updates (1 request, 2 jobs), accounts (2 users, 2 sessions, 2 browsers, 1 request), tasks (2), registry (2 threads, 2 names, 2 addresses, 2 requests), rows of backups (1 server of 2 types), router backups (1 router, 2 requests, 2 kept, 4 seconds), actions on guests (2 clicks, 2 retries), backups of the data directory (2 requests and the daily thread, 1 database, 1 kept, 2 seconds) | `RequestsTypeOK`, `RunningFormatHasWorker`, `WorkersReportTheirOwnTask`, `OkMeansFormatted`, `ResultsAreFinal`, `NoForeignSide`, `NothingLost`, `StagedIsOneArchive`, `RestoreIsWhole`, `ChainVerifies`, `AnnouncedRestartComes`, `AloneIsRight`, `SomeAdminLeft`, `EndedStaysEnded`, `WritesAreKept`, `RecordsAreTrue` |
| `pollers` | host list (1 name, 2 threads, 2 dictionary objects), backup servers (2, a page, 1 restart), scheduled shutdown (2 schedules, one of a host that takes up to 4 half-minutes, the other there and due from the start, a day of 3 minutes, 4 half-minutes, 1 edit), fan readings (2 devices, 1 refresh), fan set-up (2 kinds of host), Commander (1 device, kept 1 day, 2 days pass), monitoring (2 requests, 2 tokens, 2 sources with a disk of the same name), NAS disks (1 NAS with 1 slot, 2 disks, 2 endpoints, 1 request; nobody asks once a row is logged), version (1 check, 1 dismissal, 2 commits, 1 release), routers' jobs (all 10 platforms, 1 job at a time, 2 tries) | `PollersTypeOK`, `OneProbePerHost`, `ServersArePolled`, `OncePerMinute`, `DueIsFired`, `LogShowsRuns`, `PagesStay`, `AnswersFit`, `ToldIsTrue` |
| `automation` | auto mode (1 disk, seconds 1-2), SMART alerts (1 disk, within reach, 1 import), automatic updates (2 hosts, 1 manual, 1 save) | `BaselineSafeAfterItsSecond`, `ReportsAreTrue`, `MCFormatTasksEnd`, `ActsOnItsOwn` |
| `progress` | host list (2 names, 2 settings, 1 thread), stress test, and smaller instances of restore, updates, sign-in, shutdown, routers (1 operator, 1 restart), live values (1 server, 2 threads of it) | `CacheMatchesFile`, `ImplementsMap`, `FailureIsSaved`, `WhatBeginsEnds`, `PagesFollow` |
| `keeping` | vulnerabilities (1 host, a user's scan beside the daily one), setting fans (3 types, 2 channels, one a pump), sign-in (2 clients, 2 users), factors (1 enrolling, 1 signing in), channels (2 ids, a limit of 1, 2 messages), e-mail (2 posts, 1 mail) | `ShowsLastGood`, `PumpsSpared`, `LocksAreReported`, `FactorsHold`, `SettingsAreKept`, `MCGoneHostsGo` |
| `restore_unverified`, `pumps_below_minimum` | the instances of `requests` and `keeping` | violated, see *Divergences* |
| `disk_attached_not_touched`, `hosts_lost`, `audit_chain`, `auto_not_resumed`, `vulns_baseline` | as small as shows it | violated, see *Divergences* |

Properties that end in the same question are checked as one: `WhatBeginsEnds`, `PagesFollow` and
`ActsOnItsOwn` (liveness per part), `WritesAreKept`, `AloneIsRight`, `RecordsAreTrue`, `PagesStay`,
`FactorsHold`, `SettingsAreKept`, `ToldIsTrue`.

Why the bounds are enough: every hazard here needs at most two actors, two objects and one repetition.
Two tasks let a cleared id be given out again; the second stop falls into the start that repairs the
first; two seconds are the switch and the second after; four half-minutes contain a whole minute with a
pass before and after it; two dictionary objects are what two threads hold at once, or one of them and
the cache; three events are an inversion and what is pruned of it; two backups of four seconds and two
kept are one to prune; of the data directory's, two seconds with one kept are one to prune, and two
requests in one of them share a name. Where a proof exists (below) the bound does not matter. A limit of
one channel is reached by the second, two posts of the e-mail page are the two forms, and two sources
are what it takes for two disks of one name. Instances with one request (`proxy`, `update`, `accounts`,
`restore`) are one by intent: what they check does not hold of overlapping ones, which is said at the
property, in the theorem's hypothesis and under *Seen while modelling*.

## Fairness

Only what the scheduler of Python and systemd give, so that no liveness property depends on anybody
clicking or anything breaking; users, plugs, stops, failures and time-outs owe nothing.

- A thread that can run runs: weak fairness per thread, task or job (format threads, uploads, update
  jobs, host list threads, scans, router actors, collecting threads, the stress test's main thread, and
  its monitor and timer as long as the test is on).
- systemd starts the service again (`Boot`, `BootRestore`), and its timer fires (`TimerFires`).
- Time passes: minutes for the locks of `SignIn`, half-minutes for the shutdown poller, days for the
  daily scan.
- `lsblk` and the database do not fail for ever: strong fairness of `SyncListed`; of the SMART worker's
  listing (of disks within reach), reading and writing of a disk, because a poll can be cut off by a
  restart but not every one; of a collecting thread's `Replaces`, for the same reason.
- A scheduled probe has a thread of its own and gets to run (strong, as it may wait for a modelled
  thread). The scheduler runs the automatic job again and again while it exists (strong fairness of
  `JobRuns`, as saves remove and add the job). The daily scan's thread wakes every quarter of an hour
  for ever, so it is not always stopped before the end of its first steps (strong fairness of
  `Schedules`, `ScanBegins`, `Prunes`).

## Proofs

TLC checks small instances; the theorems hold for all values of the constants: any sets of disks, files,
hosts, users, browsers, threads, routers, any limits, windows and bounds. They assume the constants' named
assumptions, and where the code keeps a promise only to one actor at a time, a hypothesis that says so:
the same restriction that the run has, and the one under which the property was stated. `PROJECT.json`
lists the theorems. Each module says with each theorem which promise of the code it is about.

The inductive invariants, and why the property alone is not enough:

- **`Requests_proofs`**, Disk Tools. `TaskInv`: ids below the counter are unique to a row and to a
  thread, a thread's row is its own FORMAT row if it is still there, a thread gone before its row ended
  was refused its report, nothing lives while the process is down. From it `RunningTasksAreAlive`,
  `ReportsGoHome`, `OkIsTrue` and the action property `TaskResultsAreFinal`. `SyncInv`, on what a caller
  read and when, gives `BaselineIsSafe`.
- **`Settings_proofs`**. `IInv` says per file and per point of the loop where its old content and its
  side files are, and that a half-applied staging and what was already moved are together the whole
  archive: `SideFilesMatch`, `PreviousFilesKept`, `WholeArchiveRestored`. `StageInv` follows the one
  upload file by file: `OneArchiveIsStaged` (one upload at a time, and no error left uncaught).
  `ChannelInv` says what whoever is inside the lock holds of the list, and that only requests change
  what was asked (`ChannelsStay`); `MailInv` which of the two files a post at each of its steps has
  opened, and what the settings will be if it is cut off there (`MailSettingsStay`). `SettingsStayKept`
  puts both together.
- **`Hosts_proofs`**, scheduled shutdown. `IInv`: what was sent in a minute is marked in `_fired`, a
  marked schedule is on no list of a later pass of that minute, no pass is of a minute that has not
  begun (`FiresOncePerMinute`). `LogInv` adds that what is marked was sent and what was sent is logged
  or being handled (`RunsAreLogged`). `DueInv` adds how far a pass can lag behind the clock: it is over
  before a later minute is half over, unless that minute is noted in `outlasted` (`DueSchedulesFire`,
  for hosts however many and slow).
- **`Access_proofs`**. `AccountInv`: session numbers ahead of the counter have no row, an ended
  session's row is revoked or gone (`SessionsStayEnded`). `AdminInv`: an edit past its test still sees
  another administrator (`AnAdminIsLeft`, one editor at a time). `LockInv`: a list that is long was
  reported when it became so (`LocksWereReported`). `CodeInv`: a request knows the codes that were dead
  when it came (`DeadCodesAreRefused`); `HeldInv`: what the page of the one enrolling browser has
  checked is still the row's secret (`FactorsHoldInOneBrowser`).
- **`Hosts_proofs`**, hosts. `HostInv` for any number of threads: at most one probe of a host, and a
  dictionary held past the load (`ProbesAreSingle`). For one thread, the refinement of `HostMap`
  (`StoreIsTheMap`): an operation takes effect when `save_hosts()` opens the file; until the dump is
  done the abstract list is what the thread's dictionary says, a stop in between is the map's loss of
  all hosts, and a cache that is younger than the file's last writer equals it but for the hosts of
  failed renames, which the map hides until the file is read again (`CacheIsTheFile`). `RunInv`: what a
  run has noted so far, by its step (`UpdateReportsAreTrue`). `FailureInv`: who lowered the flag because
  of the hardware has named the failure first, and the results are written with the flag down
  (`StressFailureIsSaved`).
- **`Services_proofs`**. `PolledInv`: numbers not given out have no thread, a stop event is only set by
  a deletion (`ListedServersArePolled`). `RecordsSpec` refines `BackupSpec` step by step
  (`PollsWithRowsArePolls`), so `PolledInv` is available for the rows: `RowsInv` says that jobs,
  snapshots and history outside a transaction are of one poll (`RowsAreOfOnePoll`). `VmInv` counts, per
  click and step, attempts, answers and lost answers against what was done (`VmActionsAreTold`).
  `KeptInv` says what each request still knows of the backup it wrote and of those it is about to
  remove: a backup may only go once its router is deleted or enough newer ones were stored, and neither
  is ever undone (`BackupsStay`). `ArchivesInv` does the same for backups of the data directory, where
  what the daily thread is about to remove is outnumbered by newer ones and stays so, because the names
  that were made only grow (`SystemBackupsStay`). `ShownInv` relates a row's status to what it still
  shows (`LastGoodIsShown`).
- **`Requests_proofs`**, the others. `AuditInv`: as long as nothing was inserted late, ids and
  timestamps agree and the rows that remain are consecutive (`PruningKeepsTheChain`). `UpdateInv`, and
  for one request `HelperInv`: a helper at work has its flag, its thread and no other
  (`RestartsComeAsAnnounced`, `OneHelperAtWork`). `ProxyInv`: at each step of the helper and of both
  roll-backs, which of registry, configuration, backup and loaded routes are known to be which
  (`ProxyAnswersAreTrue`, one request at a time). `RegInv`: row ids are unique in the table and in each
  transaction, a new row gets one that nobody knows, and what a sync has copied is in its transaction
  under names that it has copied: a later entry that finds such a row by address can only rename it to
  its own name (`SyncsAreWhole`). `TasksInv` for `TaskResultsStay`. `RequestsTypeCorrect` puts the type
  invariants of the four larger parts together.
- **`Told_proofs`**. `SetupInv`, the property with the type of the host, for `AnswersAlwaysFit`;
  `FanInv`: what a command passed on compared was what it sends (`PumpsAreSpared`), with
  `SpeedComesBack` on the two roundings; `SamplesInv`: ids are not given out twice, a stored sample is
  of its id's device, and the newest by time stays among those stored (`FanPagesStay`). `CommanderInv`:
  a Commander's samples have a newest one while there are any, through stores in any order and pruning,
  which keeps that one or nothing (`CommanderPagesAreKept`); `PagesKeepStaying` puts the two together.
  `VersionInv`: every text in the file, and whatever a check or dismissal loaded, holds only versions
  that a check found under their kind (`NoticesStayTrue`). `TokenInv`: tokens are new when they are
  made, and a request let in holds none that was old when it came (`TokensStayRight`); `AnswerInv`, with
  the largest source of a name, which exists because there are finitely many (`FailuresStayTold`).
  `StorageInv`: at each step, what a request has read of a disk is of one its NAS had, and numbers are
  given out in order (`DisksStayTheirOwn`). `DriverInv`: what a job has heard and been refused so far,
  by its step and platform, and that while nothing is disturbed at most the job that reports next knows
  more than what is believed (`RoutersStayTold`). `ToldStaysTrue` puts the last four together.

The named assumptions say only what the code fixes: limits are numbers, and at least one backup is kept
(`max(1, …)` in `app.py`); databases are among the files (`ConfigBackupAssumption`), pumps among the
channels, platforms among those of `router_manager.py` (`DriverAssumption`); the daily thread is no
request, and an administrator's request no delivery (`AdminsAreNotDeliveries`).

What a proof attempt changed: two CASE definitions of `ServerRegistry` had arms that overlapped, of
which TLC takes the first; they are exclusive now. `FanControl` says that marked pumps are channels,
`RouterBackups` that the number kept is a number, and `BackupPolling` that pages are not numbers of
servers. `Commander` keeps its samples as a set, as the table does; as a sequence they were pruned by a
recursive operator, which no proof reaches.

Model-checked only: all liveness (`WhatBeginsEnds`, `MCFormatTasksEnd`, `ActsOnItsOwn`, `PagesFollow`,
`MCGoneHostsGo`), which is beyond the prover like anything under fairness; and `PollersTypeOK` as one
formula: each of its conjuncts is proved (`HostTypeCorrect` and `TypeCorrect` in `Hosts_proofs`,
`BackupTypeCorrect` in `Services_proofs`), in modules whose names clash. `SmartAlerts`, `RouterStatus`
and `HwMetrics` have only liveness properties.

## Divergences

Shown by a run: auto mode can format the disks present at switch-on, when the page the switch
redirects to syncs within the same second (`disk_attached_not_touched`); a stop during an upload
leaves an unverified staging that the next start applies (`restore_unverified`); two overlapping saves
lose a host whose add was answered (`hosts_lost`); an untouched audit log fails its verification after
events were inserted in another order than their timestamps (`audit_chain`); after a restart automatic
updates are on and no job makes them (`auto_not_resumed`); after a failed scan the next good one counts
as a baseline, so what it finds first is reported to nobody (`vulns_baseline`); setting one fan over USB
slows a pump to 50 percent (`pumps_below_minimum`).

## Seen while modelling

Behaviour the models contain, or that had to be decided to write them; no run is kept for it.

*Disks, backups, schedules, updates.* JSON files copied in the middle of a write are torn in an archive,
with a checksum that fits; two admins in one second share a .tmp file; .tmp files of failed backups
stay. A format whose OK and whose FAIL both meet a sync that holds the database leaves its row RUNNING
until the next start; a new disk that auto mode could not format at once is skipped for good, and its
page says so only if the database takes the row. An upload that ends in an error which `stage_restore()`
does not catch (`EOFError` of a truncated archive, `AttributeError` of a manifest that is a list,
`sqlite3.DatabaseError` of a file that is no database) stays in `restore_pending`, unverified, and the
next start applies it. Stopping a format only relabels its row, and a disk plugged in under a recorded
device name is never new. Two overlapping uploads mix their archives in `restore_pending`; the restore
page shows one as waiting during the upload, and two starts in one second share a pre-restore folder. A
host that answers late holds the poller for up to a minute and a half and more, so that it misses what
is due meanwhile; a schedule deleted during a pass is still run by it; `_fired` is lost at a restart.
Two clicks that both find a flag clear start two FleetPilot updates or two `apt-get` runs, and one that
times out runs on.

*Accounts and sign-in.* Two overlapping edits can remove the last administrator. Re-hashing a password
at login ends the user's other sessions. The fallback of `verify_totp` without pyotp has a slip of
precedence (`& 0x7FFFFFFF % 1000000`), so real codes never match. Two requests at once can both accept
one backup code; a setup between an enable's check and its update enables a secret nobody verified;
`setup_totp` switches an enabled app off; disabling the app deletes the backup codes though keys remain.

*Hosts, registry, updates of hosts.* Renaming a host with a port that is no number takes it out of the
list in memory (`app.py:2671-2683`): it is back once the cache expires, or gone for good if somebody saves
first. `server_registry` keeps a connection per thread: an IntegrityError
outside `batch()` keeps the write lock until that thread writes again, and "database is locked" there
leaves the thread in a transaction that reads an old snapshot. Two hosts with one address share a row;
hosts deleted from the list stay; a fan device with a host's name moves the host's entry to another
address and resets its tags; `fc_add` registers `fan_controller`, the import `fan_control`. A scheduled
run's save undoes a setting changed meanwhile (`scheduler.py:63`), and each save restarts the interval;
nothing excludes a manual and a scheduled update of one host; a local Linux update never runs (a string
with `shell=False`); plugin hooks need an app context that update threads lack; "could not detect OS" is
mailed twice.

*Proxy, SMART.* Overlapping proxy requests can lose a route; a reload beyond 30 seconds leaves the new
configuration. A warm disk, or one with a warning attribute, hides a critical one; two collections can
open duplicate alerts although `smart_manager.py:462-464` promises one; disks of Proxmox and storage
endpoints raise none; an error of `get_poll_config()` ends the worker until a restart; an unreadable disk
counts as GOOD; hosts that take a password only never list their disks, though the docstring of
`collect_all_ssh_hosts()` says it skips "hosts without SSH key or password" (`smart_manager.py:626-627`):
it never passes the password on; `app.py:6444` calls `smart_manager.get_summary()`, which does not exist.

*Fans.* nbfc's auto mode sets 0 %; ipmi always answers ok; the Arctic kernel script answers OK with 0
channels written; `fc_edit` drops pump marks and `ipmi_pass`, and a blank password overwrites the stored
one; `fc_add` and `backup_add` pass notes in the place of `use_sudo`; samples of deleted devices stay.
Checks that end in `| head -1` always exit 0: the test says "Connected. Tool: … command not found", the
detection suggests four tools for every host, is sure of ipmi at any line with a bar and of liquidctl at
any device, though neither may have fan speeds to read, and "Tool not found on remote host" is unreachable. An
installation whose verification fails says "Installation complete"; its progress log is imported from
where it is not. The Commander is set without sudo and read with it; a failed refresh is not stored.

*Routers, backups, guests.* The router poller ends when `list_routers()` raises; a poll that overlaps the
first refresh, or a restart between saving and reporting, can leave an outage unreported. A backup that
finishes after its router was deleted leaves a file; a failed write leaves an empty one; a clock set back
can prune the newest. A restart over SSH whose connection is closed while it signs in is answered as
done; a backup that SSH cuts off is accepted; messages about an outage are missed or doubled when jobs of
one router overlap. A failing package update on OpenWrt, pfSense or RouterOS is stored as "0 updates".
A Proxmox Backup Server that does not answer is shown as "ok" without jobs, as is a restic repository
whose snapshots are refused; Bacula's rows begin with `|`, so no job is read and its trigger always
answers ok; a Duplicati job in state "unknown" is in no count; a late poll of a deleted or edited server
writes its rows, and foreign keys are off, so rows of deleted servers stay. A power action is retried
after a time-out though it may have been carried out. A storage connection test answers "Connected … ?"
when nothing was reached.

*Hardware monitor.* A failing `ssh_run` gives "success"; a cancelled task runs on and is overwritten by
its result; running rows stay after a restart; the acknowledgement archives NULL, because it clears the
failure first, and the error is back at the next poll; `INSERT OR REPLACE` wipes columns; each host save
enables removed servers again; late collectors overwrite newer rows; `api_hw_task_detail` always answers
404. `pkill -f hw_stress_test.py` in the start and stop commands ends its own shell; hosts without an
NVIDIA GPU stop at the first reading; a failed fio is "passed"; SIGTERM waits for the current phase, and
one that meets the main thread inside `log()` stops it for ever (`hw_stress_test.py:155-158`): the lock
is not reentrant.

*Notifications, versions, monitoring, NAS.* Two posts of the e-mail page can lose or garble the settings,
which then read as the defaults: no mail leaves. A notification can be sent to a channel that a page
switched off meanwhile. Overlapping checks and dismissals of a version lose a notice or a dismissal; the
worker that checks on its own runs only under `__main__`, so never under gunicorn. Two requests that both
find no token each make one: a page can show a token that is not in the file. Of disks of one name only
the one of the source sorted last is told, so a failing one can be missing among the "Failed / Critical
Disks" that "show the current state" (`docs/user-guide.md:269`). Nothing writes a host's `status` or
`pending_updates` or an endpoint's `connected`: CheckMK is told that hosts are unknown, never have updates
pending, and that endpoints are unreachable; piggyback data has no disks. Two NAS systems of one platform
share the registry rows of disks with the same name.

*Scanner, data.* What a container's scan found new is not reported when its host's own scan fails.
`data_sync` replaces live SQLite files without their `-wal`.

## Not modelled

What only runs one command per request, parses or renders: system monitor, hardware information,
translations, templates, SSH wrappers, the Android app, the .NET service, the Home Assistant client, the
demo, installers and CI. `PROJECT.json` has the reason for each. Plugins run foreign code. Of what is
modelled, figures, wording and validation of forms are abstracted, and pages that only read are left out.

## Plan

1. `PollersTypeOK` as one theorem, after renaming what clashes between `HostStore`, `VulnScan`,
   `StressTest`, `ShutdownSchedule` and `BackupRecords`.
2. Safety of `RouterStatus` and `HwMetrics` under their liveness properties, as invariants that the
   runs check and theorems state: what a page shows was true at some time after the last restart.
3. `ArpTracking` (a new address of a known host reaches the host list) and `DataSync` (import beside
   open connections).

----------------------------- MODULE DiskTools -----------------------------
(***************************************************************************)
(* Disk Tools of FleetPilot (disktool_core.py and its routes in app.py).   *)
(*                                                                         *)
(* One process serves page requests, an auto-mode thread and one thread    *)
(* per format task; they share the SQLite tables `disks' and `operations'  *)
(* and the global auto_enabled.  sync_disks() is run by every page view,   *)
(* by the auto-mode thread and by the baseline of set_auto_mode(); it      *)
(* takes a timestamp, rewrites the disks table in one transaction, which   *)
(* locks the database for as long as lsblk and smartctl take, and only     *)
(* then reads auto_enabled and formats what it found to be new.  Each of   *)
(* those points is a step of its own here.  Any other write waits for the  *)
(* lock at most 15 seconds: while it is held, a write is delayed or fails. *)
(*                                                                         *)
(* Time is the wall clock in seconds: the resolution of CURRENT_TIMESTAMP  *)
(* and of the strftime() call, which is what decides who is "new".         *)
(***************************************************************************)
EXTENDS Naturals, FiniteSets

CONSTANTS
    Devices,      \* block device names (sda, sdb, mmcblk0, ...)
    SystemDisks,  \* devices backing /, /boot or /boot/firmware
    AutoSkip,     \* AUTO_SKIP_DEVICE and the nvme* names
    Requests,     \* threads serving a page view or the auto-mode switch
    AutoWorker,   \* the auto_mode_worker thread
    MaxTime,      \* bound: last second of the clock
    MaxOps        \* bound: rows ever inserted into operations

ASSUME DiskConstants ==
    /\ SystemDisks \subseteq Devices
    /\ AutoSkip \subseteq Devices
    /\ AutoWorker \notin Requests
    /\ MaxTime \in Nat
    /\ MaxOps \in Nat

VARIABLES
    clock,        \* wall clock, seconds
    attached,     \* names in /sys/block (external)
    up,           \* the FleetPilot process is running
    firstSeen,    \* disks.first_seen per device, 0 = no row
    present,      \* devices whose row has present = 1
    autoEnabled,  \* the global auto_enabled
    ops,          \* the operations table, a set of rows
    nextOp,       \* its AUTOINCREMENT counter
    callers,      \* what each caller of sync_disks() is doing
    workers,      \* live format_worker threads
    formatted,    \* ghost: ids of the tasks whose helper finished the format
    baseline,     \* ghost: disks recorded at switch-on and attached ever since
    enabledAt,    \* ghost: second in which auto mode was last switched on
    owed,         \* ghost: disks attached while auto mode is on, not yet tried
    unreported    \* ghost: ids of the tasks whose end a locked database refused

tables == <<firstSeen, present, ops, nextOp>>
ghosts == <<formatted, baseline, enabledAt, owed, unreported>>
vars == <<clock, attached, up, tables, autoEnabled, callers, workers, ghosts>>

Callers == Requests \union {AutoWorker}

Actions == {"FORMAT", "SMART", "AUTO_MODE_SKIPPED"}
Statuses == {"RUNNING", "OK", "FAIL", "STOPPED", "INTERRUPTED"}

Row == [id: Nat, device: Devices, action: Actions, status: Statuses]

Worker == [op: Nat, device: Devices, phase: {"queued", "validated", "writing", "failing"}]

Caller == [pc: {"idle", "begun", "holding", "committed", "formatting", "testing", "enabling"},
           enables: BOOLEAN, now: Nat, new: SUBSET Devices, cur: SUBSET Devices]

Idle == [pc |-> "idle", enables |-> FALSE, now |-> 0, new |-> {}, cur |-> {}]

TypeOK ==
    /\ clock \in Nat \ {0}
    /\ attached \in SUBSET Devices
    /\ up \in BOOLEAN
    /\ firstSeen \in [Devices -> Nat]
    /\ present \in SUBSET Devices
    /\ autoEnabled \in BOOLEAN
    /\ ops \in SUBSET Row
    /\ nextOp \in Nat \ {0}
    /\ callers \in [Callers -> Caller]
    /\ workers \in SUBSET Worker
    /\ formatted \in SUBSET Nat
    /\ baseline \in SUBSET Devices
    /\ enabledAt \in Nat
    /\ owed \in SUBSET Devices
    /\ unreported \in SUBSET Nat

Init ==
    /\ clock = 1
    /\ attached \in SUBSET Devices
    /\ SystemDisks \subseteq attached
    /\ up = TRUE
    /\ firstSeen = [d \in Devices |-> 0]
    /\ present = {}
    /\ autoEnabled = FALSE
    /\ ops = {}
    /\ nextOp = 1
    /\ callers = [c \in Callers |-> Idle]
    /\ workers = {}
    /\ formatted = {}
    /\ baseline = {}
    /\ enabledAt = 0
    /\ owed = {}
    /\ unreported = {}

(***************************************************************************)
(* The operations table and the format threads                             *)
(***************************************************************************)

\* Mutant of NextId: a plain INTEGER PRIMARY KEY gives the largest id plus one.
ReusedId == IF ops = {} THEN 1 ELSE 1 + CHOOSE n \in {r.id : r \in ops} : \A r \in ops : r.id <= n

\* id INTEGER PRIMARY KEY AUTOINCREMENT: larger than any id ever used.
NextId == nextOp

NewRow(d, action) ==
    [id |-> NextId, device |-> d, action |-> action, status |-> "RUNNING"]

\* A sync_disks() is inside its transaction.
TablesLocked == \E c \in Callers : callers[c].pc = "holding"

\* log_op(): the row and the id that AUTOINCREMENT gives it.
LogOp(d, action) ==
    /\ ~TablesLocked
    /\ nextOp <= MaxOps
    /\ ops' = ops \union {NewRow(d, action)}
    /\ nextOp' = nextOp + 1

\* update_op(status=...) on a terminal status: an UPDATE by id, whatever the
\* row holds and whether or not it still exists.
Finish(r, status) == [r EXCEPT !.status = status]

UpdateOp(id, status) ==
    ops' = {IF r.id = id THEN Finish(r, status) ELSE r : r \in ops}

\* validate_format_target(): an existing whole disk that backs no system mount.
Formattable(d) == d \in attached /\ d \notin SystemDisks

StartWorker(d) ==
    workers' = workers \union {[op |-> NextId, device |-> d, phase |-> "queued"]}

\* POST /disks/format: start_format() for a device the user confirmed.
UserFormat(d) ==
    /\ up
    /\ Formattable(d)
    /\ LogOp(d, "FORMAT")
    /\ StartWorker(d)
    /\ UNCHANGED <<clock, attached, up, firstSeen, present, autoEnabled, callers, ghosts>>

\* POST /disks/smart/start: smartctl -t and a row that nothing will close.
UserSmart(d) ==
    /\ up
    /\ d \in attached
    /\ LogOp(d, "SMART")
    /\ UNCHANGED <<clock, attached, up, firstSeen, present, autoEnabled, callers,
                   workers, ghosts>>

SetPhase(w, phase) == workers' = (workers \ {w}) \union {[w EXCEPT !.phase = phase]}

\* The thread ends after reporting status to its row.
Report(w, status) ==
    /\ ~TablesLocked
    /\ UpdateOp(w.op, status)
    /\ workers' = workers \ {w}
    /\ UNCHANGED unreported

\* The `except' branch: FAIL is reported, unless the database is locked again;
\* then that exception ends the thread and the row stays as it is.
ReportsFailure(w) ==
    \/ Report(w, "FAIL")
    \/ /\ TablesLocked
       /\ workers' = workers \ {w}
       /\ unreported' = unreported \union {w.op}
       /\ UNCHANGED ops

\* format_worker() validates the target again and writes its progress; lsblk
\* and the database can fail it for a good target too.
WorkerValidates(w) ==
    /\ w.phase = "queued"
    /\ \/ Formattable(w.device) /\ ~TablesLocked /\ SetPhase(w, "validated") /\ UNCHANGED <<ops, unreported>>
       \/ ReportsFailure(w)
    /\ UNCHANGED <<clock, attached, up, firstSeen, present, nextOp, autoEnabled,
                   callers, formatted, baseline, enabledAt, owed>>

\* fleetpilot-disk-action repeats the checks, and may refuse for a mounted
\* partition or a missing formatter, before the first destructive command.
HelperStarts(w) ==
    /\ w.phase = "validated"
    /\ \/ Formattable(w.device) /\ SetPhase(w, "writing") /\ UNCHANGED <<ops, unreported>>
       \/ ReportsFailure(w)
    /\ UNCHANGED <<clock, attached, up, firstSeen, present, nextOp, autoEnabled,
                   callers, formatted, baseline, enabledAt, owed>>

\* Mutant of HelperEnds: the exit status of the helper is not looked at.
HelperEndsUnchecked(w) ==
    /\ w.phase = "writing"
    /\ Report(w, "OK")
    /\ formatted' \in {formatted, formatted \union {w.op}}
    /\ UNCHANGED <<clock, attached, up, firstSeen, present, nextOp, autoEnabled,
                   callers, baseline, enabledAt, owed>>

\* wipefs, dd, sfdisk and mkfs: success needs the device to the end, any
\* failing command makes the exit status non-zero.  An OK that the locked
\* database refuses is an exception like any other.
HelperEnds(w) ==
    /\ w.phase = "writing"
    /\ \/ /\ w.device \in attached
          /\ Report(w, "OK")
          /\ formatted' = formatted \union {w.op}
       \/ /\ w.device \in attached
          /\ TablesLocked
          /\ SetPhase(w, "failing")
          /\ formatted' = formatted \union {w.op}
          /\ UNCHANGED <<ops, unreported>>
       \/ ReportsFailure(w) /\ UNCHANGED formatted
    /\ UNCHANGED <<clock, attached, up, firstSeen, present, nextOp, autoEnabled,
                   callers, baseline, enabledAt, owed>>

\* The `except' branch after the refused OK.
WorkerFails(w) ==
    /\ w.phase = "failing"
    /\ ReportsFailure(w)
    /\ UNCHANGED <<clock, attached, up, firstSeen, present, nextOp, autoEnabled,
                   callers, formatted, baseline, enabledAt, owed>>

WorkerStep(w) == WorkerValidates(w) \/ HelperStarts(w) \/ HelperEnds(w) \/ WorkerFails(w)

\* POST /disks/task/stop: writes the status and nothing else.
StopTask(id) ==
    /\ up
    /\ ~TablesLocked
    /\ \E r \in ops : r.id = id
    /\ ops' = {IF r.id = id THEN [r EXCEPT !.status = "STOPPED"] ELSE r : r \in ops}
    /\ UNCHANGED <<clock, attached, up, firstSeen, present, nextOp, autoEnabled,
                   callers, workers, ghosts>>

\* POST /disks/clear_history: the rows go, the AUTOINCREMENT counter stays.
ClearHistory ==
    /\ up
    /\ ~TablesLocked
    /\ ops # {}
    /\ ops' = {}
    /\ UNCHANGED <<clock, attached, up, firstSeen, present, nextOp, autoEnabled,
                   callers, workers, ghosts>>

(***************************************************************************)
(* sync_disks()                                                            *)
(***************************************************************************)

\* The timestamp is taken before the connection is opened.
BeginSync(c, enables) ==
    /\ up
    /\ callers[c] = Idle
    /\ callers' = [callers EXCEPT ![c] = [Idle EXCEPT !.pc = "begun",
                                                      !.enables = enables,
                                                      !.now = clock]]
    /\ UNCHANGED <<clock, attached, up, tables, autoEnabled, workers, ghosts>>

\* GET /disks.
ViewDisks(c) == c \in Requests /\ BeginSync(c, FALSE)

\* One round of the auto_mode_worker() loop.
AutoRound == autoEnabled /\ BeginSync(AutoWorker, FALSE)

\* POST /disks/toggle_auto while auto mode is off: set_auto_mode(True) first
\* records the attached disks.
SwitchOn(c) == c \in Requests /\ ~autoEnabled /\ BeginSync(c, TRUE)

\* POST /disks/toggle_auto while auto mode is on.
SwitchOff ==
    /\ up
    /\ autoEnabled
    /\ autoEnabled' = FALSE
    /\ baseline' = {}
    /\ enabledAt' = 0
    /\ owed' = {}
    /\ UNCHANGED <<clock, attached, up, tables, callers, workers, formatted, unreported>>

\* Mutant of Sighted: the REPLACE forgets the old first_seen.
SightedAfresh(listed) == [d \in Devices |-> IF d \in listed THEN clock ELSE firstSeen[d]]

\* first_seen after INSERT OR REPLACE ... COALESCE(old, CURRENT_TIMESTAMP).
Sighted(listed) ==
    [d \in Devices |-> IF d \in listed /\ firstSeen[d] = 0 THEN clock ELSE firstSeen[d]]

\* Mutant of NewDevices: `first_seen > now'.
NewDevicesStrictly(seen, now) == {d \in Devices \ AutoSkip : seen[d] # 0 /\ seen[d] > now}

\* SELECT device FROM disks WHERE first_seen >= now, less the skipped names.
NewDevices(seen, now) == {d \in Devices \ AutoSkip : seen[d] # 0 /\ seen[d] >= now}

\* The first UPDATE of the transaction takes the lock.
LockTables(c) ==
    /\ callers[c].pc = "begun"
    /\ ~TablesLocked
    /\ callers' = [callers EXCEPT ![c].pc = "holding"]
    /\ UNCHANGED <<clock, attached, up, tables, autoEnabled, workers, ghosts>>

\* The rest of the transaction, with lsblk's answer read inside it.
CommitSync(c, listed) ==
    /\ callers[c].pc = "holding"
    /\ firstSeen' = Sighted(listed)
    /\ present' = listed
    /\ callers' = [callers EXCEPT ![c].pc = "committed",
                                  ![c].new = NewDevices(Sighted(listed), callers[c].now)]
    /\ UNCHANGED <<clock, attached, up, ops, nextOp, autoEnabled, workers, ghosts>>

SyncListed(c) == CommitSync(c, attached)

\* lsblk failed or printed no JSON: ls_disks() returns [] and no row is present.
SyncUnlisted(c) == CommitSync(c, {})

\* "database is locked" after 15 s: the exception leaves sync_disks(), and with
\* it set_auto_mode() when this was its baseline.
AbortSync(c) ==
    /\ callers[c].pc = "begun"
    /\ TablesLocked
    /\ callers' = [callers EXCEPT ![c] = Idle]
    /\ UNCHANGED <<clock, attached, up, tables, autoEnabled, workers, ghosts>>

\* What follows sync_disks() in its caller.
AfterSync(c) ==
    IF callers[c].enables THEN [Idle EXCEPT !.pc = "enabling", !.enables = TRUE] ELSE Idle

\* `if auto_enabled:', read after the transaction.
ReadAutoFlag(c) ==
    /\ callers[c].pc = "committed"
    /\ callers' = [callers EXCEPT ![c] = IF autoEnabled
                                         THEN [callers[c] EXCEPT !.pc = "formatting"]
                                         ELSE AfterSync(c)]
    /\ UNCHANGED <<clock, attached, up, tables, autoEnabled, workers, ghosts>>

\* start_format(dev, 'ext4', 'quick') of the loop over new_devices; whatever
\* it raises is logged as AUTO_MODE_SKIPPED and the loop goes on.  The target
\* may be protected or gone, lsblk or findmnt may fail or take too long, and
\* the database may be locked: the disk has had its only try.
AutoFormat(c, d) ==
    /\ callers[c].pc = "formatting"
    /\ d \in callers[c].new
    /\ \/ /\ Formattable(d)
          /\ LogOp(d, "FORMAT")
          /\ StartWorker(d)
          /\ callers' = [callers EXCEPT ![c].pc = "testing", ![c].cur = {d},
                                        ![c].new = @ \ {d}]
       \/ /\ LogOp(d, "AUTO_MODE_SKIPPED")
          /\ callers' = [callers EXCEPT ![c].new = @ \ {d}]
          /\ UNCHANGED workers
    /\ owed' = owed \ {d}
    /\ UNCHANGED <<clock, attached, up, firstSeen, present, autoEnabled,
                   formatted, baseline, enabledAt, unreported>>

\* start_smart(dev, 'short') of the same iteration.
AutoSmart(c) ==
    /\ callers[c].pc = "testing"
    /\ \E d \in callers[c].cur :
           \/ d \in attached /\ LogOp(d, "SMART")
           \/ LogOp(d, "AUTO_MODE_SKIPPED")
    /\ callers' = [callers EXCEPT ![c].pc = "formatting", ![c].cur = {}]
    /\ UNCHANGED <<clock, attached, up, firstSeen, present, autoEnabled, workers, ghosts>>

\* The log_op() of the `except' branch finds the database locked: the exception
\* leaves sync_disks(), and the disks still to come are never new again.
LoopEscapes(c) ==
    /\ TablesLocked
    /\ \/ callers[c].pc = "formatting" /\ callers[c].new # {}
       \/ callers[c].pc = "testing"
    /\ callers' = [callers EXCEPT ![c] = Idle]
    /\ owed' = owed \ callers[c].new
    /\ UNCHANGED <<clock, attached, up, tables, autoEnabled, workers,
                   formatted, baseline, enabledAt, unreported>>

AutoDone(c) ==
    /\ callers[c].pc = "formatting"
    /\ callers[c].new = {}
    /\ callers' = [callers EXCEPT ![c] = AfterSync(c)]
    /\ UNCHANGED <<clock, attached, up, tables, autoEnabled, workers, ghosts>>

\* `auto_enabled = bool(enabled)' at the end of set_auto_mode(True).
FinishEnable(c) ==
    /\ callers[c].pc = "enabling"
    /\ callers' = [callers EXCEPT ![c] = Idle]
    /\ autoEnabled' = TRUE
    /\ IF autoEnabled
       THEN UNCHANGED <<baseline, enabledAt>>
       ELSE baseline' = present \intersect attached /\ enabledAt' = clock
    /\ UNCHANGED <<clock, attached, up, tables, workers, formatted, owed, unreported>>

SyncStep(c) ==
    \/ LockTables(c) \/ SyncListed(c) \/ SyncUnlisted(c) \/ AbortSync(c)
    \/ ReadAutoFlag(c)
    \/ \E d \in Devices : AutoFormat(c, d)
    \/ AutoSmart(c) \/ LoopEscapes(c) \/ AutoDone(c) \/ FinishEnable(c)

(***************************************************************************)
(* The process and its surroundings                                        *)
(***************************************************************************)

\* The service dies with all its threads; systemd ends the helpers of its
\* control group with it.  auto_enabled lives in memory only.
Crash ==
    /\ up
    /\ up' = FALSE
    /\ autoEnabled' = FALSE
    /\ callers' = [c \in Callers |-> Idle]
    /\ workers' = {}
    /\ baseline' = {}
    /\ enabledAt' = 0
    /\ owed' = {}
    /\ unreported' = {}
    /\ UNCHANGED <<clock, attached, tables, formatted>>

\* Mutants of Recovered: no recovery; recovery without its WHERE clause; a
\* status outside the list update_op() knows.
RecoveredNone(r) == r
RecoveredAll(r) == Finish(r, "INTERRUPTED")
RecoveredAsAborted(r) == IF r.status = "RUNNING" THEN Finish(r, "ABORTED") ELSE r

\* recover_interrupted_tasks(): the row after the UPDATE.
Recovered(r) == IF r.status = "RUNNING" THEN Finish(r, "INTERRUPTED") ELSE r

\* Start of the service: recover_interrupted_tasks() before the first request.
Boot ==
    /\ ~up
    /\ up' = TRUE
    /\ ops' = {Recovered(r) : r \in ops}
    /\ UNCHANGED <<clock, attached, firstSeen, present, nextOp, autoEnabled, callers,
                   workers, ghosts>>

\* A disk is plugged in or appears; with auto mode on it is owed a try.
Attach(d) ==
    /\ d \notin attached
    /\ attached' = attached \union {d}
    /\ owed' = IF autoEnabled /\ d \notin AutoSkip THEN owed \union {d} ELSE owed
    /\ UNCHANGED <<clock, up, tables, autoEnabled, callers, workers, formatted,
                   baseline, enabledAt, unreported>>

Detach(d) ==
    /\ d \in attached \ SystemDisks
    /\ attached' = attached \ {d}
    /\ baseline' = baseline \ {d}
    /\ owed' = owed \ {d}
    /\ UNCHANGED <<clock, up, tables, autoEnabled, callers, workers, formatted, enabledAt,
                   unreported>>

\* A second passes.
Tick ==
    /\ clock < MaxTime
    /\ clock' = clock + 1
    /\ UNCHANGED <<attached, up, tables, autoEnabled, callers, workers, ghosts>>

Next ==
    \/ \E d \in Devices : UserFormat(d) \/ UserSmart(d) \/ Attach(d) \/ Detach(d)
    \/ \E w \in workers : WorkerStep(w)
    \/ \E id \in 1..MaxOps : StopTask(id)
    \/ ClearHistory
    \/ \E c \in Requests : ViewDisks(c) \/ SwitchOn(c)
    \/ AutoRound
    \/ SwitchOff
    \/ \E c \in Callers : SyncStep(c)
    \/ Crash \/ Boot \/ Tick

Spec == Init /\ [][Next]_vars

(***************************************************************************)
(* Fairness.  Threads keep running, lsblk recovers, a waiting sync gets    *)
(* the database in the end, the auto-mode loop comes round every ten       *)
(* seconds and systemd restarts the service.  Users, plugs, crashes and    *)
(* failures owe nothing.                                                   *)
(***************************************************************************)
AutoStep(c) == \/ LockTables(c) \/ ReadAutoFlag(c) \/ AutoSmart(c) \/ LoopEscapes(c) \/ AutoDone(c)
               \/ FinishEnable(c)
               \/ \E d \in Devices : AutoFormat(c, d)

Fairness ==
    /\ WF_vars(Boot)
    /\ WF_vars(AutoRound)
    /\ \A id \in 1..MaxOps : WF_vars(\E w \in workers : w.op = id /\ WorkerStep(w))
    /\ \A c \in Callers :
           /\ SF_vars(SyncListed(c))
           /\ WF_vars(AutoStep(c))

FairSpec == Spec /\ Fairness

(***************************************************************************)
(* Properties                                                              *)
(***************************************************************************)

\* While the service is up, a format task shown as RUNNING has a thread that
\* will report to it, or its thread could not report its end because a sync
\* held the database: no restart, clear or stop, and no failure of the format,
\* leaves a task running in the list (recover_interrupted_tasks,
\* format_worker).
RunningFormatHasWorker ==
    up => \A r \in ops :
            r.action = "FORMAT" /\ r.status = "RUNNING"
                => r.id \in unreported \/ \E w \in workers : w.op = r.id

\* A format thread only ever reports into the task it was started for: a
\* thread that outlives clear_history() never finds its id given to another
\* task (log_op, update_op, clear_history).
WorkersReportTheirOwnTask ==
    \A w \in workers, r \in ops :
        r.id = w.op => r.action = "FORMAT" /\ r.device = w.device

\* A task the list calls OK was formatted to the end by its own helper
\* (format_worker, update_op).
OkMeansFormatted ==
    \A r \in ops : r.status = "OK" => r.id \in formatted

\* A result once written is final: neither a late thread nor the recovery at
\* the next start replaces OK, FAIL or INTERRUPTED; only a user's stop may
\* (update_op, recover_interrupted_tasks, stop_task).
ResultsAreFinal ==
    [][\A r \in ops, s \in ops' :
          s.id = r.id /\ r.status \in {"OK", "FAIL", "INTERRUPTED"}
              => s.status \in {r.status, "STOPPED"}]_vars

\* Disks recorded when auto mode was switched on and left attached are only
\* ever queued for formatting by a sync that began in, or before, the second
\* of the switch: the first_seen filter of sync_disks() holds from the next
\* second on, across page views, replugs of other disks and lsblk failures.
BaselineSafeAfterItsSecond ==
    \A c \in Callers :
        callers[c].new \intersect baseline # {} => callers[c].now <= enabledAt

\* A format task does not stay RUNNING for ever, unless a locked database
\* refused the report of its end; then it does until the next start
\* (format_worker, recover_interrupted_tasks).
FormatTasksEnd ==
    \A id \in 1..MaxOps :
        (\E r \in ops : r.id = id /\ r.action = "FORMAT" /\ r.status = "RUNNING")
            ~> \/ id \in unreported
               \/ ~(\E r \in ops : r.id = id /\ r.action = "FORMAT" /\ r.status = "RUNNING")

OpsBudgetSpent == nextOp > MaxOps

\* A disk never recorded before that is attached while auto mode is on has its
\* one try: it is queued for formatting, a row says why it was skipped, or
\* even that row was refused by a locked database; unless it is pulled, auto
\* mode ends or (bound of the model) no operation id is left (sync_disks).
NewDiskIsTried ==
    \A d \in Devices \ SystemDisks :
        d \in owed /\ firstSeen[d] = 0 ~> d \notin owed \/ OpsBudgetSpent

\* set_auto_mode(): "Disks already attached when auto mode is switched on are
\* recorded first, so only disks plugged in afterwards are formatted."
AttachedDisksNotTouched ==
    [][\A c \in Callers :
          callers[c].pc = "formatting" /\ callers'[c].pc = "testing"
              => callers'[c].cur \intersect baseline = {}]_vars

=============================================================================

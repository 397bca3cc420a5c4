---------------------------- MODULE BackupRecords ----------------------------
(***************************************************************************)
(* What the polls of a backup server write (backup_controller.py): its     *)
(* jobs, its snapshots and a line of its history, in one transaction.  The *)
(* threads, pages, locks and failures are those of BackupPolling; here each*)
(* of its steps also says what becomes of the rows.                        *)
(***************************************************************************)
EXTENDS BackupPolling, FiniteSets

CONSTANTS MaxItems,  \* bound: tasks, backups, repositories or clients of a server
          MaxRuns    \* bound: no poll of a listed server begins after as many have written

VARIABLES backupJobs,  \* backup_jobs of each server: which poll wrote them, how many are in which state
          snaps,       \* backup_snapshots: which poll wrote them, how many there are
          history,     \* the newest line of backup_history
          writes,      \* what the transaction of a poll has written
          runs         \* polls that got as far as writing

recordVars == <<backupVars, backupJobs, snaps, history, writes, runs>>

NoRows == [run |-> 0, type |-> "none", ok |-> 0, warn |-> 0, error |-> 0, unknown |-> 0]
NoWrites == [rows |-> NoRows, snaps |-> 0, left |-> 0]

RecordsInit ==
    /\ BackupInit
    /\ backupJobs = [id \in ServerIds |-> NoRows] /\ snaps = [id \in ServerIds |-> [run |-> 0, n |-> 0]]
    /\ history = [id \in ServerIds |-> NoRows]
    /\ writes = [p \in Pollers |-> NoWrites] /\ runs = 0

-----------------------------------------------------------------------------
(* What a poll of each type deletes before it inserts.                        *)
ReplacesJobs(t) == t # "restic"
ReplacesSnapshots(t) == t \in {"pbs", "restic", "borgwarehouse"}

(* The jobs that are written at once: tasks, repositories, clients, lines of  *)
(* bconsole; one line for a command.                                          *)
Counted(run, t, o, w, e) == [NoRows EXCEPT !.run = run, !.type = t, !.ok = o, !.warn = w, !.error = e]
Numbers == 0 .. MaxItems
UpTo(some) == {o \in some : o[1] + o[2] + o[3] <= MaxItems}

PbsTasks           == UpTo(Numbers \X Numbers \X Numbers)
BorgRepositories   == UpTo(Numbers \X Numbers \X {0})
UrbackupClients    == Numbers \X Numbers \X {0}  \* a client has a job for files and one for images
BaculaLines        == UpTo(Numbers \X Numbers \X Numbers)
SshCommand         == {<<1, 0, 0>>, <<0, 1, 0>>}

Outcomes(t) ==
    CASE t = "pbs"           -> PbsTasks
      [] t = "borgwarehouse" -> BorgRepositories
      [] t = "urbackup"      -> UrbackupClients
      [] t = "bacula"        -> BaculaLines
      [] t = "ssh_generic"   -> SshCommand
      [] OTHER               -> {<<0, 0, 0>>}

(* What the server is asked for one by one, in the middle of the transaction: *)
(* the snapshots of a datastore, the filesets of a backup, the snapshots of a *)
(* repository.                                                                *)
MoreToAsk(t) == IF t \in {"pbs", "duplicati", "restic"} THEN Numbers ELSE {0}

(* ... of a datastore: an error keeps what was inserted before it.            *)
PbsMore(w) == {w, [w EXCEPT !.snaps = @ + 1]}

(* ... of a backup: an error is a job in a state that no page counts.         *)
DuplicatiMore(w) == {[w EXCEPT !.rows.ok = @ + 1], [w EXCEPT !.rows.warn = @ + 1], [w EXCEPT !.rows.unknown = @ + 1]}

(* ... of a repository: a refusal counts as good, and one whose snapshots     *)
(* cannot be read counts twice.                                               *)
ResticMore(w) ==
    {[w EXCEPT !.rows.ok = @ + 1, !.snaps = @ + n] : n \in {0, 1}}
    \cup {[w EXCEPT !.rows.warn = @ + 1], [w EXCEPT !.rows.ok = @ + 1, !.rows.warn = @ + 1]}

More(w) ==
    CASE w.rows.type = "pbs"       -> PbsMore(w)
      [] w.rows.type = "duplicati" -> DuplicatiMore(w)
      [] OTHER                     -> ResticMore(w)

-----------------------------------------------------------------------------
\* Mutant: the rows written at once are committed before the server is asked for more.
AtOnce(p) == TRUE

(* Nothing is seen of a transaction before it is committed.                   *)
Early(p) == FALSE

JobsAre(id, rows) == backupJobs' = IF ReplacesJobs(rows.type) THEN [backupJobs EXCEPT ![id] = rows] ELSE backupJobs

TransactionBegins(p) ==
    /\ runs' = runs + 1
    /\ Locks(p)
    /\ \E o \in Outcomes(poll[p].type), n \in MoreToAsk(poll[p].type) :
           LET rows == Counted(runs', poll[p].type, o[1], o[2], o[3]) IN
           /\ writes' = [writes EXCEPT ![p] = [rows |-> rows, snaps |-> 0, left |-> n]]
           /\ IF Early(p) THEN JobsAre(poll[p].id, rows) ELSE UNCHANGED backupJobs
    /\ UNCHANGED <<snaps, history>>

AsksForMore(p) ==
    /\ poll[p].pc = "stores" /\ writes[p].left > 0
    /\ \E w \in More(writes[p]) : writes' = [writes EXCEPT ![p] = [w EXCEPT !.left = @ - 1]]
    /\ UNCHANGED <<backupVars, backupJobs, snaps, history, runs>>

(* The line of history counts a job without a state as a warning.             *)
HistoryLine(rows) == [rows EXCEPT !.warn = @ + rows.unknown, !.unknown = 0]

Commits(p) ==
    LET id == poll[p].id  w == writes[p] IN
    /\ w.left = 0 /\ Stores(p)
    /\ JobsAre(id, w.rows)
    /\ snaps' = IF ReplacesSnapshots(w.rows.type) THEN [snaps EXCEPT ![id] = [run |-> w.rows.run, n |-> w.snaps]] ELSE snaps
    /\ history' = [history EXCEPT ![id] = HistoryLine(w.rows)]
    /\ writes' = [writes EXCEPT ![p] = NoWrites] /\ UNCHANGED runs

(* Data nobody expected; the connection goes with the exception.              *)
PollRollsBack(p) ==
    /\ StoreRaises(p) /\ writes' = [writes EXCEPT ![p] = NoWrites]
    /\ UNCHANGED <<backupJobs, snaps, history, runs>>

RecordsRestart ==
    /\ PollRestart /\ writes' = [p \in Pollers |-> NoWrites]
    /\ UNCHANGED <<backupJobs, snaps, history, runs>>

MayBegin(id) == runs < MaxRuns \/ ~Existing(id)

(* Whatever else happens leaves the rows alone; those of a deleted server     *)
(* stay, and a poll that is under way when it is deleted adds its own.        *)
RowsStay ==
    /\ \/ \E p \in Pollers : Gets(p) \/ Shows(p) \/ \E a \in Replies : AsksServer(p, a)
       \/ \E id \in ServerIds : \/ Starts(id) \/ StopsPolling(id) \/ Deletes(id)
                                \/ \E t \in ServerTypes : Edits(id, t)
                                \/ MayBegin(id) /\ (LoopTests(id) \/ \E p \in Pages : PageRefreshes(p, id))
       \/ \E t \in ServerTypes : Adds(t)
    /\ UNCHANGED <<backupJobs, snaps, history, writes, runs>>

RecordsNext ==
    \/ \E p \in Pollers : TransactionBegins(p) \/ AsksForMore(p) \/ Commits(p) \/ PollRollsBack(p)
    \/ RowsStay \/ RecordsRestart

RecordsSpec == RecordsInit /\ [][RecordsNext]_recordVars

-----------------------------------------------------------------------------
(* Whatever polls overlap, fail, are cut off or still go by a type that was   *)
(* edited: the rows a page reads are those of one poll.  The newest line of   *)
(* history counts the jobs that are there, if its type has jobs, and the      *)
(* snapshots are of the same poll, if its type has snapshots.                 *)
RecordsAreWhole ==
    \A id \in ServerIds : history[id].run > 0 =>
        /\ ReplacesJobs(history[id].type) => history[id] = HistoryLine(backupJobs[id])
        /\ ReplacesSnapshots(history[id].type) => snaps[id].run = history[id].run
=============================================================================

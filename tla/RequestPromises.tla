-------------------------- MODULE RequestPromises --------------------------
(* Promises of parts that share the process and no state, stated together:    *)
(* format tasks, restoring a configuration, users and sessions, proxy routes, *)
(* updates of FleetPilot, tasks of HW Monitor, the registry of servers; rows  *)
(* of backup servers, configurations of routers, what was asked of virtual    *)
(* machines, backups of the data directory.                                   *)
EXTENDS DiskTools, ConfigRestore, Accounts, ProxyRoutes, SelfUpdate, HwTasks, ServerRegistry,
        BackupRecords, RouterBackups, VmActions, ConfigBackup

(* The types of the parts that state one.                                     *)
RequestsTypeOK == TypeOK /\ RestoreTypeOK /\ UpdateTypeOK /\ AccountTypeOK

(* Once a task of HW Monitor has a result it keeps it; a sync of the host list *)
(* arrives in the registry as a whole or not at all.                          *)
WritesAreKept == ResultsStay /\ SyncIsWhole

(* What is promised to requests that come one at a time: two FleetPilot updates*)
(* are never at work, and what a change of the proxy routes answers is so.    *)
AloneIsRight == OneHelper /\ AnswersAreTrue

(* What is kept is whole and says what happened: a router's newest backups are*)
(* kept, the rows of a backup server are those of one poll, and the event log *)
(* tells of the actions on virtual machines; a backup of the data directory is*)
(* whole, with a consistent copy of each database, and stays until an admin   *)
(* deletes it or newer ones of the daily thread follow.                       *)
RecordsAreTrue == BackupsKept /\ RecordsAreWhole /\ ActionsAreTold /\ SystemBackupsHold
=============================================================================

----------------------------- MODULE PollersMC -----------------------------
(* The host list with two threads, the polling of backup servers, of fan      *)
(* controllers, of Commanders and of NAS systems, what is told of a fan       *)
(* controller's host, of a new version, of routers and to monitoring systems, *)
(* and scheduled shutdown, safety: an execution is one of any of them.        *)
EXTENDS HostStore, BackupPolling, ShutdownSchedule, FanSamples, FanSetup, Commander, TellPromises
Base == [up |-> TRUE, root |-> TRUE, debian |-> TRUE, tools |-> {"python3"}, arctic |-> "usb",
         pi |-> "no", cooling |-> "other", has |-> {"pwm", "bmc", "rpm", "cooler", "speeds"}]
MCFanHosts == {Base, [Base EXCEPT !.pi = "overlay", !.cooling = "pwm-fan", !.root = FALSE, !.debian = FALSE, !.has = {"bmc", "cooler"}]}
VARIABLE part

MCInit == /\ HostInit /\ BackupInit /\ Init /\ FanSamplesInit /\ FanSetupInit /\ CommanderInit /\ MonitoringInit /\ StorageInit /\ VersionInit /\ DriversInit
          /\ part \in {"hosts", "backup", "shutdown", "samples", "fansetup", "commander", "monitoring", "storage", "version", "drivers"}
          \* Where the others start does not matter: one of their initial states is enough.
          /\ part # "shutdown" => rows = [id \in Ids |-> NoRow]
          /\ part # "fansetup" => fanHost = Base
          /\ part # "storage" => \A n \in Nases, s \in Slots : inSlot[n][s] = Nothing
          /\ part # "version" => runningCommit = 0
          \* One schedule of a host that answers at once is there from the start, due every day.
          /\ part = "shutdown" => \A id \in Ids \ Slow : rows[id] = [at |-> 0, days |-> 0 .. DaysPerWeek - 1, enabled |-> TRUE]
InHosts(A) == part = "hosts" /\ A /\ UNCHANGED <<backupVars, vars, fanSampleVars, setupVars, commanderVars, monitoringVars, storageVars, versionVars, driverVars, part>>
InBackup(A) == part = "backup" /\ A /\ UNCHANGED <<hostVars, vars, fanSampleVars, setupVars, commanderVars, monitoringVars, storageVars, versionVars, driverVars, part>>
InShutdown(A) == part = "shutdown" /\ A /\ UNCHANGED <<hostVars, backupVars, fanSampleVars, setupVars, commanderVars, monitoringVars, storageVars, versionVars, driverVars, part>>
InSamples(A) == part = "samples" /\ A /\ UNCHANGED <<hostVars, backupVars, vars, setupVars, commanderVars, monitoringVars, storageVars, versionVars, driverVars, part>>
InFansetup(A) == part = "fansetup" /\ A /\ UNCHANGED <<hostVars, backupVars, vars, fanSampleVars, commanderVars, monitoringVars, storageVars, versionVars, driverVars, part>>
InCommander(A) == part = "commander" /\ A /\ UNCHANGED <<hostVars, backupVars, vars, fanSampleVars, setupVars, monitoringVars, storageVars, versionVars, driverVars, part>>
InMonitoring(A) == part = "monitoring" /\ A /\ UNCHANGED <<hostVars, backupVars, vars, fanSampleVars, setupVars, commanderVars, storageVars, versionVars, driverVars, part>>
InStorage(A) == part = "storage" /\ A /\ UNCHANGED <<hostVars, backupVars, vars, fanSampleVars, setupVars, commanderVars, monitoringVars, versionVars, driverVars, part>>
InVersion(A) == part = "version" /\ A /\ UNCHANGED <<hostVars, backupVars, vars, fanSampleVars, setupVars, commanderVars, monitoringVars, storageVars, driverVars, part>>
InDrivers(A) == part = "drivers" /\ A /\ UNCHANGED <<hostVars, backupVars, vars, fanSampleVars, setupVars, commanderVars, monitoringVars, storageVars, versionVars, part>>
MCNext == \/ InHosts(HostNext)
          \/ InBackup(BackupNext)
          \/ InShutdown(Next)
          \/ InSamples(FanSamplesNext)
          \/ InFansetup(FanSetupNext)
          \/ InCommander(CommanderNext)
          \/ InMonitoring(MonitoringNext)
          \/ InStorage(StorageNext)
          \/ InVersion(VersionNext)
          \/ InDrivers(DriversNext)
MCVars == <<hostVars, backupVars, vars, fanSampleVars, setupVars, commanderVars, monitoringVars, storageVars, versionVars, driverVars, part>>
MCSpec == MCInit /\ [][MCNext]_MCVars

(* The types of the parts that state one. *)
PollersTypeOK == HostTypeOK /\ BackupTypeOK /\ TypeOK
=============================================================================

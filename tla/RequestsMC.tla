---------------------------- MODULE RequestsMC ----------------------------
(* What requests and their threads do, safety: format tasks, restoring a      *)
(* configuration, proxy routes, the audit log, updating FleetPilot, users and *)
(* sessions, tasks of HW Monitor, the registry of servers, rows of backup     *)
(* servers, configurations of routers, actions on virtual machines, backups   *)
(* of the data directory.  These share the process and no state: an execution *)
(* is one of any of them, and one run explores them all.                      *)
EXTENDS AuditLog, RequestPromises
CONSTANTS db, conf, full, older
MCHolds == [a \in {full, older} |-> IF a = full THEN {db, conf} ELSE {db}]
VARIABLE part

MCInit == /\ Init /\ RestoreInit /\ ProxyInit /\ AuditInit /\ UpdateInit /\ AccountInit /\ HwTasksInit /\ RegInit /\ RecordsInit /\ RouterBackupsInit /\ VmInit /\ ConfigBackupInit
          /\ part \in {"disks", "restore", "proxy", "audit", "update", "accounts", "hwtasks", "registry", "records", "routerbackups", "vms", "sysbackups"}
          \* Where the others start does not matter: one of their initial states is enough.
          /\ part # "disks" => attached = Devices
          /\ part # "restore" => data = NoFiles
          /\ part # "proxy" => registry = {} /\ config = {}
          /\ part # "audit" => machineTime = 0
          /\ part # "registry" => regHosts = {}
InDisks(A) == part = "disks" /\ A /\ UNCHANGED <<restoreVars, proxyVars, auditVars, updateVars, accountVars, taskVars, regVars, recordVars, routerBackupVars, vmVars, configBackupVars, part>>
InRestore(A) == part = "restore" /\ A /\ UNCHANGED <<vars, proxyVars, auditVars, updateVars, accountVars, taskVars, regVars, recordVars, routerBackupVars, vmVars, configBackupVars, part>>
InProxy(A) == part = "proxy" /\ A /\ UNCHANGED <<vars, restoreVars, auditVars, updateVars, accountVars, taskVars, regVars, recordVars, routerBackupVars, vmVars, configBackupVars, part>>
InAudit(A) == part = "audit" /\ A /\ UNCHANGED <<vars, restoreVars, proxyVars, updateVars, accountVars, taskVars, regVars, recordVars, routerBackupVars, vmVars, configBackupVars, part>>
InUpdate(A) == part = "update" /\ A /\ UNCHANGED <<vars, restoreVars, proxyVars, auditVars, accountVars, taskVars, regVars, recordVars, routerBackupVars, vmVars, configBackupVars, part>>
InAccounts(A) == part = "accounts" /\ A /\ UNCHANGED <<vars, restoreVars, proxyVars, auditVars, updateVars, taskVars, regVars, recordVars, routerBackupVars, vmVars, configBackupVars, part>>
InHwtasks(A) == part = "hwtasks" /\ A /\ UNCHANGED <<vars, restoreVars, proxyVars, auditVars, updateVars, accountVars, regVars, recordVars, routerBackupVars, vmVars, configBackupVars, part>>
InRegistry(A) == part = "registry" /\ A /\ UNCHANGED <<vars, restoreVars, proxyVars, auditVars, updateVars, accountVars, taskVars, recordVars, routerBackupVars, vmVars, configBackupVars, part>>
InRecords(A) == part = "records" /\ A /\ UNCHANGED <<vars, restoreVars, proxyVars, auditVars, updateVars, accountVars, taskVars, regVars, routerBackupVars, vmVars, configBackupVars, part>>
InRouterbackups(A) == part = "routerbackups" /\ A /\ UNCHANGED <<vars, restoreVars, proxyVars, auditVars, updateVars, accountVars, taskVars, regVars, recordVars, vmVars, configBackupVars, part>>
InVms(A) == part = "vms" /\ A /\ UNCHANGED <<vars, restoreVars, proxyVars, auditVars, updateVars, accountVars, taskVars, regVars, recordVars, routerBackupVars, configBackupVars, part>>
InSysbackups(A) == part = "sysbackups" /\ A /\ UNCHANGED <<vars, restoreVars, proxyVars, auditVars, updateVars, accountVars, taskVars, regVars, recordVars, routerBackupVars, vmVars, part>>
MCNext == \/ InDisks(Next)
          \/ InRestore(RestoreNext)
          \/ InProxy(ProxyNext)
          \/ InAudit(AuditNext)
          \/ InUpdate(UpdateNext)
          \/ InAccounts(AccountNext)
          \/ InHwtasks(HwTasksNext)
          \/ InRegistry(RegNext)
          \/ InRecords(RecordsNext)
          \/ InRouterbackups(RouterBackupsNext)
          \/ InVms(VmNext)
          \/ InSysbackups(ConfigBackupNext)
MCVars == <<vars, restoreVars, proxyVars, auditVars, updateVars, accountVars, taskVars, regVars, recordVars, routerBackupVars, vmVars, configBackupVars, part>>
MCSpec == MCInit /\ [][MCNext]_MCVars
=============================================================================

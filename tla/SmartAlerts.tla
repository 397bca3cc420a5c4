---------------------------- MODULE SmartAlerts ----------------------------
(***************************************************************************)
(* Disk alerts (smart_manager.py): the poll worker and the pages that      *)
(* import disks both read each disk, classify what they read and raise an  *)
(* alert if none is open.                                                  *)
(*                                                                         *)
(* Looking for an open alert and inserting one are two statements.  A user *)
(* acknowledges alerts; nothing else closes them.                          *)
(***************************************************************************)
EXTENDS Naturals

CONSTANTS Disks,     \* local ones and those of SSH hosts
          Reached,   \* those of this machine and of hosts that let FleetPilot in with a key
          Readings,  \* what smartctl says of a disk: a subset of Reading
          Importers, \* request threads that import disks
          MaxOpen    \* bound: open alerts of a disk and level

VARIABLES reading,   \* the disks' true values
          polls,     \* poll_config.enabled
          alerts,    \* disk_alerts by disk and level: how many are open, and whether some are acknowledged
          collector  \* what the worker and the importers are doing

smartVars == <<reading, polls, alerts, collector>>

(* parse_smartctl_output(): the self-assessment, bad sectors, the temperature   *)
(* and, in smartctl's order, the attributes that are below their thresholds.    *)
Reading == [failed : BOOLEAN, sectors : BOOLEAN, temp : {"normal", "warm", "hot"}, old : BOOLEAN,
            below : {"none", "warning", "critical", "warning first"}]

(* What comes out of a disk that cannot be read, or without smartctl.           *)
Unread == [failed |-> FALSE, sectors |-> FALSE, temp |-> "normal", old |-> FALSE, below |-> "none"]

ASSUME SmartBounds == Reached \subseteq Disks /\ Readings \subseteq Reading /\ MaxOpen \in Nat

PollWorker == "worker"
Collectors == Importers \cup {PollWorker}
Levels == {"WARNING", "CRITICAL", "FAILED"}

(* classify_health(): in the order of its tests.                                *)
Health(r) ==
    CASE r.failed                              -> "FAILED"
      [] ~r.failed /\ (r.sectors \/ r.temp = "hot") -> "CRITICAL"
      [] OTHER -> IF r.temp = "warm" \/ r.old \/ r.below \in {"warning", "warning first"} THEN "WARNING"
                  ELSE IF r.below = "critical" THEN "CRITICAL" ELSE "GOOD"

Waiting == [pc |-> "waits", todo |-> {}, disk |-> CHOOSE d \in Disks : TRUE, level |-> "GOOD"]

SmartInit ==
    /\ reading \in [Disks -> Readings] /\ polls = TRUE
    /\ alerts = [d \in Disks |-> [l \in Levels |-> [open |-> 0, closed |-> FALSE]]]
    /\ collector = [c \in Collectors |-> Waiting]

HasOpen(d, l) == alerts[d][l].open > 0

-----------------------------------------------------------------------------
(* A pass begins: _poll_worker() if polling is on, smart_poll_now() and         *)
(* smart_import_host() at any time.  lsblk may list nothing, or not all; and no *)
(* caller passes a host's password on, so that hosts which ask for one are never*)
(* seen.                                                                        *)
CollectsFrom(c) ==
    /\ collector[c].pc = "waits" /\ (c = PollWorker => polls)
    /\ \E listed \in SUBSET Reached :
          collector' = [collector EXCEPT ![c].pc = "disks", ![c].todo = listed]
    /\ UNCHANGED <<reading, polls, alerts>>

(* collect_local_disk(), collect_ssh_host_disks(): smartctl, ...                *)
ReadsDisk(c, d) ==
    /\ collector[c].pc = "disks" /\ d \in collector[c].todo
    /\ \E r \in {reading[d], Unread} :
          collector' = [collector EXCEPT ![c].pc = "saves", ![c].todo = @ \ {d}, ![c].disk = d, ![c].level = Health(r)]
    /\ UNCHANGED <<reading, polls, alerts>>

NextDisk(c) == collector' = [collector EXCEPT ![c].pc = "disks"]

(* ... register_disk(), _save_snapshot(), _save_attributes(), ...               *)
SavesSnapshot(c) ==
    /\ collector[c].pc = "saves"
    /\ IF collector[c].level = "GOOD" THEN NextDisk(c) ELSE collector' = [collector EXCEPT ![c].pc = "looks"]
    /\ UNCHANGED <<reading, polls, alerts>>

\* Mutant: an acknowledged alert counts as an open one.
AlertKnown(d, l) == HasOpen(d, l) \/ alerts[d][l].closed

AlertOpen(d, l) == HasOpen(d, l)

(* ... _check_and_alert(): an open alert gets the new message, ...              *)
LooksForAlert(c) ==
    /\ collector[c].pc = "looks"
    /\ IF AlertOpen(collector[c].disk, collector[c].level) THEN NextDisk(c)
       ELSE collector' = [collector EXCEPT ![c].pc = "raises"]
    /\ UNCHANGED <<reading, polls, alerts>>

(* ... or one is inserted and sent.                                             *)
RaisesAlert(c) ==
    LET d == collector[c].disk
        l == collector[c].level IN
    /\ collector[c].pc = "raises" /\ alerts[d][l].open < MaxOpen
    /\ alerts' = [alerts EXCEPT ![d][l].open = @ + 1] /\ NextDisk(c)
    /\ UNCHANGED <<reading, polls>>

(* An error in any of it, and the next disk has its turn.                       *)
DiskRaises(c) ==
    /\ collector[c].pc \in {"saves", "looks", "raises"} /\ NextDisk(c)
    /\ UNCHANGED <<reading, polls, alerts>>

(* Proxmox and storage endpoints, which raise no alerts; the end of the pass.   *)
CollectEnds(c) ==
    /\ collector[c].pc = "disks" /\ collector[c].todo = {}
    /\ collector' = [collector EXCEPT ![c] = Waiting]
    /\ UNCHANGED <<reading, polls, alerts>>

(* get_poll_config() is outside of the worker's try: an error there ends it.    *)
WorkerDies ==
    /\ collector[PollWorker].pc = "waits" /\ collector' = [collector EXCEPT ![PollWorker].pc = "dead"]
    /\ UNCHANGED <<reading, polls, alerts>>

(* acknowledge_alert()                                                          *)
AcknowledgesAlert(d, l) ==
    /\ HasOpen(d, l)
    /\ alerts' = [alerts EXCEPT ![d][l] = [open |-> @.open - 1, closed |-> TRUE]]
    /\ UNCHANGED <<reading, polls, collector>>

(* set_poll_config()                                                            *)
SetsPolling ==
    /\ polls' = ~polls
    /\ UNCHANGED <<reading, alerts, collector>>

DiskChanges(d, r) ==
    /\ reading[d] # r /\ reading' = [reading EXCEPT ![d] = r]
    /\ UNCHANGED <<polls, alerts, collector>>

(* The process starts again; init_db() keeps one open alert of each kind.       *)
SmartRestart ==
    /\ collector' = [c \in Collectors |-> Waiting]
    /\ alerts' = [d \in Disks |-> [l \in Levels |->
                    [alerts[d][l] EXCEPT !.open = IF @ > 0 THEN 1 ELSE 0]]]
    /\ UNCHANGED <<reading, polls>>

Collecting(c) ==
    CollectsFrom(c) \/ SavesSnapshot(c) \/ LooksForAlert(c) \/ RaisesAlert(c) \/ CollectEnds(c)

SmartNext ==
    \/ \E c \in Collectors : Collecting(c) \/ DiskRaises(c) \/ \E d \in Disks : ReadsDisk(c, d)
    \/ \E d \in Disks : (\E l \in Levels : AcknowledgesAlert(d, l)) \/ \E r \in Readings : DiskChanges(d, r)
    \/ WorkerDies \/ SetsPolling \/ SmartRestart

(* The worker goes on.  Neither restarts nor errors nor unreadable disks keep a *)
(* disk that can be reached from passing each step of the worker for ever.      *)
Lists(d) == CollectsFrom(PollWorker) /\ d \in collector'[PollWorker].todo
ReadsTruly(d) == ReadsDisk(PollWorker, d) /\ collector'[PollWorker].level = Health(reading[d])
HasRead(d) == collector[PollWorker].disk = d /\ collector[PollWorker].level = Health(reading[d])

SmartFairness ==
    /\ WF_smartVars(Collecting(PollWorker)) /\ WF_smartVars(\E d \in Disks : ReadsDisk(PollWorker, d))
    /\ \A d \in Reached :
        /\ SF_smartVars(Lists(d)) /\ SF_smartVars(ReadsTruly(d))
        /\ SF_smartVars(HasRead(d) /\ SavesSnapshot(PollWorker))
        /\ SF_smartVars(HasRead(d) /\ LooksForAlert(PollWorker))
        /\ SF_smartVars(HasRead(d) /\ RaisesAlert(PollWorker))

SmartSpec == SmartInit /\ [][SmartNext]_smartVars
SmartFairSpec == SmartSpec /\ SmartFairness

-----------------------------------------------------------------------------
(* A disk that stays bad, of this machine or of a host reached with a key, has  *)
(* an open alert again and again while the worker lives and polling is on,      *)
(* however often its alerts are acknowledged and the process is restarted.      *)
BadDisksAreAlerted ==
    \A d \in Reached, l \in Levels :
        <>[](Health(reading[d]) = l /\ polls /\ collector[PollWorker].pc # "dead") => []<>HasOpen(d, l)
=============================================================================

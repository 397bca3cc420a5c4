--------------------------- MODULE AutomationMC ---------------------------
(* What FleetPilot does on its own, safety and liveness: auto mode, SMART     *)
(* alerts, and automatic updates.  An execution is one of any of them.        *)
EXTENDS DiskTools, SmartAlerts, AutoUpdate
MCReadings == {Unread, [Unread EXCEPT !.temp = "warm"], [Unread EXCEPT !.below = "critical"]}
VARIABLE part

MCInit == /\ Init /\ SmartInit /\ AutoInit
          /\ part \in {"disks", "smart", "updates"}
          \* Where the others start does not matter: one of their initial states is enough.
          /\ part # "disks" => attached = Devices
          /\ part # "smart" => reading = [d \in Disks |-> Unread]
InDisks(A) == part = "disks" /\ A /\ UNCHANGED <<smartVars, autoVars, part>>
InSmart(A) == part = "smart" /\ A /\ UNCHANGED <<vars, autoVars, part>>
InUpdates(A) == part = "updates" /\ A /\ UNCHANGED <<vars, smartVars, part>>
MCNext == \/ InDisks(Next)
          \/ InSmart(SmartNext)
          \/ InUpdates(AutoNext)
MCVars == <<vars, smartVars, autoVars, part>>
MCFairness == \/ part = "disks" /\ Fairness
              \/ part = "smart" /\ SmartFairness
              \/ part = "updates" /\ AutoFairness
MCSpec == MCInit /\ [][MCNext]_MCVars /\ MCFairness

(* A disk never seen before that stays attached in auto mode has its one try at
   being formatted, a disk within reach that stays bad has an open alert again
   and again, and each host has its turn in the automatic updates again and
   again. *)
ActsOnItsOwn == /\ part = "disks" => NewDiskIsTried
                /\ part = "smart" => BadDisksAreAlerted
                /\ part = "updates" => EveryHostIsTried

(* Every format task of disktool_core.py comes to an end, unless a locked database refused its report. *)
MCFormatTasksEnd == part = "disks" => FormatTasksEnd
=============================================================================

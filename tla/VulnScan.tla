------------------------------ MODULE VulnScan ------------------------------
(***************************************************************************)
(* The vulnerability scanner of FleetPilot (vuln_scanner.py): scans of all *)
(* hosts or of one, their rows in SQLite, and the report of what is new.   *)
(*                                                                         *)
(* A user's scan runs in a thread of its own, the daily one in the         *)
(* schedule's thread; only the user's tests the "running" flag.  A scan    *)
(* works on the hosts as they were listed when it began, stores each       *)
(* target's result in a transaction, and reports what was new at its end.  *)
(* A host here is a server with one container; FleetPilot's own two        *)
(* targets and the routers are scanned like servers without one.           *)
(***************************************************************************)
CONSTANTS Hosts,
          Vulns,        \* those a notification is about: severe, with a fix
          Users         \* threads of scans that users start

VARIABLES listed,      \* the hosts in the host list
          status,      \* targets: the last scan's status, "none" if there is no row
          findings,    \* findings: what the page shows of each target
          autoScan,    \* setting auto_scan
          due,         \* last_full_scan is more than a day ago
          mayAsk,      \* enabled(): this run of the process is not in offline mode
          scanning,    \* _progress["running"]
          scan,        \* what each thread's scan is doing
          lastGood     \* history: what the last good scan found since a target has its row;
                       \* a set of one set of findings, or of none

vulnVars == <<listed, status, findings, autoScan, due, mayAsk, scanning, scan, lastGood>>

Target == [kind : {"server", "container"}, host : Hosts]
Server(h) == [kind |-> "server", host |-> h]
Container(h) == [kind |-> "container", host |-> h]
ScanStatuses == {"ok", "unsupported", "error"}
Scanners == Users \cup {"schedule"}

\* todo: the hosts still to scan; at: the host at work; inner: what is new in its container
NoScan == [pc |-> "idle", full |-> FALSE, todo |-> {}, at |-> CHOOSE h \in Hosts : TRUE, new |-> {}, inner |-> {}]

VulnInit == /\ listed \in SUBSET Hosts
            /\ status = [t \in Target |-> "none"] /\ findings = [t \in Target |-> {}]
            /\ autoScan = TRUE /\ due = TRUE /\ mayAsk \in BOOLEAN /\ scanning = FALSE
            /\ scan = [u \in Scanners |-> NoScan]
            /\ lastGood = findings

In(u, pc) == scan[u].pc = pc
GoesTo(u, pc) == scan' = [scan EXCEPT ![u].pc = pc]

vulnRows == <<status, findings, lastGood>>
scanSettings == <<autoScan, due, mayAsk>>

-----------------------------------------------------------------------------
(* start_scan(): "if running: return False", then the flag, then the thread;    *)
(* in offline mode the page does not get this far.                              *)
Asks(u, full, h) ==
    /\ In(u, "idle") /\ mayAsk /\ ~scanning
    /\ scan' = [scan EXCEPT ![u] = [NoScan EXCEPT !.pc = "asked", !.full = full,
                                                !.todo = IF full THEN listed ELSE listed \cap {h}]]
    /\ UNCHANGED <<listed, vulnRows, scanSettings, scanning>>

Launches(u) ==
    /\ In(u, "asked")
    /\ GoesTo(u, "begins") /\ scanning' = TRUE
    /\ UNCHANGED <<listed, vulnRows, scanSettings>>

(* _schedule_loop(): every quarter of an hour, whether or not a scan is running. *)
Schedules ==
    /\ In("schedule", "idle") /\ autoScan /\ mayAsk /\ due
    /\ scan' = [scan EXCEPT !["schedule"] = [NoScan EXCEPT !.pc = "begins", !.full = TRUE, !.todo = listed]]
    /\ UNCHANGED <<listed, vulnRows, scanSettings, scanning>>

(* scan_all() *)
ScanBegins(u) ==
    /\ In(u, "begins")
    /\ GoesTo(u, IF scan[u].full THEN "prunes" ELSE "picks") /\ scanning' = TRUE
    /\ UNCHANGED <<listed, vulnRows, scanSettings>>

DeleteTargets(gone) ==
    /\ status' = [t \in Target |-> IF t \in gone THEN "none" ELSE status[t]]
    /\ findings' = [t \in Target |-> IF t \in gone THEN {} ELSE findings[t]]
    /\ lastGood' = [t \in Target |-> IF t \in gone THEN {} ELSE lastGood[t]]

\* Mutant: a full scan deletes nothing.
PrunedNone(u) == {}

(* A full scan deletes the servers it does not know; containers stay.           *)
Pruned(u) == {Server(h) : h \in Hosts \ scan[u].todo}

Prunes(u) ==
    /\ In(u, "prunes")
    /\ DeleteTargets(Pruned(u))
    /\ GoesTo(u, "picks")
    /\ UNCHANGED <<listed, scanSettings, scanning>>

(* The next host: its inventory, with or without a container; or none is left.  *)
Picks(u, h) ==
    /\ In(u, "picks") /\ h \in scan[u].todo
    /\ \E pc \in {"container", "server"} :
         scan' = [scan EXCEPT ![u] = [@ EXCEPT !.todo = @ \ {h}, !.at = h, !.pc = pc]]
    /\ UNCHANGED <<listed, vulnRows, scanSettings, scanning>>

PicksNone(u) ==
    /\ In(u, "picks") /\ scan[u].todo = {}
    /\ GoesTo(u, IF scan[u].full THEN "records" ELSE "notifies")
    /\ UNCHANGED <<listed, vulnRows, scanSettings, scanning>>

(* "The first successful scan of a target is the baseline": the test is whether *)
(* the target's row, which the last scan wrote, says ok.                        *)
Baseline(t) == status[t] # "ok"

New(t, st, found) == IF st = "error" \/ Baseline(t) THEN {} ELSE {<<t, v>> : v \in found \ findings[t]}

\* Mutant: an error deletes the findings as well.
KeptNever(t, st, found) == found

\* "keep the last good result"
Kept(t, st, found) == IF st = "error" THEN findings[t] ELSE found

(* _store(), one transaction under the module's lock.                           *)
Store(t, st, found) ==
    /\ (st # "ok") => found = {}
    /\ status' = [status EXCEPT ![t] = st]
    /\ findings' = [findings EXCEPT ![t] = Kept(t, st, found)]
    /\ lastGood' = IF st = "error" \/ (st = "unsupported" /\ lastGood[t] = {})
                   THEN lastGood ELSE [lastGood EXCEPT ![t] = {found}]

StoresContainer(u, st, found) ==
    /\ In(u, "container")
    /\ LET t == Container(scan[u].at) IN
       Store(t, st, found) /\ scan' = [scan EXCEPT ![u].pc = "server", ![u].inner = New(t, st, found)]
    /\ UNCHANGED <<listed, scanSettings, scanning>>

(* scan_target(): what the container had new is reported with the host's own    *)
(* result, unless that is not a good one.                                       *)
StoresServer(u, st, found) ==
    /\ In(u, "server")
    /\ LET t == Server(scan[u].at)
           inner == IF st = "ok" THEN scan[u].inner ELSE {} IN
       /\ Store(t, st, found)
       /\ scan' = [scan EXCEPT ![u] = [@ EXCEPT !.pc = "picks", !.inner = {},
                                                !.new = @ \cup inner \cup New(t, st, found)]]
    /\ UNCHANGED <<listed, scanSettings, scanning>>

(* The end of a full scan is recorded before the report is sent.                *)
Records(u) ==
    /\ In(u, "records")
    /\ due' = FALSE
    /\ GoesTo(u, "notifies")
    /\ UNCHANGED <<listed, vulnRows, autoScan, mayAsk, scanning>>

Leaves(u) == scan' = [scan EXCEPT ![u] = NoScan] /\ scanning' = FALSE

Notifies(u) == /\ In(u, "notifies") /\ Leaves(u)
               /\ UNCHANGED <<listed, vulnRows, scanSettings>>

(* The database stays locked: the exception ends the scan, without a report.    *)
DatabaseFails(u) ==
    /\ scan[u].pc \in {"prunes", "container", "server", "records"} /\ Leaves(u)
    /\ UNCHANGED <<listed, vulnRows, scanSettings>>

(* The host list, the setting and the clock change; the process restarts, in    *)
(* offline mode or not (FLEETPILOT_OFFLINE in its environment).                 *)
ListChanges == /\ \E h \in Hosts : listed' = listed \cup {h} \/ listed' = listed \ {h}
               /\ UNCHANGED <<vulnRows, scanSettings, scanning, scan>>
SetsAutoScan == /\ autoScan' = ~autoScan
                /\ UNCHANGED <<listed, vulnRows, due, mayAsk, scanning, scan>>
DayPasses == /\ ~due /\ due' = TRUE
             /\ UNCHANGED <<listed, vulnRows, autoScan, mayAsk, scanning, scan>>
VulnRestart == /\ scan' = [u \in Scanners |-> NoScan] /\ scanning' = FALSE /\ mayAsk' \in BOOLEAN
               /\ UNCHANGED <<listed, vulnRows, autoScan, due>>

StoreStep(u) == \E st \in ScanStatuses, found \in SUBSET Vulns :
                    StoresContainer(u, st, found) \/ StoresServer(u, st, found)
ScanStep(u) == \/ Launches(u) \/ ScanBegins(u) \/ Prunes(u) \/ PicksNone(u) \/ StoreStep(u)
               \/ Records(u) \/ Notifies(u) \/ DatabaseFails(u)
               \/ \E h \in Hosts : Picks(u, h)
VulnNext == \/ \E u \in Scanners : ScanStep(u)
            \/ \E u \in Users, full \in BOOLEAN, h \in Hosts : Asks(u, full, h)
            \/ Schedules \/ ListChanges \/ SetsAutoScan \/ DayPasses \/ VulnRestart

VulnSpec == VulnInit /\ [][VulnNext]_vulnVars

(* Threads run and days pass; the schedule's thread is not for ever stopped     *)
(* before, or refused at, the beginning of its scan.                            *)
VulnFairness ==
    /\ \A u \in Scanners : WF_vulnVars(ScanStep(u))
    /\ WF_vulnVars(DayPasses) /\ SF_vulnVars(Schedules)
    /\ SF_vulnVars(ScanBegins("schedule")) /\ SF_vulnVars(Prunes("schedule"))
VulnFairSpec == VulnSpec /\ VulnFairness

-----------------------------------------------------------------------------
(* "keep the last good result" (_store): whatever scans overlap, fail or stop,  *)
(* a target shows what its last good scan found, and nothing from before its    *)
(* row was deleted.                                                             *)
ShowsLastGood == \A t \in Target : findings[t] = UNION lastGood[t]

(* A host that was taken off the list for good leaves the page, unless automatic*)
(* scans are off or the process is in offline mode: its row is deleted by a     *)
(* daily scan, and no scan that still knew it puts it back.                     *)
GoneHostsGo == \A h \in Hosts :
    <>[](h \notin listed /\ autoScan /\ mayAsk) => <>[](status[Server(h)] = "none")

(* "The first successful scan of a target is the baseline: nothing in it counts *)
(* as "new"" (_store): what any later scan finds for the first time does.       *)
OnlyFirstIsBaseline ==
    [][\A t \in Target : \A v \in findings'[t] \ findings[t] :
         lastGood[t] # {} => \E u \in Scanners : <<t, v>> \in scan'[u].new \cup scan'[u].inner]_vulnVars
=============================================================================

----------------------------- MODULE HwMetrics -----------------------------
(***************************************************************************)
(* The live values of HW Monitor (hw_monitor.py): a round of the polling   *)
(* thread starts one thread for each server and waits 18 seconds for each, *)
(* no longer; a thread that is late writes its row in a later round.       *)
(***************************************************************************)
EXTENDS Naturals

CONSTANTS Servers,
          Late,      \* bound: the threads there are for one server at a time
          MaxHwStops \* bound: restarts

VARIABLES inHosts,     \* the hosts in hosts.json
          hwServers,   \* hw_servers: whether each server has a row, and is enabled
          machine,     \* what each server answers
          critical,    \* the servers whose stress log has a critical line
          live,        \* hw_live_metrics: the row of each server
          hwThread,   \* what each collecting thread is doing
          round,       \* whether the polling thread waits for its threads
          hwStops

hwVars == <<inHosts, hwServers, machine, critical, live, hwThread, round, hwStops>>

HwThreads == Servers \X Late
NoRound == "sleeps"
Enabled == {s \in Servers : hwServers[s] = "on"}
NoValues == [reach |-> "none", failure |-> FALSE]

Import(hosts) == hwServers' = [s \in Servers |-> IF s \in hosts THEN "on" ELSE hwServers[s]]

HwInit ==
    /\ inHosts \in SUBSET Servers /\ hwServers = [s \in Servers |-> IF s \in inHosts THEN "on" ELSE "none"]
    /\ machine \in [Servers -> {"up", "down"}] /\ critical = {}
    /\ live = [s \in Servers |-> NoValues] /\ hwThread = [c \in HwThreads |-> "none"] /\ round = NoRound /\ hwStops = 0

-----------------------------------------------------------------------------
(* save_hosts(): _auto_import_from_hosts() enables what is listed, also what  *)
(* was removed here, and removes nothing.                                     *)
SavesHostList(hosts) ==
    /\ hosts # inHosts /\ inHosts' = hosts /\ Import(hosts)
    /\ UNCHANGED <<machine, critical, live, hwThread, round, hwStops>>

(* api_hw_servers(), api_hw_del_server()                                      *)
AddsServer(s) ==
    /\ hwServers[s] = "none" /\ hwServers' = [hwServers EXCEPT ![s] = "on"]
    /\ UNCHANGED <<inHosts, machine, critical, live, hwThread, round, hwStops>>

RemovesServer(s) ==
    /\ hwServers[s] = "on" /\ hwServers' = [hwServers EXCEPT ![s] = "off"]
    /\ UNCHANGED <<inHosts, machine, critical, live, hwThread, round, hwStops>>

MachineChanges(s) ==
    /\ \E m \in {"up", "down"} : machine[s] # m /\ machine' = [machine EXCEPT ![s] = m]
    /\ UNCHANGED <<inHosts, hwServers, critical, live, hwThread, round, hwStops>>

(* A test writes a critical line; "Clear log", or a new test, empties the log.*)
LogChanges(s) ==
    /\ critical' = IF s \in critical THEN critical \ {s} ELSE critical \cup {s}
    /\ UNCHANGED <<inHosts, hwServers, machine, live, hwThread, round, hwStops>>

-----------------------------------------------------------------------------
(* _polling_loop(): a thread for each enabled server.                         *)
RoundStarts ==
    /\ round = NoRound
    /\ \A s \in Enabled : \E n \in Late : hwThread[<<s, n>>] = "none"
    /\ \E n \in [Enabled -> Late] :
         /\ \A s \in Enabled : hwThread[<<s, n[s]>>] = "none"
         /\ hwThread' = [c \in HwThreads |-> IF c[1] \in Enabled /\ n[c[1]] = c[2] THEN "asks" ELSE hwThread[c]]
    /\ round' = "joins"
    /\ UNCHANGED <<inHosts, hwServers, machine, critical, live, hwStops>>

(* t.join(timeout=18): all are done, or late.                                 *)
RoundEnds18 ==
    /\ round = "joins" /\ round' = NoRound
    /\ UNCHANGED <<inHosts, hwServers, machine, critical, live, hwThread, hwStops>>

(* collect_metrics(): what ssh_run_script() returns, ...                      *)
Asks(c) ==
    /\ hwThread[c] = "asks"
    /\ hwThread' = [hwThread EXCEPT ![c] = IF machine[c[1]] = "down" THEN "down"
                                             ELSE IF c[1] \in critical THEN "critical" ELSE "up"]
    /\ UNCHANGED <<inHosts, hwServers, machine, critical, live, round, hwStops>>

\* Mutant: a server that does not answer keeps the row it had.
OnlyGood(row, seen) == IF seen = "down" THEN row ELSE [reach |-> "up", failure |-> seen = "critical"]

LiveRow(row, seen) == IF seen = "down" THEN [reach |-> "down", failure |-> FALSE]
                  ELSE [reach |-> "up", failure |-> seen = "critical"]

(* ... and the row it replaces, whether newer or not.                         *)
Replaces(c) ==
    LET s == c[1] IN
    /\ hwThread[c] \in {"up", "down", "critical"}
    /\ live' = [live EXCEPT ![s] = LiveRow(@, hwThread[c])]
    /\ hwThread' = [hwThread EXCEPT ![c] = "none"]
    /\ UNCHANGED <<inHosts, hwServers, machine, critical, round, hwStops>>

(* The database stays locked.                                                 *)
RowLost(c) ==
    /\ hwThread[c] \in {"up", "down", "critical"} /\ hwThread' = [hwThread EXCEPT ![c] = "none"]
    /\ UNCHANGED <<inHosts, hwServers, machine, critical, live, round, hwStops>>

(* api_hw_acknowledge(): until the next row.                                  *)
Acknowledges(s) ==
    /\ live[s].failure /\ live' = [live EXCEPT ![s].failure = FALSE]
    /\ UNCHANGED <<inHosts, hwServers, machine, critical, hwThread, round, hwStops>>

(* The process stops and starts: init_db() imports, start_polling().          *)
HwRestart ==
    /\ hwStops < MaxHwStops /\ hwStops' = hwStops + 1
    /\ hwThread' = [c \in HwThreads |-> "none"] /\ round' = NoRound /\ Import(inHosts)
    /\ UNCHANGED <<inHosts, machine, critical, live>>

Collects(c) == Asks(c) \/ Replaces(c)

HwNext ==
    \/ RoundStarts \/ RoundEnds18 \/ HwRestart
    \/ \E hosts \in SUBSET Servers : SavesHostList(hosts)
    \/ \E s \in Servers : AddsServer(s) \/ RemovesServer(s) \/ MachineChanges(s) \/ LogChanges(s) \/ Acknowledges(s)
    \/ \E c \in HwThreads : Collects(c) \/ RowLost(c)

(* The threads run, and their rows are not all lost.                          *)
HwFairness ==
    /\ WF_hwVars(RoundStarts) /\ WF_hwVars(RoundEnds18)
    /\ \A c \in HwThreads : WF_hwVars(Collects(c)) /\ SF_hwVars(Replaces(c))

HwSpec == HwInit /\ [][HwNext]_hwVars

-----------------------------------------------------------------------------
Stays(s, m) == <>[](hwServers[s] = "on" /\ machine[s] = m)

(* Once an enabled server stays up, or down, its page shows it so for good,   *)
(* although threads of earlier rounds replace the row late.                   *)
PagesFollowServers ==
    \A s \in Servers : \A m \in {"up", "down"} : Stays(s, m) => <>[](live[s].reach = m)
=============================================================================

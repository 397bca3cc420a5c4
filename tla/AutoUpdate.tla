----------------------------- MODULE AutoUpdate -----------------------------
(***************************************************************************)
(* Updates of the managed hosts (scheduler.py, updater.py and the pages    *)
(* that start updates or save their settings in app.py).                   *)
(*                                                                         *)
(* update_settings.json says whether the hosts are updated automatically;  *)
(* the job that does it exists in memory.  It updates one host after the   *)
(* other and then writes the settings it had read at its beginning.  Users *)
(* start updates of single hosts in threads of their own.                  *)
(***************************************************************************)
EXTENDS Naturals

CONSTANTS Managed,   \* the hosts of hosts.json
          LocalOnes, \* those that are FleetPilot's own machine
          Manual,    \* update threads started by users
          Savers     \* requests that save the settings

ASSUME UpdateHosts == LocalOnes \subseteq Managed

VARIABLES settings, \* update_settings.json: "on", "off" or "torn"
          jobExists,      \* the scheduler has the job auto_update
          saver,    \* what each saving request is doing
          run       \* what the job and the manual threads are doing

autoVars == <<settings, jobExists, saver, run>>

Scheduled == "scheduled"
Runs == Manual \cup {Scheduled}
ConnectAttempts == 3

NoRun == [pc |-> "rests", todo |-> {}, host |-> CHOOSE h \in Managed : TRUE,
          attempt |-> 1, updated |-> FALSE, failed |-> FALSE, mailed |-> FALSE]

AutoInit ==
    /\ settings = "off" /\ jobExists = FALSE
    /\ saver = [s \in Savers |-> [pc |-> "rests", wants |-> "off"]]
    /\ run = [x \in Runs |-> NoRun]

-----------------------------------------------------------------------------
(* update_settings(), email_settings(): load, ...                               *)
SaverGoes(s, pc) == saver' = [saver EXCEPT ![s].pc = pc]

Posts(s, wants) ==
    /\ saver[s].pc = "rests" /\ saver' = [saver EXCEPT ![s] = [pc |-> "opens", wants |-> wants]]
    /\ UNCHANGED <<settings, jobExists, run>>

(* (the e-mail page writes a file of its own)                                   *)
PostsEmail(s) ==
    /\ saver[s].pc = "rests" /\ SaverGoes(s, "removes")
    /\ UNCHANGED <<settings, jobExists, run>>

(* ... save_update_settings(): open() truncates, ...                            *)
Truncates(s) ==
    /\ saver[s].pc = "opens" /\ settings' = "torn" /\ SaverGoes(s, "writes")
    /\ UNCHANGED <<jobExists, run>>

(* ... json.dump() writes; ...                                                  *)
WritesSettings(s) ==
    /\ saver[s].pc = "writes" /\ settings' = saver[s].wants /\ SaverGoes(s, "removes")
    /\ UNCHANGED <<jobExists, run>>

(* ... configure_scheduler(): load, remove_all_jobs(), ...                      *)
RemovesJobs(s) ==
    /\ saver[s].pc = "removes" /\ jobExists' = FALSE
    /\ saver' = [saver EXCEPT ![s] = [pc |-> "adds", wants |-> settings]]
    /\ UNCHANGED <<settings, run>>

(* ... add_job().  A torn file counts as automatic updates switched off.        *)
AddsJob(s) ==
    /\ saver[s].pc = "adds" /\ jobExists' = (jobExists \/ saver[s].wants = "on")
    /\ saver' = [saver EXCEPT ![s] = [pc |-> "rests", wants |-> "off"]]
    /\ UNCHANGED <<settings, run>>

-----------------------------------------------------------------------------
StartsOn(h, todo) == [NoRun EXCEPT !.pc = "connects", !.host = h, !.todo = todo]

(* scheduled_updates(): one at a time (max_instances), if switched on and if    *)
(* hosts.json can be read; ...                                                  *)
JobRuns(h) ==
    /\ jobExists /\ run[Scheduled].pc = "rests" /\ settings = "on"
    /\ run' = [run EXCEPT ![Scheduled] = StartsOn(h, Managed \ {h})]
    /\ UNCHANGED <<settings, jobExists, saver>>

(* update(), update_repo(), vm_update()                                         *)
UserStarts(x, h) ==
    /\ x \in Manual /\ run[x].pc = "rests" /\ run' = [run EXCEPT ![x] = StartsOn(h, {})]
    /\ UNCHANGED <<settings, jobExists, saver>>

Step(x, pc) == run[x].pc = pc /\ UNCHANGED <<settings, jobExists, saver>>
Becomes(x, r) == run' = [run EXCEPT ![x] = r]

(* What the finally of run_update() makes of it.                                *)
RunEnded(r) == [r EXCEPT !.pc = "ended", !.mailed = @ \/ r.failed]
EndsFailed(x) == Becomes(x, RunEnded([run[x] EXCEPT !.failed = TRUE]))

(* run_update(): connects, or tries again, or gives up; ...                     *)
Connects(x) ==
    /\ Step(x, "connects") /\ run[x].host \notin LocalOnes
    /\ Becomes(x, [run[x] EXCEPT !.pc = "detects"])

ConnectFails(x) ==
    /\ Step(x, "connects") /\ run[x].host \notin LocalOnes
    /\ IF run[x].attempt < ConnectAttempts THEN Becomes(x, [run[x] EXCEPT !.attempt = @ + 1]) ELSE EndsFailed(x)

AuthenticationFails(x) == Step(x, "connects") /\ run[x].host \notin LocalOnes /\ EndsFailed(x)

(* ... finds out what system it is, and the command for it; ...                 *)
Detects(x) == Step(x, "detects") /\ Becomes(x, [run[x] EXCEPT !.pc = "updates"])

(* ... or not: an unknown system is mailed at once, one without a command (and  *)
(* a connection that breaks) by the finally; ...                                *)
DetectsNothing(x) ==
    /\ Step(x, "detects")
    /\ \E mailed \in BOOLEAN : Becomes(x, RunEnded([run[x] EXCEPT !.failed = TRUE, !.mailed = mailed]))

(* ... runs it (on Windows: installs updates, with a list of problems); ...     *)
Updates(x) == Step(x, "updates") /\ Becomes(x, [run[x] EXCEPT !.pc = "checks", !.updated = TRUE])

UpdateFails(x) == Step(x, "updates") /\ Becomes(x, [run[x] EXCEPT !.pc = "checks", !.failed = TRUE])

UpdateBreaks(x) == Step(x, "updates") /\ EndsFailed(x)

\* Mutant: a check for a restart that fails reaches the handler around it all.
CheckEscapes(r, fails) == IF fails THEN [r EXCEPT !.failed = TRUE] ELSE r

CheckLogged(r, fails) == r

(* ... and asks whether a restart is due.                                       *)
ChecksRestart(x) ==
    /\ Step(x, "checks")
    /\ \E fails \in BOOLEAN : Becomes(x, RunEnded(CheckLogged(run[x], fails)))

(* run_local_update(): the command is a string and no shell runs it.            *)
UpdatesLocally(x) ==
    /\ Step(x, "connects") /\ run[x].host \in LocalOnes /\ EndsFailed(x)

\* Mutant: a host that failed ends the scheduled run.
NextUnlessFailed(r) == IF r.failed THEN {} ELSE r.todo

NextHosts(r) == r.todo

(* run_update() returns: to scheduled_updates(), which has the next host, ...   *)
ReturnsNext(x, h) ==
    /\ Step(x, "ended") /\ h \in NextHosts(run[x]) /\ Becomes(x, StartsOn(h, run[x].todo \ {h}))

(* ... and after the last saves what it loaded, ...                             *)
Returns(x) ==
    /\ Step(x, "ended") /\ NextHosts(run[x]) = {}
    /\ Becomes(x, IF x = Scheduled THEN [NoRun EXCEPT !.pc = "opens"] ELSE NoRun)

JobTruncates ==
    /\ run[Scheduled].pc = "opens" /\ settings' = "torn"
    /\ run' = [run EXCEPT ![Scheduled].pc = "writes"]
    /\ UNCHANGED <<jobExists, saver>>

(* ... switched on, as it was.                                                  *)
JobSaves ==
    /\ run[Scheduled].pc = "writes" /\ settings' = "on"
    /\ run' = [run EXCEPT ![Scheduled] = NoRun]
    /\ UNCHANGED <<jobExists, saver>>

(* The service starts again.  gunicorn imports app.py, which starts the         *)
(* scheduler without a job: configure_scheduler() is under __main__.            *)
AutoRestart ==
    /\ jobExists' = FALSE /\ run' = [x \in Runs |-> NoRun]
    /\ saver' = [s \in Savers |-> [pc |-> "rests", wants |-> "off"]]
    /\ UNCHANGED settings

RunSteps(x) ==
    \/ Connects(x) \/ ConnectFails(x) \/ AuthenticationFails(x) \/ Detects(x) \/ DetectsNothing(x)
    \/ Updates(x) \/ UpdateFails(x) \/ UpdateBreaks(x) \/ ChecksRestart(x) \/ UpdatesLocally(x)
    \/ Returns(x) \/ \E h \in Managed : ReturnsNext(x, h)

JobSteps == RunSteps(Scheduled) \/ JobTruncates \/ JobSaves

AutoNext ==
    \/ \E s \in Savers : PostsEmail(s) \/ Truncates(s) \/ WritesSettings(s) \/ RemovesJobs(s) \/ AddsJob(s)
                         \/ \E wants \in {"on", "off"} : Posts(s, wants)
    \/ \E x \in Runs : RunSteps(x) \/ \E h \in Managed : UserStarts(x, h)
    \/ (\E h \in Managed : JobRuns(h)) \/ JobTruncates \/ JobSaves \/ AutoRestart

(* A host's command ends or its connection breaks; a job that exists is run     *)
(* when its time comes, with hosts.json readable in the end.                    *)
AutoFairness == WF_autoVars(JobSteps) /\ SF_autoVars(\E h \in Managed : JobRuns(h))
AutoSpec == AutoInit /\ [][AutoNext]_autoVars
AutoFairSpec == AutoSpec /\ AutoFairness

-----------------------------------------------------------------------------
Tries(h) == run[Scheduled].pc = "connects" /\ run[Scheduled].host = h

(* As long as the job exists and nobody saves settings, each host has its turn  *)
(* again and again, whatever becomes of the updates of the others.              *)
EveryHostIsTried ==
    <>[](jobExists /\ settings # "off" /\ \A s \in Savers : saver[s].pc = "rests") => \A h \in Managed : []<>Tries(h)

(* A run that ends reports a failure exactly if its host was not updated, and   *)
(* mails exactly the failures, on every way out of run_update().                *)
ReportsAreTrue ==
    \A x \in Runs : run[x].pc = "ended" => /\ run[x].failed <=> ~run[x].updated
                                           /\ run[x].mailed <=> run[x].failed

(* The settings page: "Automatically update all configured hosts at the         *)
(* specified frequency without manual intervention."  With the setting on and   *)
(* nothing under way, there is a job that will do so.                           *)
OnMeansScheduled ==
    settings = "on" /\ (\A s \in Savers : saver[s].pc = "rests") /\ run[Scheduled].pc = "rests" => jobExists
=============================================================================

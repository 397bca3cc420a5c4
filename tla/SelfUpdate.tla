----------------------------- MODULE SelfUpdate -----------------------------
(***************************************************************************)
(* The two update pages of FleetPilot (app.py): the operating system's     *)
(* packages (_run_server_update_bg) and FleetPilot itself                  *)
(* (_run_fp_update_bg and the root helper scripts/fleetpilot-update).      *)
(*                                                                         *)
(* A request tests a "running" flag and then starts a thread; the thread   *)
(* runs root commands one after the other and clears the flag when it is   *)
(* done.  The service user cannot kill a root process, so neither page     *)
(* stops a command that exceeds its timeout: communicate() returns and     *)
(* apt-get goes on alone; subprocess.run() fails to kill the helper and    *)
(* waits for it all the same.  The helper's restart action leaves a timer  *)
(* to systemd that restarts the service two seconds later.                 *)
(***************************************************************************)
EXTENDS Naturals, Sequences, FiniteSets

CONSTANTS UpdateRequests,  \* request threads
          MaxJobs    \* bound: updates and stray root commands at a time

ASSUME JobBound == MaxJobs \in Nat

VARIABLES flag,            \* _server_update_running and _fp_update_running
          admitted,        \* what a request that found the flag clear goes on to start
          jobs,            \* live update threads
          tools,           \* live root commands, by the update that started them
          restartPending,  \* _fp_restart_pending
          timer            \* a restart of the service is scheduled

updateVars == <<flag, admitted, jobs, tools, restartPending, timer>>

Updaters == {"server", "fleetpilot"}
Kinds == {"packages", "check", "apply", "apply+restart"}
UpdaterOf(kind) == IF kind = "packages" THEN "server" ELSE "fleetpilot"

(* The commands of an update, in order. *)
Commands(kind) == CASE kind = "packages"      -> <<"update", "upgrade", "autoremove">>
                    [] kind = "check"         -> <<"check">>
                    [] kind = "apply"         -> <<"apply">>
                    [] kind = "apply+restart" -> <<"apply", "restart">>

\* pc counts the commands begun; busy while waiting for one; id tells threads apart
NewJob(id, kind) == [id |-> id, kind |-> kind, pc |-> 0, busy |-> FALSE]
FreeIds == {id \in 1 .. MaxJobs : /\ \A j \in jobs : j.id # id
                                  /\ \A t \in tools : t[1] # id}
Command(j) == Commands(j.kind)[j.pc]
Advance(j, k) == jobs' = (jobs \ {j}) \cup {k}

UpdateInit == /\ flag = [u \in Updaters |-> FALSE]
              /\ admitted = [r \in UpdateRequests |-> "none"]
              /\ jobs = {} /\ tools = {}
              /\ restartPending = FALSE /\ timer = FALSE

-----------------------------------------------------------------------------
(* POST: "if running: return 409" ... *)
Admit(r, kind) ==
    /\ admitted[r] = "none" /\ ~flag[UpdaterOf(kind)]
    /\ admitted' = [admitted EXCEPT ![r] = kind]
    /\ UNCHANGED <<flag, jobs, tools, restartPending, timer>>

Start(r) == /\ FreeIds # {}
            /\ jobs' = jobs \cup {NewJob(CHOOSE id \in FreeIds : TRUE, admitted[r])}
            /\ admitted' = [admitted EXCEPT ![r] = "none"]

(* ... and then, under the lock, start the thread.  The FleetPilot page sets    *)
(* its flag here; the packages page leaves it to the thread.                    *)
Launch(r) ==
    /\ admitted[r] # "none"
    /\ Start(r)
    /\ flag' = IF admitted[r] = "packages" THEN flag ELSE [flag EXCEPT !["fleetpilot"] = TRUE]
    /\ UNCHANGED <<tools, restartPending, timer>>

(* The thread's first lines.  Its arguments are good: the page offers no        *)
(* channel but main.                                                            *)
Begin(j) ==
    /\ j.pc = 0
    /\ Advance(j, [j EXCEPT !.pc = 1])
    /\ flag' = IF j.kind = "packages" THEN [flag EXCEPT !["server"] = TRUE] ELSE flag
    /\ restartPending' = IF j.kind = "packages" THEN restartPending ELSE FALSE
    /\ UNCHANGED <<admitted, tools, timer>>

Run(j) ==
    /\ j.pc > 0 /\ ~j.busy
    /\ Advance(j, [j EXCEPT !.busy = TRUE])
    /\ tools' = tools \cup {<<j.id, Command(j)>>}
    /\ restartPending' = IF Command(j) = "restart" THEN TRUE ELSE restartPending
    /\ UNCHANGED <<flag, admitted, timer>>

FinishUpdate(j) == /\ jobs' = jobs \ {j}
                   /\ flag' = [flag EXCEPT ![UpdaterOf(j.kind)] = FALSE]

\* Mutant: the early return of a failed update leaves the flag set.
StopsFlagged(j) == jobs' = jobs \ {j} /\ UNCHANGED flag

(* "aborting", and "All packages are already up to date", return early. *)
Stops(j) == FinishUpdate(j)

\* Mutant: one command too many.
ProceedsPast(j) == IF j.pc <= Len(Commands(j.kind))
                   THEN Advance(j, [j EXCEPT !.pc = @ + 1, !.busy = FALSE]) /\ UNCHANGED flag
                   ELSE FinishUpdate(j)

Proceeds(j) == IF j.pc < Len(Commands(j.kind))
               THEN Advance(j, [j EXCEPT !.pc = @ + 1, !.busy = FALSE]) /\ UNCHANGED flag
               ELSE FinishUpdate(j)

(* What the thread does with a command's result: a failed update or apply ends  *)
(* it, as does an empty list of upgradable packages; a failed upgrade does not. *)
Continue(j, ok) ==
    CASE Command(j) \in {"update", "apply"} /\ ~ok -> Stops(j)
      [] Command(j) = "update" /\ ok               -> Stops(j) \/ Proceeds(j)
      [] OTHER                                     -> Proceeds(j)

\* Mutant: a restart that could not be scheduled stays announced.
AnnouncedStill(j, ok) == UNCHANGED restartPending

Announced(j, ok) == restartPending' = IF Command(j) = "restart" /\ ~ok THEN FALSE ELSE restartPending

\* communicate() is left at its timeout; subprocess.run() is not.
GivesUp(j) == j.kind = "packages"

(* The command's process ends, and the thread that waits for it gets its        *)
(* result; a helper that exceeded its timeout has failed whatever it did.       *)
ToolEnds(j, done, ok) ==
    /\ j.busy /\ <<j.id, Command(j)>> \in tools
    /\ (ok => done) /\ (GivesUp(j) => ok = done)
    /\ tools' = tools \ {<<j.id, Command(j)>>}
    /\ timer' = (timer \/ (Command(j) = "restart" /\ done))
    /\ Announced(j, ok)
    /\ Continue(j, ok)
    /\ UNCHANGED admitted

(* The timeout of a command that the thread gives up: its process goes on.      *)
ToolTimesOut(j) ==
    /\ j.busy /\ GivesUp(j)
    /\ Announced(j, FALSE)
    /\ Continue(j, FALSE)
    /\ UNCHANGED <<admitted, tools, timer>>

(* A process nobody waits for any more ends. *)
StrayToolEnds(t) ==
    /\ ~ \E j \in jobs : j.busy /\ <<j.id, Command(j)>> = t
    /\ tools' = tools \ {t}
    /\ UNCHANGED <<flag, admitted, jobs, restartPending, timer>>

(* The service is stopped and started: by the timer, by an operator, or with    *)
(* the host that the packages page can reboot.  systemd ends every process of   *)
(* the unit; the timer is a unit of its own.                                    *)
Restarts ==
    /\ flag' = [u \in Updaters |-> FALSE]
    /\ admitted' = [r \in UpdateRequests |-> "none"]
    /\ jobs' = {} /\ tools' = {}
    /\ restartPending' = FALSE

TimerFires == timer /\ timer' = FALSE /\ Restarts
ServiceRestarts == Restarts /\ UNCHANGED timer
Reboot == Restarts /\ timer' = FALSE

JobStep(j) == \/ Begin(j) \/ Run(j) \/ ToolTimesOut(j)
              \/ \E done, ok \in BOOLEAN : ToolEnds(j, done, ok)
UpdateNext == \/ \E r \in UpdateRequests : Launch(r) \/ \E kind \in Kinds : Admit(r, kind)
              \/ \E j \in jobs : JobStep(j)
              \/ \E t \in tools : StrayToolEnds(t)
              \/ TimerFires \/ ServiceRestarts \/ Reboot

UpdateSpec == UpdateInit /\ [][UpdateNext]_updateVars

(* Request and update threads run, a command ends or times out, a timer fires.  *)
UpdateFairness == /\ WF_updateVars(TimerFires)
                  /\ \A r \in UpdateRequests : WF_updateVars(Launch(r))
                  /\ \A id \in 1 .. MaxJobs : WF_updateVars(\E j \in jobs : j.id = id /\ JobStep(j))
UpdateFairSpec == UpdateSpec /\ UpdateFairness

-----------------------------------------------------------------------------
JobType == [id : 1 .. MaxJobs, kind : Kinds, pc : 0 .. 3, busy : BOOLEAN]

(* The type of the state; update threads are told apart by their number.        *)
UpdateTypeOK ==
    /\ flag \in [Updaters -> BOOLEAN] /\ admitted \in [UpdateRequests -> Kinds \cup {"none"}]
    /\ jobs \subseteq JobType /\ \A j, k \in jobs : j.id = k.id => j = k
    /\ \A j \in jobs : j.pc <= Len(Commands(j.kind)) /\ (j.busy => <<j.id, Command(j)>> \in tools)
    /\ restartPending \in BOOLEAN /\ timer \in BOOLEAN

(* "Update already running" (app.py): never two update helpers of root at work  *)
(* on the program directory.                                                    *)
OneHelper == Cardinality({t \in tools : t[2] \in {"apply", "check"}}) <= 1

(* The restart the page announces is scheduled or being scheduled.              *)
AnnouncedRestartComes ==
    restartPending => timer \/ \E j \in jobs : j.busy /\ Command(j) = "restart"

(* On every path of an update its flag is cleared in the end: neither page can  *)
(* answer "already running" for ever.                                           *)
FlagsClear == \A u \in Updaters : flag[u] ~> ~flag[u]
=============================================================================

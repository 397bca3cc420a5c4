----------------------------- MODULE StressTest -----------------------------
(***************************************************************************)
(* The stress test that runs on a monitored server                         *)
(* (hw_monitor/hw_stress_test.py): the main thread goes through the phases *)
(* until the flag "running" falls; a monitor and a timer lower the flag    *)
(* and set the event that cuts a phase short; a signal only lowers it, and *)
(* one that meets the main thread inside log() is the end of the tests.    *)
(***************************************************************************)
EXTENDS Naturals, Sequences

CONSTANT Skippable   \* bound: the phases a command line may leave out

VARIABLES skips,      \* the phases the command line leaves out
          gpu,        \* whether nvidia-smi finds a GPU on the bus
          running,    \* the global flag
          stopEvent,
          failure,    \* test_results["failure"]; the status of each phase is left out
          main, monitor, limiter,   \* what each thread is doing
          results,    \* the failure results.json names, once this run has saved it
          stoppedBy   \* history: who lowered the flag

stressVars == <<skips, gpu, running, stopEvent, failure, main, monitor, limiter, results, stoppedBy>>

Order == <<"cpu", "ram", "disk", "gpu", "combined">>
Rounds(p) == IF p = "combined" THEN 1 ELSE 3
\* The rounds after which a set event ends the phase.
EndsAfter == {<<"cpu", 1>>, <<"cpu", 2>>, <<"ram", 1>>, <<"ram", 2>>, <<"disk", 1>>, <<"disk", 2>>, <<"gpu", 1>>}
\* The rounds that look for the GPU.
Watching == {<<"gpu", 1>>, <<"gpu", 2>>, <<"gpu", 3>>, <<"combined", 1>>}

Place(pc, i, n) == [pc |-> pc, phase |-> i, round |-> n]

StressInit ==
    /\ skips \in SUBSET Skippable /\ gpu \in BOOLEAN
    /\ running = TRUE /\ stopEvent = FALSE /\ failure = "none"
    /\ main = Place("next", 1, 0) /\ monitor = "tests" /\ limiter \in {"off", "sleeps"}
    /\ results = "none" /\ stoppedBy = "nobody"

threads == <<main, monitor, limiter>>
flags == <<running, stopEvent, stoppedBy>>
Current == Order[main.phase]
NextPhase == Place("next", IF main.phase = Len(Order) THEN 1 ELSE main.phase + 1, 0)

Lowers(who) == running' = FALSE /\ stoppedBy' = IF running THEN who ELSE stoppedBy

-----------------------------------------------------------------------------
(* main(): "if running and not args.skip_...", in order, and again from the   *)
(* first; without the flag there is nothing left to do.                       *)
LeavesLoop ==
    /\ main.pc = "next" /\ ~running /\ main' = [main EXCEPT !.pc = "finally"]
    /\ UNCHANGED <<skips, gpu, flags, failure, monitor, limiter, results>>

SkipsPhase ==
    /\ main.pc = "next" /\ running /\ Current \in skips /\ main' = NextPhase
    /\ UNCHANGED <<skips, gpu, flags, failure, monitor, limiter, results>>

(* A phase begins; test_gpu() without a GPU is over with that.                *)
BeginsPhase ==
    /\ main.pc = "next" /\ running /\ Current \notin skips
    /\ IF Current = "gpu" /\ ~gpu
       THEN main' = NextPhase
       ELSE main' = Place("round", main.phase, 1)
    /\ UNCHANGED <<skips, gpu, flags, failure, monitor, limiter, results>>

(* test_disk() and test_combined() make a directory first; an error there ends*)
(* the tests.                                                                 *)
PhaseRaises ==
    /\ main.pc = "round" /\ Current \in {"disk", "combined"} /\ main.round = 1
    /\ main' = [main EXCEPT !.pc = "finally"]
    /\ UNCHANGED <<skips, gpu, flags, failure, monitor, limiter, results>>

(* A round ends with its time or, unless fio is waited for, with the event.   *)
RoundOver ==
    /\ main.pc = "round" /\ main' = [main EXCEPT !.pc = "after"]
    /\ UNCHANGED <<skips, gpu, flags, failure, monitor, limiter, results>>

(* What follows: the phase returns, its next round, or its end.               *)
AfterRound ==
    LET p == Current IN
    /\ main.pc = "after"
    /\ main' = IF main.round = Rounds(p) \/ (stopEvent /\ <<p, main.round>> \in EndsAfter)
               THEN NextPhase ELSE Place("round", main.phase, main.round + 1)
    /\ UNCHANGED <<skips, gpu, flags, failure, monitor, limiter, results>>

(* The GPU is off the bus, or has not answered three times: the phase fails,  *)
(* the load is killed ...                                                     *)
GpuFails ==
    /\ main.pc = "round" /\ <<Current, main.round>> \in Watching
    /\ gpu => main.round = 3
    /\ failure' = "gpu"
    /\ main' = [main EXCEPT !.pc = "stops"]
    /\ UNCHANGED <<skips, gpu, flags, monitor, limiter, results>>

StopsAll == stopEvent' = TRUE /\ Lowers("test")

(* ... and all tests end.                                                     *)
StopsTests ==
    /\ main.pc = "stops" /\ StopsAll /\ main' = NextPhase
    /\ UNCHANGED <<skips, gpu, failure, monitor, limiter, results>>

(* finally: the event, the flag, save_results(), the closing lines.           *)
Finishes ==
    /\ main.pc = "finally" /\ main' = [main EXCEPT !.pc = "saves"]
    /\ stopEvent' = TRUE /\ Lowers("main")
    /\ UNCHANGED <<skips, gpu, failure, monitor, limiter, results>>

SavesResults ==
    /\ main.pc = "saves" /\ main' = [main EXCEPT !.pc = "reports"]
    /\ results' = failure
    /\ UNCHANGED <<skips, gpu, flags, failure, monitor, limiter>>

ClosingLines ==
    /\ main.pc = "reports" /\ main' = [main EXCEPT !.pc = "done"]
    /\ UNCHANGED <<skips, gpu, flags, failure, monitor, limiter, results>>

(* log() holds log_lock while it writes.  A main thread that is stuck holds it *)
(* for ever: every thread stops at its next line.                             *)
LogIsFree == main.pc # "stuck"

-----------------------------------------------------------------------------
(* monitor_loop(): every five seconds, until the event is set.                *)
MonitorTests ==
    /\ monitor = "tests" /\ monitor' = IF stopEvent THEN "ended" ELSE "reads"
    /\ UNCHANGED <<skips, gpu, flags, failure, main, limiter, results>>

\* Mutant: what was found is only logged.
OnlyLogs(found) == monitor' = "flags" /\ UNCHANGED <<failure, running, stoppedBy>>

FailureRecorded(found) == monitor' = "flags" /\ failure' = found /\ UNCHANGED <<running, stoppedBy>>

(* A temperature above the limit, or no GPU on the bus: the failure first ... *)
MonitorFinds ==
    /\ monitor = "reads" /\ LogIsFree
    /\ \E found \in {"temperature", "gpu"} : (found = "gpu" => ~gpu) /\ FailureRecorded(found)
    /\ UNCHANGED <<skips, gpu, stopEvent, main, limiter, results>>

MonitorSeesNothing ==
    /\ monitor = "reads" /\ LogIsFree /\ gpu /\ monitor' = "tests"
    /\ UNCHANGED <<skips, gpu, flags, failure, main, limiter, results>>

(* ... then the flag, then the event.                                         *)
MonitorFlags ==
    /\ monitor = "flags" /\ monitor' = "sets" /\ Lowers("monitor")
    /\ UNCHANGED <<skips, gpu, stopEvent, failure, main, limiter, results>>

MonitorSets ==
    /\ monitor = "sets" /\ monitor' = "ended" /\ stopEvent' = TRUE
    /\ UNCHANGED <<skips, gpu, running, stoppedBy, failure, main, limiter, results>>

(* --duration: timeout_fn()                                                   *)
TimeIsUp ==
    /\ limiter = "sleeps" /\ LogIsFree /\ limiter' = "sets" /\ Lowers("limiter")
    /\ UNCHANGED <<skips, gpu, stopEvent, failure, main, monitor, results>>

TimerSets ==
    /\ limiter = "sets" /\ limiter' = "off" /\ stopEvent' = TRUE
    /\ UNCHANGED <<skips, gpu, running, stoppedBy, failure, main, monitor, results>>

(* signal_handler(): SIGTERM, from "Stop": a line in the log, then the flag.  *)
Signalled ==
    /\ LogIsFree /\ Lowers("user")
    /\ UNCHANGED <<skips, gpu, stopEvent, failure, main, monitor, limiter, results>>

(* The handler runs in the main thread.  If that thread is inside log(), for  *)
(* itself or in the handler of an earlier "Stop", it waits for its own lock.  *)
SignalledInLog ==
    /\ LogIsFree /\ main' = [main EXCEPT !.pc = "stuck"]
    /\ UNCHANGED <<skips, gpu, flags, failure, monitor, limiter, results>>

GpuGoes ==
    /\ gpu /\ gpu' = FALSE
    /\ UNCHANGED <<skips, flags, failure, threads, results>>

(* The process has ended, or is killed where it is stuck; another is started. *)
StartsAgain ==
    /\ main.pc \in {"done", "stuck"}
    /\ running' = TRUE /\ stopEvent' = FALSE /\ stoppedBy' = "nobody"
    /\ failure' = "none"
    /\ main' = Place("next", 1, 0) /\ monitor' = "tests" /\ limiter' \in {"off", "sleeps"}
    /\ gpu' \in BOOLEAN /\ skips' \in SUBSET Skippable /\ results' = "none"

MainStep ==
    \/ LeavesLoop \/ SkipsPhase \/ BeginsPhase \/ PhaseRaises \/ RoundOver \/ AfterRound
    \/ GpuFails \/ StopsTests \/ Finishes \/ SavesResults \/ ClosingLines
MonitorStep == MonitorTests \/ MonitorFinds \/ MonitorSeesNothing \/ MonitorFlags \/ MonitorSets
TimerStep == TimeIsUp \/ TimerSets

StressNext ==
    \/ main.pc # "done" /\ (MainStep \/ MonitorStep \/ TimerStep \/ Signalled \/ SignalledInLog \/ GpuGoes)
    \/ StartsAgain

(* The threads run while the process lives.                                   *)
StressFairness ==
    /\ WF_stressVars(MainStep)
    /\ WF_stressVars(main.pc # "done" /\ MonitorStep) /\ WF_stressVars(main.pc # "done" /\ TimerStep)

StressSpec == StressInit /\ [][StressNext]_stressVars

-----------------------------------------------------------------------------
(* When the hardware ended the tests, the results that are saved say so, in   *)
(* whatever order the threads stop each other: no failure is lost between the *)
(* thread that found it and the one that writes the file.                     *)
FailureIsSaved ==
    main.pc \in {"reports", "done"} /\ stoppedBy \in {"monitor", "test"} => results # "none"

(* A test that is told to stop, by a thread, a phase or a signal, ends, rather *)
(* than going through phases that end at once; only a signal that met the main *)
(* thread inside log() leaves it stuck there.                                 *)
TestsEnd == stopEvent \/ ~running ~> main.pc \in {"done", "stuck"}
=============================================================================

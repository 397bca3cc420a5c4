---------------------------- MODULE Hosts_proofs ----------------------------
(***************************************************************************)
(* Proofs about the managed hosts: HostStore, AutoUpdate and StressTest,   *)
(* for any number of hosts, threads and requests, and ShutdownSchedule,    *)
(* for any number of schedules, any length of day and week and any         *)
(* operator actions.                                                       *)
(***************************************************************************)
EXTENDS HostStore, AutoUpdate, StressTest, ShutdownSchedule, TLAPS

-----------------------------------------------------------------------------
(* Updates of the managed hosts.  What a run has noted so far, by its step.    *)
RunType == [pc : {"rests", "connects", "detects", "updates", "checks", "ended", "opens", "writes"},
            todo : SUBSET Managed, host : Managed \cup {CHOOSE h \in Managed : TRUE},
            attempt : 1 .. ConnectAttempts, updated : BOOLEAN, failed : BOOLEAN, mailed : BOOLEAN]

NotedSoFar(r) ==
    /\ r.pc \in {"connects", "detects", "updates"} => ~r.updated /\ ~r.failed /\ ~r.mailed
    /\ r.pc = "checks" => ~r.mailed /\ (r.failed <=> ~r.updated)
    /\ r.pc = "ended" => (r.failed <=> ~r.updated) /\ (r.mailed <=> r.failed)

RunInv == run \in [Runs -> RunType] /\ \A x \in Runs : NotedSoFar(run[x])

LEMMA NoRunType ==
    /\ NoRun \in RunType /\ NoRun.pc = "rests"
    /\ ~NoRun.updated /\ ~NoRun.failed /\ ~NoRun.mailed
BY DEF NoRun, RunType, ConnectAttempts

(* A run that becomes r, with what is to be noted at r's step.                 *)
LEMMA BecomesNoted ==
    ASSUME RunInv, NEW x \in Runs, NEW r \in RunType, NotedSoFar(r), Becomes(x, r)
    PROVE  RunInv'
BY DEF RunInv, Becomes, NotedSoFar

LEMMA StartsNoted ==
    ASSUME NEW h \in Managed, NEW todo \in SUBSET Managed
    PROVE  StartsOn(h, todo) \in RunType /\ NotedSoFar(StartsOn(h, todo))
<1> DEFINE s == StartsOn(h, todo)
<1>1. s \in RunType
  BY NoRunType DEF StartsOn, RunType
<1>2. s.pc = "connects" /\ ~s.updated /\ ~s.failed /\ ~s.mailed
  BY NoRunType DEF StartsOn, RunType
<1> QED
  BY <1>1, <1>2 DEF NotedSoFar

(* The finally of run_update(): a run that failed mails, once.                 *)
LEMMA EndsNoted ==
    ASSUME NEW r \in RunType, r.failed <=> ~r.updated, r.mailed => r.failed
    PROVE  RunEnded(r) \in RunType /\ NotedSoFar(RunEnded(r))
<1> DEFINE e == RunEnded(r)
<1>1. e \in RunType
  BY DEF RunEnded, RunType
<1>2. /\ e.pc = "ended" /\ e.failed = r.failed /\ e.updated = r.updated
      /\ e.mailed = (r.mailed \/ r.failed)
  BY DEF RunEnded, RunType
<1> QED
  BY <1>1, <1>2 DEF NotedSoFar

LEMMA FailsNoted ==
    ASSUME RunInv, NEW x \in Runs, run[x].pc \in {"connects", "detects", "updates"}, NEW mailed \in BOOLEAN,
           Becomes(x, RunEnded([run[x] EXCEPT !.failed = TRUE, !.mailed = mailed]))
    PROVE  RunInv'
<1> DEFINE r == [run[x] EXCEPT !.failed = TRUE, !.mailed = mailed]
<1>1. run[x] \in RunType /\ ~run[x].updated
  BY DEF RunInv, NotedSoFar
<1>2. r \in RunType /\ r.failed /\ ~r.updated
  BY <1>1 DEF RunType
<1> HIDE DEF r
<1>3. RunEnded(r) \in RunType /\ NotedSoFar(RunEnded(r))
  BY <1>2, EndsNoted
<1> QED
  BY <1>3, BecomesNoted DEF r

LEMMA EndsFailedNoted ==
    ASSUME RunInv, NEW x \in Runs, run[x].pc \in {"connects", "detects", "updates"}, EndsFailed(x)
    PROVE  RunInv'
<1> DEFINE r == [run[x] EXCEPT !.failed = TRUE]
<1>1. run[x] \in RunType /\ ~run[x].updated
  BY DEF RunInv, NotedSoFar
<1>2. r \in RunType /\ r.failed /\ ~r.updated
  BY <1>1 DEF RunType
<1>3. Becomes(x, RunEnded(r))
  BY DEF EndsFailed
<1> HIDE DEF r
<1>4. RunEnded(r) \in RunType /\ NotedSoFar(RunEnded(r))
  BY <1>2, EndsNoted
<1> QED
  BY <1>3, <1>4, BecomesNoted

LEMMA RunStepNoted ==
    ASSUME RunInv, NEW x \in Runs, RunSteps(x)
    PROVE  RunInv'
<1>0. run[x] \in RunType /\ NotedSoFar(run[x])
  BY DEF RunInv
<1>1. ASSUME Connects(x) PROVE RunInv'
  <2> DEFINE r == [run[x] EXCEPT !.pc = "detects"]
  <2>1. r \in RunType /\ r.pc = "detects" /\ r.updated = run[x].updated /\ r.failed = run[x].failed /\ r.mailed = run[x].mailed
    BY <1>0 DEF RunType
  <2>2. Becomes(x, r) /\ run[x].pc = "connects"
    BY <1>1 DEF Connects, Step
  <2> HIDE DEF r
  <2> QED
    BY <1>0, <2>1, <2>2, BecomesNoted DEF NotedSoFar
<1>2. ASSUME ConnectFails(x) PROVE RunInv'
  <2>1. CASE run[x].attempt < ConnectAttempts
    <3> DEFINE r == [run[x] EXCEPT !.attempt = @ + 1]
    <3>1. r \in RunType /\ r.pc = run[x].pc /\ r.updated = run[x].updated /\ r.failed = run[x].failed /\ r.mailed = run[x].mailed
      BY <1>0, <2>1 DEF RunType, ConnectAttempts
    <3>2. Becomes(x, r)
      BY <1>2, <2>1 DEF ConnectFails
    <3> HIDE DEF r
    <3> QED
      BY <1>0, <3>1, <3>2, BecomesNoted DEF NotedSoFar
  <2>2. CASE ~(run[x].attempt < ConnectAttempts)
    BY <1>2, <2>2, EndsFailedNoted DEF ConnectFails, Step
  <2> QED
    BY <2>1, <2>2
<1>3. ASSUME AuthenticationFails(x) \/ UpdatesLocally(x) \/ UpdateBreaks(x) PROVE RunInv'
  BY <1>3, EndsFailedNoted DEF AuthenticationFails, UpdatesLocally, UpdateBreaks, Step
<1>4. ASSUME Detects(x) PROVE RunInv'
  <2> DEFINE r == [run[x] EXCEPT !.pc = "updates"]
  <2>1. r \in RunType /\ r.pc = "updates" /\ r.updated = run[x].updated /\ r.failed = run[x].failed /\ r.mailed = run[x].mailed
    BY <1>0 DEF RunType
  <2>2. Becomes(x, r) /\ run[x].pc = "detects"
    BY <1>4 DEF Detects, Step
  <2> HIDE DEF r
  <2> QED
    BY <1>0, <2>1, <2>2, BecomesNoted DEF NotedSoFar
<1>5. ASSUME DetectsNothing(x) PROVE RunInv'
  BY <1>5, FailsNoted DEF DetectsNothing, Step
<1>6. ASSUME Updates(x) PROVE RunInv'
  <2> DEFINE r == [run[x] EXCEPT !.pc = "checks", !.updated = TRUE]
  <2>1. r \in RunType /\ r.pc = "checks" /\ r.updated /\ r.failed = run[x].failed /\ r.mailed = run[x].mailed
    BY <1>0 DEF RunType
  <2>2. Becomes(x, r) /\ run[x].pc = "updates"
    BY <1>6 DEF Updates, Step
  <2> HIDE DEF r
  <2> QED
    BY <1>0, <2>1, <2>2, BecomesNoted DEF NotedSoFar
<1>7. ASSUME UpdateFails(x) PROVE RunInv'
  <2> DEFINE r == [run[x] EXCEPT !.pc = "checks", !.failed = TRUE]
  <2>1. r \in RunType /\ r.pc = "checks" /\ r.updated = run[x].updated /\ r.failed /\ r.mailed = run[x].mailed
    BY <1>0 DEF RunType
  <2>2. Becomes(x, r) /\ run[x].pc = "updates"
    BY <1>7 DEF UpdateFails, Step
  <2> HIDE DEF r
  <2> QED
    BY <1>0, <2>1, <2>2, BecomesNoted DEF NotedSoFar
<1>8. ASSUME ChecksRestart(x) PROVE RunInv'
  <2>1. run[x].pc = "checks" /\ Becomes(x, RunEnded(run[x]))
    BY <1>8 DEF ChecksRestart, CheckLogged, Step
  <2>2. RunEnded(run[x]) \in RunType /\ NotedSoFar(RunEnded(run[x]))
    BY <1>0, <2>1, EndsNoted DEF NotedSoFar
  <2> QED
    BY <2>1, <2>2, BecomesNoted
<1>9. ASSUME Returns(x) PROVE RunInv'
  <2> DEFINE r == [NoRun EXCEPT !.pc = "opens"]
  <2>1. r \in RunType /\ r.pc = "opens"
    BY NoRunType DEF RunType
  <2>2. NotedSoFar(r) /\ NotedSoFar(NoRun)
    BY <2>1, NoRunType DEF NotedSoFar
  <2>3. Becomes(x, r) \/ Becomes(x, NoRun)
    BY <1>9 DEF Returns
  <2> HIDE DEF r
  <2> QED
    BY <2>1, <2>2, <2>3, NoRunType, BecomesNoted
<1>10. ASSUME NEW h \in Managed, ReturnsNext(x, h) PROVE RunInv'
  <2>1. run[x].todo \ {h} \in SUBSET Managed
    BY <1>0 DEF RunType
  <2> QED
    BY <1>10, <2>1, StartsNoted, BecomesNoted DEF ReturnsNext
<1> QED
  BY <1>1, <1>2, <1>3, <1>4, <1>5, <1>6, <1>7, <1>8, <1>9, <1>10 DEF RunSteps

LEMMA AutoStepNoted == RunInv /\ [AutoNext]_autoVars => RunInv'
<1> SUFFICES ASSUME RunInv, [AutoNext]_autoVars PROVE RunInv'
  OBVIOUS
<1>1. CASE UNCHANGED run
  BY <1>1 DEF RunInv, NotedSoFar
<1>2. ASSUME NEW h \in Managed, JobRuns(h) PROVE RunInv'
  <2>1. Scheduled \in Runs /\ Managed \ {h} \in SUBSET Managed
    BY DEF Runs
  <2> QED
    BY <1>2, <2>1, StartsNoted, BecomesNoted DEF JobRuns, Becomes
<1>3. ASSUME NEW x \in Runs, NEW h \in Managed, UserStarts(x, h) PROVE RunInv'
  <2>1. {} \in SUBSET Managed
    OBVIOUS
  <2> QED
    BY <1>3, <2>1, StartsNoted, BecomesNoted DEF UserStarts, Becomes
<1>4. CASE JobTruncates
  <2> DEFINE r == [run[Scheduled] EXCEPT !.pc = "writes"]
  <2>1. Scheduled \in Runs /\ run[Scheduled] \in RunType
    BY DEF Runs, RunInv
  <2>2. r \in RunType /\ r.pc = "writes"
    BY <2>1 DEF RunType
  <2>3. Becomes(Scheduled, r)
    BY <1>4 DEF JobTruncates, Becomes
  <2> HIDE DEF r
  <2> QED
    BY <2>1, <2>2, <2>3, BecomesNoted DEF NotedSoFar
<1>5. CASE JobSaves
  BY <1>5, NoRunType, BecomesNoted DEF JobSaves, Becomes, NotedSoFar, Runs
<1>6. CASE AutoRestart
  BY <1>6, NoRunType DEF AutoRestart, RunInv, NotedSoFar
<1> QED
  BY <1>1, <1>2, <1>3, <1>4, <1>5, <1>6, RunStepNoted
     DEF AutoNext, autoVars, PostsEmail, Truncates, WritesSettings, RemovesJobs, AddsJob, Posts

(* run_update() in updater.py: on every way out of it, of a scheduled or a     *)
(* user's run on any host, it reports a failure exactly if the host was not    *)
(* updated, and mails exactly the failures.                                    *)
THEOREM UpdateReportsAreTrue == AutoSpec => []ReportsAreTrue
<1>1. AutoInit => RunInv
  BY NoRunType DEF AutoInit, RunInv, NotedSoFar
<1>2. RunInv => ReportsAreTrue
  BY DEF RunInv, NotedSoFar, ReportsAreTrue
<1> QED
  BY <1>1, <1>2, AutoStepNoted, PTL DEF AutoSpec

-----------------------------------------------------------------------------
(* The stress test.  Who lowers the flag because of the hardware has written   *)
(* the failure before, nobody takes it back while the process lives, and the   *)
(* results are written with the flag down.                                     *)
MainType ==
    [pc : {"next", "round", "after", "stops", "finally", "saves", "reports", "done", "stuck"}, phase : Nat, round : Nat]

FailureInv ==
    /\ main \in MainType
    /\ monitor = "flags" => failure # "none"
    /\ main.pc = "stops" => failure # "none"
    /\ stoppedBy \in {"monitor", "test"} => failure # "none"
    /\ main.pc \in {"saves", "reports", "done"} => ~running
    /\ FailureIsSaved

LEMMA PlaceType ==
    ASSUME NEW pc \in {"next", "round"}, NEW i \in Nat, NEW n \in Nat
    PROVE  Place(pc, i, n) \in MainType /\ Place(pc, i, n).pc = pc
BY DEF Place, MainType

LEMMA NextPhaseType == main \in MainType => NextPhase \in MainType /\ NextPhase.pc = "next"
<1> SUFFICES ASSUME main \in MainType PROVE NextPhase \in MainType /\ NextPhase.pc = "next"
  OBVIOUS
<1>1. main.phase + 1 \in Nat /\ 1 \in Nat /\ 0 \in Nat
  BY DEF MainType
<1>2. (IF main.phase = Len(Order) THEN 1 ELSE main.phase + 1) \in Nat
  BY <1>1
<1> QED
  BY <1>1, <1>2, PlaceType DEF NextPhase

LEMMA MainStepSaves ==
    ASSUME FailureInv, main.pc # "done", MainStep
    PROVE  FailureInv'
<1> USE DEF flags
<1>0. main \in MainType /\ NextPhase \in MainType /\ NextPhase.pc = "next"
  BY NextPhaseType DEF FailureInv
<1>1. ASSUME main' \in MainType, main'.pc \notin {"stops", "saves", "reports", "done"}, UNCHANGED <<failure, monitor>>,
             stoppedBy' \in {"monitor", "test"} => failure # "none"
      PROVE  FailureInv'
  BY <1>1 DEF FailureInv, FailureIsSaved
<1>2. ASSUME LeavesLoop \/ PhaseRaises \/ RoundOver PROVE FailureInv'
  <2>1. PICK pc \in {"finally", "after"} : main' = [main EXCEPT !.pc = pc]
    BY <1>2 DEF LeavesLoop, PhaseRaises, RoundOver
  <2>2. main' \in MainType /\ main'.pc = pc
    BY <1>0, <2>1 DEF MainType
  <2> QED
    BY <1>1, <1>2, <2>2 DEF LeavesLoop, PhaseRaises, RoundOver, FailureInv
<1>3. ASSUME SkipsPhase PROVE FailureInv'
  BY <1>0, <1>1, <1>3 DEF SkipsPhase, FailureInv
<1>4. ASSUME BeginsPhase PROVE FailureInv'
  <2>1. main.phase \in Nat /\ 1 \in Nat
    BY <1>0 DEF MainType
  <2>2. main' \in MainType /\ main'.pc \in {"next", "round"}
    BY <1>0, <1>4, <2>1, PlaceType DEF BeginsPhase
  <2> QED
    BY <1>1, <1>4, <2>2 DEF BeginsPhase, FailureInv
<1>5. ASSUME AfterRound PROVE FailureInv'
  <2>1. main.phase \in Nat /\ main.round + 1 \in Nat
    BY <1>0 DEF MainType
  <2>2. main' \in MainType /\ main'.pc \in {"next", "round"}
    BY <1>0, <1>5, <2>1, PlaceType DEF AfterRound
  <2> QED
    BY <1>1, <1>5, <2>2 DEF AfterRound, FailureInv
<1>6. ASSUME GpuFails PROVE FailureInv'
  <2>1. main' \in MainType /\ main'.pc = "stops"
    BY <1>0, <1>6 DEF GpuFails, MainType
  <2> QED
    BY <1>6, <2>1 DEF GpuFails, FailureInv, FailureIsSaved
<1>7. ASSUME StopsTests PROVE FailureInv'
  BY <1>0, <1>1, <1>7 DEF StopsTests, StopsAll, Lowers, FailureInv
<1>8. ASSUME Finishes PROVE FailureInv'
  <2>1. main' \in MainType /\ main'.pc = "saves"
    BY <1>0, <1>8 DEF Finishes, MainType
  <2> QED
    <3>1. /\ UNCHANGED <<failure, monitor>> /\ running' = FALSE
          /\ stoppedBy' \in {"monitor", "test"} => failure # "none"
      BY <1>8 DEF Finishes, Lowers, FailureInv
    <3> QED
      BY <2>1, <3>1 DEF FailureInv, FailureIsSaved
<1>9. ASSUME SavesResults PROVE FailureInv'
  <2>1. main' \in MainType /\ main'.pc = "reports"
    BY <1>0, <1>9 DEF SavesResults, MainType
  <2> QED
    BY <1>9, <2>1 DEF SavesResults, FailureInv, FailureIsSaved
<1>10. ASSUME ClosingLines PROVE FailureInv'
  <2>1. main' \in MainType /\ main'.pc = "done"
    BY <1>0, <1>10 DEF ClosingLines, MainType
  <2> QED
    BY <1>10, <2>1 DEF ClosingLines, FailureInv, FailureIsSaved
<1> QED
  BY <1>2, <1>3, <1>4, <1>5, <1>6, <1>7, <1>8, <1>9, <1>10 DEF MainStep

LEMMA StressStepSaves == FailureInv /\ [StressNext]_stressVars => FailureInv'
<1> SUFFICES ASSUME FailureInv, [StressNext]_stressVars PROVE FailureInv'
  OBVIOUS
<1> USE DEF flags
<1>1. CASE UNCHANGED stressVars
  BY <1>1 DEF stressVars, FailureInv, FailureIsSaved
<1>2. CASE main.pc # "done" /\ MonitorStep
  <2>1. CASE MonitorTests \/ MonitorSeesNothing \/ MonitorSets
    BY <1>2, <2>1 DEF MonitorTests, MonitorSeesNothing, MonitorSets, FailureInv, FailureIsSaved
  <2>2. CASE MonitorFinds
    BY <1>2, <2>2 DEF MonitorFinds, FailureRecorded, FailureInv, FailureIsSaved
  <2>3. CASE MonitorFlags
    <3>1. /\ monitor = "flags" /\ monitor' = "sets" /\ running' = FALSE
          /\ UNCHANGED <<failure, main, results>>
          /\ stoppedBy' = IF running THEN "monitor" ELSE stoppedBy
      BY <2>3 DEF MonitorFlags, Lowers
    <3>2. failure # "none"
      BY <3>1 DEF FailureInv
    <3>3. FailureIsSaved'
      BY <3>1 DEF FailureInv, FailureIsSaved
    <3> QED
      BY <3>1, <3>2, <3>3 DEF FailureInv
  <2> QED
    BY <1>2, <2>1, <2>2, <2>3 DEF MonitorStep
<1>3. CASE main.pc # "done" /\ (TimerStep \/ Signalled \/ GpuGoes)
  BY <1>3 DEF TimerStep, TimeIsUp, TimerSets, Signalled, GpuGoes, threads, Lowers, FailureInv, FailureIsSaved
<1>4. CASE StartsAgain
  BY <1>4, PlaceType DEF StartsAgain, FailureInv, FailureIsSaved
<1>5. CASE SignalledInLog
  <2>1. main' \in MainType /\ main'.pc = "stuck"
    BY <1>5 DEF SignalledInLog, FailureInv, MainType
  <2> QED
    BY <1>5, <2>1 DEF SignalledInLog, FailureInv, FailureIsSaved
<1> QED
  BY <1>1, <1>2, <1>3, <1>4, <1>5, MainStepSaves DEF StressNext

(* hw_stress_test.py: when the hardware ended the tests, results.json says so, *)
(* in whatever order the phases, the monitor, the timer and signals stop each  *)
(* other, whichever phases were left out.                                      *)
THEOREM StressFailureIsSaved == StressSpec => []FailureIsSaved
<1>1. StressInit => FailureInv
  BY PlaceType DEF StressInit, FailureInv, FailureIsSaved
<1>2. FailureInv => FailureIsSaved
  BY DEF FailureInv
<1> QED
  BY <1>1, <1>2, StressStepSaves, PTL DEF StressSpec

-----------------------------------------------------------------------------
(* The host list.  A probe is in flight from its scheduling to its end, so     *)
(* that nobody can schedule a second one; a detection holds on to a host it    *)
(* has found.                                                                  *)
HeldHosts == \A w \in Workers :
    job[w].op = "detect" /\ job[w].pc \in {"ask", "change"} => job[w].held \in Host

HostInv == HostTypeOK /\ HeldHosts /\ OneProbePerHost

NotesType == answered \subseteq Names /\ forgotten \subseteq Names

Stored == file \in Hosts \cup {TornFile} /\ heap \in [Objs -> Hosts] /\ cache \in 0 .. MaxObjs

LEMMA RestingType == Resting \in Job /\ Resting.pc = "rest" /\ Resting.obj = 0 /\ Resting.conf \in Confs
<1> DEFINE n == CHOOSE n \in Names : TRUE
           c == CHOOSE c \in Confs : TRUE
<1>1. n \in Names /\ c \in Confs
  BY StoreConstants
<1> HIDE DEF n, c
<1>2. 0 \in 0 .. MaxObjs
  BY StoreConstants
<1>3. "add" \in Ops
  BY DEF Ops
<1>4. [pc |-> "rest", op |-> "add", name |-> n, new |-> n, conf |-> c, obj |-> 0, held |-> NoHost,
       again |-> FALSE, moved |-> FALSE] \in Job
  BY <1>1, <1>2, <1>3 DEF Job
<1> QED
  BY <1>1, <1>4 DEF Resting, n, c

LEMMA NoHostsType == NoHosts \in Hosts
BY DEF NoHosts, Hosts

LEMMA FreesType == heap \in [Objs -> Hosts] /\ Frees => heap' \in [Objs -> Hosts]
BY NoHostsType DEF Frees

(* Threads that go on with what they do.                                       *)
LEMMA ThreadsGoOn ==
    ASSUME HostInv, Stored', UNCHANGED probes, NotesType', job' \in [Workers -> Job],
           \A v \in Workers :
               /\ job'[v].op = job[v].op /\ job'[v].name = job[v].name
               /\ job'[v].pc = "rest" <=> job[v].pc = "rest"
               /\ job'[v].obj = 0 => job'[v].pc \in {"rest", "load"}
               /\ job'[v].op = "detect" /\ job'[v].pc \in {"ask", "change"} => job'[v].held \in Host
    PROVE  HostInv'
<1>1. inflight' = inflight /\ started' = started
  BY DEF probes
<1>2. \A v \in Workers, n \in Names : Probes(v, n)' <=> Probes(v, n)
  BY DEF Probes, At
<1>3. \A v \in Workers : job[v].name \in Names /\ job'[v].name \in Names
  BY DEF HostInv, NotesType, HostTypeOK, Job
<1>4. \A v \in Workers : Probes(v, job[v].name)' => job'[v].name \in inflight'
  BY <1>1, <1>2, <1>3 DEF HostInv, NotesType, HostTypeOK
<1>5. HostTypeOK'
  BY <1>1, <1>3, <1>4 DEF HostInv, NotesType, HostTypeOK, Stored, Probes, At
<1>6. HeldHosts'
  BY DEF HeldHosts
<1>7. OneProbePerHost'
  BY <1>1, <1>2 DEF HostInv, OneProbePerHost
<1> QED
  BY <1>5, <1>6, <1>7 DEF HostInv

LEMMA ThreadGoesOn ==
    ASSUME HostInv, Stored', UNCHANGED probes, NotesType',
           NEW w \in Workers, NEW r \in Job, job' = [job EXCEPT ![w] = r],
           r.op = job[w].op, r.name = job[w].name, job[w].pc # "rest", r.pc # "rest",
           r.obj = 0 => r.pc = "load",
           r.op = "detect" /\ r.pc \in {"ask", "change"} => r.held \in Host
    PROVE  HostInv'
<1>1. job \in [Workers -> Job]
  BY DEF HostInv, NotesType, HostTypeOK
<1>2. job' \in [Workers -> Job] /\ job'[w] = r /\ \A v \in Workers \ {w} : job'[v] = job[v]
  BY <1>1
<1>3. ASSUME NEW v \in Workers
      PROVE  /\ job'[v].op = job[v].op /\ job'[v].name = job[v].name
             /\ job'[v].pc = "rest" <=> job[v].pc = "rest"
             /\ job'[v].obj = 0 => job'[v].pc \in {"rest", "load"}
             /\ job'[v].op = "detect" /\ job'[v].pc \in {"ask", "change"} => job'[v].held \in Host
  <2>1. CASE v = w
    BY <1>2, <2>1
  <2>2. CASE v # w
    BY <1>2, <2>2 DEF HostInv, NotesType, HostTypeOK, HeldHosts
  <2> QED
    BY <2>1, <2>2
<1> QED
  BY <1>2, <1>3, ThreadsGoOn

(* A thread ends; a probe that ends is no longer in flight, and was the only   *)
(* one of its host.                                                            *)
Alike(r, k) == r.op = k.op /\ r.name = k.name /\ r.pc = k.pc /\ r.obj = k.obj /\ r.held = k.held

LEMMA NoticedAlike ==
    ASSUME NEW v, NEW w, NEW new, job[v] \in Job
    PROVE  Noticed(v, w, new) \in Job /\ Alike(Noticed(v, w, new), job[v])
BY DEF Noticed, Alike, Job

LEMMA ThreadIsOver ==
    ASSUME HostInv, Stored', NotesType', NEW w \in Workers, ~At(w, "rest"),
           job' \in [Workers -> Job], job'[w] = Resting, \A v \in Workers \ {w} : Alike(job'[v], job[v]),
           started' = started, ProbeEnds(w)
    PROVE  HostInv'
<1>0. /\ job \in [Workers -> Job] /\ job[w].name \in Names /\ Resting \in Job
      /\ Resting.pc = "rest" /\ Resting.obj = 0 /\ inflight \subseteq Names
  BY RestingType DEF HostInv, NotesType, HostTypeOK, Job
<1>1. \A v \in Workers \ {w} : job'[v].op = job[v].op /\ job'[v].name = job[v].name /\ job'[v].pc = job[v].pc
                                 /\ job'[v].obj = job[v].obj /\ job'[v].held = job[v].held
  BY DEF Alike
<1>2. ASSUME NEW v \in Workers, NEW n \in Names, Probes(v, n)'
      PROVE  v # w /\ Probes(v, n) /\ n \in inflight'
  <2>1. v # w
    BY <1>0, <1>2 DEF Probes, At
  <2>2. Probes(v, n) /\ n = job[v].name
    BY <1>1, <1>2, <2>1 DEF Probes, At
  <2>3. n \in inflight
    BY <2>2 DEF HostInv, NotesType, HostTypeOK
  <2>4. job[w].op = "probe" => job[w].name # n
    BY <2>1, <2>2 DEF HostInv, OneProbePerHost, Probes
  <2> QED
    BY <2>1, <2>2, <2>3, <2>4 DEF ProbeEnds
<1>3. started' \subseteq inflight' /\ inflight' \subseteq Names
  <2>1. job[w].op = "probe" => job[w].name \notin started
    BY <1>0 DEF HostInv, OneProbePerHost, Probes
  <2> QED
    BY <1>0, <2>1 DEF ProbeEnds, HostInv, NotesType, HostTypeOK
<1>4. \A v \in Workers : job'[v].obj = 0 => job'[v].pc \in {"rest", "load"}
  BY <1>0, <1>1 DEF HostInv, NotesType, HostTypeOK
<1>5. \A v \in Workers : Probes(v, job[v].name)' => job'[v].name \in inflight'
  <2> SUFFICES ASSUME NEW v \in Workers, Probes(v, job[v].name)' PROVE job'[v].name \in inflight'
    OBVIOUS
  <2>1. job'[v].name \in Names
    BY <1>1 DEF Job
  <2> QED
    BY <1>2, <2>1 DEF Probes, At
<1>6. HostTypeOK'
  BY <1>1, <1>3, <1>4, <1>5 DEF NotesType, HostTypeOK, Stored, Probes, At
<1>7. HeldHosts'
  BY <1>0, <1>1 DEF HostInv, HeldHosts
<1>8. OneProbePerHost'
  BY <1>2 DEF HostInv, OneProbePerHost
<1> QED
  BY <1>6, <1>7, <1>8 DEF HostInv

LEMMA ThreadEnds ==
    ASSUME HostInv, Stored', NotesType', NEW w \in Workers, ~At(w, "rest"),
           job' = [job EXCEPT ![w] = Resting], started' = started, ProbeEnds(w)
    PROVE  HostInv'
<1>1. job \in [Workers -> Job] /\ Resting \in Job
  BY RestingType DEF HostInv, HostTypeOK
<1>2. job' \in [Workers -> Job] /\ job'[w] = Resting /\ \A v \in Workers \ {w} : Alike(job'[v], job[v])
  BY <1>1 DEF Alike
<1> QED
  BY <1>2, ThreadIsOver

(* A thread begins with r: of a user, or with a probe that was started.        *)
LEMMA ThreadBegins ==
    ASSUME HostInv, Stored', NotesType', inflight' = inflight, started' \subseteq started,
           NEW w \in Workers, At(w, "rest"), NEW r \in Job, job' = [job EXCEPT ![w] = r],
           r.pc = "load", r.op = "probe" => r.name \in started \ started'
    PROVE  HostInv'
<1>0. job \in [Workers -> Job] /\ started \subseteq inflight /\ inflight \subseteq Names
  BY DEF HostInv, NotesType, HostTypeOK
<1>1. job' \in [Workers -> Job] /\ job'[w] = r /\ \A v \in Workers \ {w} : job'[v] = job[v]
  BY <1>0
<1>2. ASSUME NEW v \in Workers, NEW n \in Names, Probes(v, n)'
      PROVE  /\ v # w => Probes(v, n) /\ n \in inflight /\ n \notin started
             /\ v = w => n \in started \ started'
  <2>1. CASE v = w
    BY <1>1, <1>2, <2>1 DEF Probes, At
  <2>2. CASE v # w
    <3>1. Probes(v, n) /\ n = job[v].name
      BY <1>1, <1>2, <2>2 DEF Probes, At
    <3> QED
      BY <2>2, <3>1 DEF HostInv, NotesType, HostTypeOK, OneProbePerHost
  <2> QED
    BY <2>1, <2>2
<1>3. \A v \in Workers : job'[v].obj = 0 => job'[v].pc \in {"rest", "load"}
  BY <1>1 DEF HostInv, NotesType, HostTypeOK
<1>4. \A v \in Workers : Probes(v, job[v].name)' => job'[v].name \in inflight'
  <2> SUFFICES ASSUME NEW v \in Workers, Probes(v, job[v].name)' PROVE job'[v].name \in inflight'
    OBVIOUS
  <2>1. job'[v].name \in Names
    BY <1>1 DEF Job
  <2> QED
    BY <1>0, <1>2, <2>1 DEF Probes, At
<1>5. HostTypeOK'
  BY <1>0, <1>1, <1>3, <1>4 DEF NotesType, HostTypeOK, Stored, Probes, At
<1>6. HeldHosts'
  BY <1>1 DEF HostInv, HeldHosts
<1>7. ASSUME NEW x \in Workers, NEW n \in Names, Probes(x, n)'
      PROVE  n \notin started' /\ \A v \in Workers \ {x} : ~Probes(v, n)'
  <2>1. n \notin started'
    BY <1>2, <1>7
  <2>2. ASSUME NEW v \in Workers \ {x}, Probes(v, n)' PROVE FALSE
    <3>1. CASE v # w /\ x # w
      BY <1>2, <1>7, <2>2, <3>1 DEF HostInv, OneProbePerHost
    <3>2. CASE v = w \/ x = w
      BY <1>2, <1>7, <2>2, <3>2
    <3> QED
      BY <3>1, <3>2
  <2> QED
    BY <2>1, <2>2
<1> QED
  BY <1>5, <1>6, <1>7 DEF HostInv, OneProbePerHost

(* What an operation makes of a dictionary is one.                             *)
LEMMA FreshType == \A c \in Confs : Fresh(c) \in Host
BY DEF Fresh, Host

LEMMA ChangedType ==
    ASSUME NEW d \in Hosts, NEW j \in Job,
           j.op \in {"edit", "delete", "image", "probe"} => d[j.name] # NoHost,
           j.op = "detect" => j.held \in Host
    PROVE  Changed(d, j) \in Hosts
<1>0. j.name \in Names /\ j.new \in Names /\ j.conf \in Confs /\ j.op \in Ops
  BY DEF Job
<1>1. \A e \in Hosts, n \in Names, h \in Host \cup {NoHost} : [e EXCEPT ![n] = h] \in Hosts
  BY DEF Hosts
<1>2. \A h \in Host, c \in Confs : [h EXCEPT !.conf = c] \in Host /\ [h EXCEPT !.found = TRUE] \in Host
  BY DEF Host
<1>3. d[j.name] \in Host \cup {NoHost}
  BY <1>0 DEF Hosts
<1>4. CASE j.op \in {"add", "register"}
  BY <1>0, <1>1, <1>4, FreshType DEF Changed
<1>5. CASE j.op = "edit"
  <2>1. d[j.name] \in Host
    BY <1>3, <1>5
  <2>2. Edited(d[j.name], j.conf) \in Host
    BY <1>0, <1>2, <2>1 DEF Edited
  <2>3. [d EXCEPT ![j.name] = NoHost] \in Hosts
    BY <1>0, <1>1
  <2> QED
    BY <1>0, <1>1, <1>5, <2>2, <2>3 DEF Changed
<1>6. CASE j.op = "detect"
  BY <1>0, <1>1, <1>2, <1>6 DEF Changed
<1>7. CASE j.op \in {"image", "probe"}
  <2>1. d[j.name] \in Host
    BY <1>3, <1>7
  <2> QED
    BY <1>0, <1>1, <1>2, <1>7, <2>1 DEF Changed
<1>8. CASE j.op \in {"delete", "purge"}
  BY <1>0, <1>1, <1>8 DEF Changed
<1> QED
  BY <1>0, <1>4, <1>5, <1>6, <1>7, <1>8 DEF Ops

LEMMA WorksInvariant ==
    ASSUME HostInv, NEW w \in Workers, Works(w)
    PROVE  HostInv'
<1> DEFINE j == job[w]
<1>0. /\ job \in [Workers -> Job] /\ j \in Job /\ Stored /\ NotesType
      /\ j.op = "detect" /\ j.pc \in {"ask", "change"} => j.held \in Host
  BY DEF HostInv, NotesType, HostTypeOK, Stored, HeldHosts
<1>00. /\ heap \in [Objs -> Hosts] /\ cache \in 0 .. MaxObjs /\ 0 \in 0 .. MaxObjs /\ Objs \subseteq (0 .. MaxObjs) \ {0}
       /\ file \in Hosts \cup {TornFile} /\ j.name \in Names /\ j.obj \in 0 .. MaxObjs /\ j.op \in Ops
  BY <1>0, StoreConstants DEF Stored, Objs, Job
<1>01. j.pc \notin {"rest", "load"} => j.obj \in Objs /\ Dict(w) \in Hosts
  BY <1>00 DEF HostInv, NotesType, HostTypeOK, Objs, Dict
<1>02. AfterLoad(w) \in {"look", "change"} /\ (j.op = "detect" => AfterLoad(w) = "look")
  BY DEF AfterLoad
<1>1. ASSUME LoadHits(w) PROVE HostInv'
  <2> DEFINE r == [j EXCEPT !.obj = cache, !.pc = AfterLoad(w)]
  <2>1. r \in Job /\ r.op = j.op /\ r.name = j.name /\ r.obj = cache /\ r.pc = AfterLoad(w) /\ r.held = j.held
    BY <1>0, <1>00, <1>02 DEF Job
  <2>2. job' = [job EXCEPT ![w] = r] /\ j.pc = "load" /\ cache # 0
    BY <1>1 DEF LoadHits, At
  <2>3. Stored' /\ UNCHANGED probes /\ NotesType'
    BY <1>0, <1>1 DEF LoadHits, Stored, NotesType, notes
  <2> HIDE DEF r
  <2> QED
    BY <1>02, <2>1, <2>2, <2>3, ThreadGoesOn
<1>2. ASSUME LoadCaches(w) PROVE HostInv'
  <2> DEFINE r == [j EXCEPT !.pc = AfterLoad(w)]
  <2>1. r \in Job /\ r.op = j.op /\ r.name = j.name /\ r.obj = j.obj /\ r.pc = AfterLoad(w) /\ r.held = j.held
    BY <1>0, <1>02 DEF Job
  <2>2. job' = [job EXCEPT ![w] = r] /\ j.pc = "cache" /\ j.obj \in Objs
    BY <1>01, <1>2 DEF LoadCaches, Goes, At
  <2>3. Stored' /\ UNCHANGED probes /\ NotesType'
    BY <1>0, <1>00, <1>2, <2>2 DEF LoadCaches, Stored, NotesType, notes
  <2> HIDE DEF r
  <2> QED
    BY <1>00, <1>02, <2>1, <2>2, <2>3, ThreadGoesOn
<1>3. ASSUME Looks(w) PROVE HostInv'
  <2> DEFINE h == Dict(w)[j.name]
             r == [j EXCEPT !.held = h, !.pc = "ask"]
  <2>1. j.pc = "look" /\ h # NoHost
    BY <1>3 DEF Looks, At
  <2>2. h \in Host
    BY <1>00, <1>01, <2>1 DEF Hosts
  <2> HIDE DEF h
  <2>3. r \in Job /\ r.op = j.op /\ r.name = j.name /\ r.obj = j.obj /\ r.pc = "ask" /\ r.held = h
    BY <1>0, <2>2 DEF Job
  <2>4. job' = [job EXCEPT ![w] = r]
    BY <1>3 DEF Looks, h
  <2>5. Stored' /\ UNCHANGED probes /\ NotesType'
    BY <1>0, <1>3 DEF Looks, Stored, NotesType, notes
  <2> HIDE DEF r
  <2> QED
    BY <1>00, <1>01, <2>1, <2>2, <2>3, <2>4, <2>5, ThreadGoesOn
<1>4. ASSUME Answers(w) PROVE HostInv'
  <2>1. Stored' /\ UNCHANGED probes /\ NotesType' /\ j.pc = "ask"
    BY <1>0, <1>4, FreesType DEF Answers, Stored, At, NotesType, notes
  <2>2. CASE j.op = "probe"
    <3> DEFINE r == [j EXCEPT !.again = TRUE, !.obj = 0, !.held = NoHost, !.pc = "load"]
    <3>1. r \in Job /\ r.op = j.op /\ r.name = j.name /\ r.obj = 0 /\ r.pc = "load"
      BY <1>0, <1>00 DEF Job
    <3>2. job' = [job EXCEPT ![w] = r]
      BY <1>4, <2>2 DEF Answers
    <3> HIDE DEF r
    <3> QED
      BY <2>1, <2>2, <3>1, <3>2, ThreadGoesOn
  <2>3. CASE j.op # "probe"
    <3> DEFINE r == [j EXCEPT !.pc = "change"]
    <3>1. r \in Job /\ r.op = j.op /\ r.name = j.name /\ r.obj = j.obj /\ r.pc = "change" /\ r.held = j.held
      BY <1>0 DEF Job
    <3>2. job' = [job EXCEPT ![w] = r]
      BY <1>4, <2>3 DEF Answers
    <3> HIDE DEF r
    <3> QED
      BY <1>0, <1>00, <1>01, <2>1, <3>1, <3>2, ThreadGoesOn
  <2> QED
    BY <2>2, <2>3
<1>5. ASSUME Refused(w) \/ Missing(w) PROVE HostInv'
  <2>1. Stored' /\ NotesType' /\ ~At(w, "rest")
    BY <1>0, <1>5, FreesType DEF Refused, Missing, Stored, At, NotesType, notes
  <2>2. job' = [job EXCEPT ![w] = Resting] /\ started' = started /\ ProbeEnds(w)
    BY <1>5 DEF Refused, Missing, Ends
  <2> QED
    BY <2>1, <2>2, ThreadEnds
<1>6. ASSUME Changes(w) PROVE HostInv'
  <2> DEFINE new == Changed(Dict(w), j)
  <2>1. /\ j.pc = "change"
        /\ j.op \in {"edit", "delete", "image", "probe"} => Dict(w)[j.name] # NoHost
        /\ heap' = [heap EXCEPT ![j.obj] = new] /\ file' = file /\ cache' = cache /\ UNCHANGED <<probes, notes>>
    BY <1>6 DEF Changes, At
  <2>2. new \in Hosts
    BY <1>0, <1>01, <2>1, ChangedType
  <2>3. Stored' /\ NotesType'
    BY <1>0, <1>00, <1>01, <2>1, <2>2 DEF Stored, NotesType, notes
  <2>4. job' = [v \in Workers |-> IF v = w THEN [j EXCEPT !.pc = "open"] ELSE Noticed(v, w, new)]
    BY <1>6 DEF Changes
  <2> HIDE DEF new
  <2>5. ASSUME NEW v \in Workers
        PROVE  /\ job'[v] \in Job /\ job'[v].op = job[v].op /\ job'[v].name = job[v].name
               /\ job'[v].obj = job[v].obj /\ job'[v].held = job[v].held
               /\ v = w => job'[v].pc = "open"
               /\ v # w => job'[v].pc = job[v].pc
    <3>1. job[v] \in Job
      BY <1>0
    <3>2. /\ [job[v] EXCEPT !.pc = "open"] \in Job /\ [job[v] EXCEPT !.pc = "open"].op = job[v].op
          /\ [job[v] EXCEPT !.pc = "open"].name = job[v].name /\ [job[v] EXCEPT !.pc = "open"].obj = job[v].obj
          /\ [job[v] EXCEPT !.pc = "open"].held = job[v].held /\ [job[v] EXCEPT !.pc = "open"].pc = "open"
      BY <3>1 DEF Job
    <3>3. Noticed(v, w, new) \in Job /\ Alike(Noticed(v, w, new), job[v])
      BY <3>1, NoticedAlike
    <3>4. CASE v = w
      BY <2>4, <3>2, <3>4
    <3>5. CASE v # w
      BY <2>4, <3>3, <3>5 DEF Alike
    <3> QED
      BY <3>4, <3>5
  <2>6. job' \in [Workers -> Job]
    <3>1. job' = [v \in Workers |-> job'[v]]
      BY <2>4
    <3> QED
      BY <2>5, <3>1
  <2>7. ASSUME NEW v \in Workers
        PROVE  /\ job'[v].pc = "rest" <=> job[v].pc = "rest"
               /\ job'[v].obj = 0 => job'[v].pc \in {"rest", "load"}
               /\ job'[v].op = "detect" /\ job'[v].pc \in {"ask", "change"} => job'[v].held \in Host
    <3>1. CASE v = w
      BY <1>00, <1>01, <2>1, <2>5, <3>1
    <3>2. CASE v # w
      BY <2>5, <3>2 DEF HostInv, NotesType, HostTypeOK, HeldHosts
    <3> QED
      BY <3>1, <3>2
  <2> QED
    BY <2>1, <2>3, <2>5, <2>6, <2>7, ThreadsGoOn
<1>7. ASSUME Opens(w) PROVE HostInv'
  <2> DEFINE r == [j EXCEPT !.pc = "dump"]
  <2>1. r \in Job /\ r.op = j.op /\ r.name = j.name /\ r.obj = j.obj /\ r.pc = "dump" /\ r.held = j.held
    BY <1>0 DEF Job
  <2>2. job' = [job EXCEPT ![w] = r] /\ j.pc = "open" /\ j.obj \in Objs
    BY <1>01, <1>7 DEF Opens, Goes, At
  <2>3. Stored' /\ UNCHANGED probes /\ NotesType'
    BY <1>0, <1>00, <1>7 DEF Opens, Stored, NotesType, notes
  <2> HIDE DEF r
  <2> QED
    BY <1>00, <2>1, <2>2, <2>3, ThreadGoesOn
<1>8. ASSUME Dumps(w) PROVE HostInv'
  <2> DEFINE r == [j EXCEPT !.pc = "drop"]
  <2>1. r \in Job /\ r.op = j.op /\ r.name = j.name /\ r.obj = j.obj /\ r.pc = "drop" /\ r.held = j.held
    BY <1>0 DEF Job
  <2>2. job' = [job EXCEPT ![w] = r] /\ j.pc = "dump" /\ j.obj \in Objs /\ Dict(w) \in Hosts
    BY <1>01, <1>8 DEF Dumps, Goes, At
  <2>3. Stored' /\ UNCHANGED probes /\ NotesType'
    BY <1>0, <1>00, <1>8, <2>2 DEF Dumps, Stored, NotesType, notes
  <2> HIDE DEF r
  <2> QED
    BY <1>00, <2>1, <2>2, <2>3, ThreadGoesOn
<1>9. ASSUME DumpRaises(w) PROVE HostInv'
  <2>1. Stored' /\ NotesType' /\ ~At(w, "rest")
    BY <1>0, <1>9, FreesType DEF DumpRaises, Stored, At, NotesType, notes
  <2>2. job' = [job EXCEPT ![w] = Resting] /\ started' = started /\ ProbeEnds(w)
    BY <1>9 DEF DumpRaises, Ends
  <2> QED
    BY <2>1, <2>2, ThreadEnds
<1>10. ASSUME NEW o \in Objs, LoadReads(w, o) PROVE HostInv'
  <2> DEFINE r == [j EXCEPT !.obj = o, !.pc = "cache"]
  <2>1. r \in Job /\ r.op = j.op /\ r.name = j.name /\ r.obj = o /\ r.pc = "cache" /\ r.held = j.held
    BY <1>0, <1>00 DEF Job
  <2>2. job' = [job EXCEPT ![w] = r] /\ j.pc = "load"
    BY <1>10 DEF LoadReads, At
  <2>3. (IF file = TornFile THEN NoHosts ELSE file) \in Hosts
    BY <1>00, NoHostsType
  <2>4. Stored' /\ UNCHANGED probes /\ NotesType'
    BY <1>0, <1>00, <1>10, <2>3 DEF LoadReads, Stored, NotesType, notes
  <2> HIDE DEF r
  <2> QED
    BY <1>00, <2>1, <2>2, <2>4, ThreadGoesOn
<1>11. ASSUME Drops(w) PROVE HostInv'
  <2>1. Stored' /\ j.pc = "drop" /\ job' = [job EXCEPT ![w] = Resting] /\ NotesType'
    BY <1>0, <1>00, <1>11, FreesType DEF Drops, Stored, At, NotesType, notes
  <2>2. CASE j.op = "probe"
    <3>1. started' = started /\ ProbeEnds(w)
      BY <1>11, <2>2 DEF Drops, Discovers, ProbeEnds
    <3> QED
      BY <2>1, <3>1, ThreadEnds DEF At
  <2>3. CASE j.op # "probe"
    <3> DEFINE ds == Discovers(w)
    <3>1. inflight' = inflight \cup ds /\ started' = started \cup ds /\ ds \cap inflight = {} /\ ds \subseteq Names
      BY <1>0, <1>11, <2>3 DEF Drops, Claimed, Discovers, Job
    <3> HIDE DEF ds
    <3>2. /\ job' \in [Workers -> Job] /\ job'[w] = Resting /\ \A v \in Workers \ {w} : job'[v] = job[v]
          /\ Resting.pc = "rest" /\ Resting.obj = 0
      BY <1>0, <2>1, RestingType
    <3>3. ASSUME NEW v \in Workers, NEW n \in Names, Probes(v, n)'
          PROVE  v # w /\ Probes(v, n) /\ n \in inflight /\ n \notin ds
      <4>1. v # w /\ job'[v] = job[v]
        BY <3>2, <3>3 DEF Probes, At
      <4>2. Probes(v, n) /\ n = job[v].name
        BY <3>3, <4>1 DEF Probes, At
      <4> QED
        BY <3>1, <4>1, <4>2 DEF HostInv, NotesType, HostTypeOK
    <3>4. \A v \in Workers : job'[v].obj = 0 => job'[v].pc \in {"rest", "load"}
      BY <3>2 DEF HostInv, NotesType, HostTypeOK
    <3>5. \A v \in Workers : Probes(v, job[v].name)' => job'[v].name \in inflight'
      <4> SUFFICES ASSUME NEW v \in Workers, Probes(v, job[v].name)' PROVE job'[v].name \in inflight'
        OBVIOUS
      <4>1. job'[v].name \in Names
        BY <3>2 DEF Job
      <4> QED
        BY <3>1, <3>3, <4>1 DEF Probes, At
    <3>6. HostTypeOK'
      BY <2>1, <3>1, <3>2, <3>4, <3>5 DEF HostInv, NotesType, HostTypeOK, Stored, Probes, At
    <3>7. HeldHosts'
      BY <3>2 DEF HostInv, HeldHosts
    <3>8. OneProbePerHost'
      BY <3>1, <3>3 DEF HostInv, OneProbePerHost
    <3> QED
      BY <3>6, <3>7, <3>8 DEF HostInv
  <2> QED
    BY <2>2, <2>3
<1>12. ASSUME RefusedRename(w) PROVE HostInv'
  <2> DEFINE less == [Dict(w) EXCEPT ![j.name] = NoHost]
  <2>1. /\ j.pc = "change" /\ j.op = "edit" /\ file' = file /\ cache' = cache
        /\ answered' = answered /\ inflight' = inflight /\ started' = started
        /\ forgotten' \subseteq forgotten \cup {j.name}
        /\ \A o \in Objs : heap'[o] \in {NoHosts, less, heap[o]}
        /\ heap' = [o \in Objs |-> heap'[o]]
        /\ job' = [v \in Workers |-> IF v = w THEN Resting ELSE Noticed(v, w, less)]
    BY <1>12 DEF RefusedRename, probes, At
  <2>2. less \in Hosts
    BY <1>00, <1>01, <2>1 DEF Hosts
  <2> HIDE DEF less
  <2>3. heap' \in [Objs -> Hosts]
    BY <1>00, <2>1, <2>2, NoHostsType
  <2>4. Stored' /\ NotesType' /\ ~At(w, "rest")
    BY <1>0, <1>00, <2>1, <2>3 DEF Stored, NotesType, At
  <2>5. ASSUME NEW v \in Workers PROVE Noticed(v, w, less) \in Job /\ Alike(Noticed(v, w, less), job[v])
    BY <1>0, NoticedAlike
  <2>6. /\ job' \in [Workers -> Job] /\ job'[w] = Resting
        /\ \A v \in Workers \ {w} : Alike(job'[v], job[v])
    BY <2>1, <2>5, RestingType
  <2>7. ProbeEnds(w)
    BY <2>1 DEF ProbeEnds
  <2> QED
    BY <2>1, <2>4, <2>6, <2>7, ThreadIsOver
<1> QED
  BY <1>1, <1>2, <1>3, <1>4, <1>5, <1>6, <1>7, <1>8, <1>9, <1>10, <1>11, <1>12 DEF Works

LEMMA HostStepInvariant == HostInv /\ [HostNext]_hostVars => HostInv'
<1> SUFFICES ASSUME HostInv, [HostNext]_hostVars PROVE HostInv'
  OBVIOUS
<1>0. Stored /\ NotesType /\ job \in [Workers -> Job] /\ started \subseteq Names
  BY DEF HostInv, NotesType, HostTypeOK, Stored
<1>1. CASE UNCHANGED hostVars
  BY <1>1 DEF hostVars, probes, HostInv, NotesType, notes, HostTypeOK, HeldHosts, OneProbePerHost, Probes, At
<1>2. ASSUME NEW w \in Workers, NEW op \in Ops, NEW n \in Names, NEW new \in Names, NEW c \in Confs,
             Begins(w, op, n, new, c), NotesType', inflight' = inflight, started' \subseteq started,
             op = "probe" => n \in started \ started'
      PROVE  HostInv'
  <2> DEFINE r == [Resting EXCEPT !.pc = "load", !.op = op, !.name = n, !.new = new, !.conf = c]
  <2>1. r \in Job /\ r.pc = "load" /\ r.op = op /\ r.name = n
    BY RestingType DEF Job
  <2>2. job' = [job EXCEPT ![w] = r] /\ At(w, "rest")
    BY <1>2 DEF Begins
  <2>3. Stored'
    BY <1>0, <1>2 DEF Begins, Stored
  <2> HIDE DEF r
  <2> QED
    BY <1>2, <2>1, <2>2, <2>3, ThreadBegins
<1>3. ASSUME NEW w \in Workers, NEW op \in Ops, NEW n \in Names, NEW new \in Names, NEW c \in Confs,
             UserBegins(w, op, n, new, c)
      PROVE  HostInv'
  BY <1>0, <1>2, <1>3 DEF UserBegins, probes, NotesType, notes
<1>4. ASSUME NEW w \in Workers, NEW n \in Names, ProbeBegins(w, n) PROVE HostInv'
  <2>1. "probe" \in Ops /\ Resting.conf \in Confs
    BY RestingType DEF Ops
  <2> QED
    BY <1>0, <1>2, <1>4, <2>1 DEF ProbeBegins, NotesType, notes
<1>5. CASE Expires
  <2>1. Stored'
    BY <1>0, <1>5, FreesType, StoreConstants DEF Expires, Stored
  <2> QED
    BY <1>0, <1>5, <2>1, ThreadsGoOn DEF Expires, notes, HostInv, NotesType, HostTypeOK, HeldHosts
<1>6. CASE Restart
  <2>1. /\ job' \in [Workers -> Job] /\ \A w \in Workers : job'[w].pc = "rest" /\ job'[w].obj = 0
        /\ inflight' = {} /\ started' = {} /\ NotesType'
    BY <1>0, <1>6, RestingType DEF Restart, NotesType
  <2>2. Stored'
    BY <1>0, <1>6, NoHostsType, StoreConstants DEF Restart, Stored
  <2> QED
    BY <2>1, <2>2 DEF HostInv, NotesType, HostTypeOK, HeldHosts, OneProbePerHost, Stored, Probes, At
<1> QED
  BY <1>1, <1>3, <1>4, <1>5, <1>6, WorksInvariant DEF HostNext

LEMMA HostInitInvariant == HostInit => HostInv
BY RestingType, NoHostsType, StoreConstants DEF HostInit, HostInv, NotesType, HostTypeOK, HeldHosts, OneProbePerHost, Probes, At

(* "Avoid duplicate probes" (schedule_host_discovery in app.py): for any       *)
(* number of threads and hosts, whatever the threads do and whichever of them  *)
(* fail, at most one probe of a host is started or at work.                    *)
THEOREM ProbesAreSingle == HostSpec => []OneProbePerHost
<1>1. HostInv => OneProbePerHost
  BY DEF HostInv
<1> QED
  BY <1>1, HostInitInvariant, HostStepInvariant, PTL DEF HostSpec

(* The type of the state; a thread past its load has a dictionary, and a probe *)
(* that is started or at work is in flight.                                    *)
THEOREM HostTypeCorrect == HostSpec => []HostTypeOK
<1>1. HostInv => HostTypeOK
  BY DEF HostInv
<1> QED
  BY <1>1, HostInitInvariant, HostStepInvariant, PTL DEF HostSpec

-----------------------------------------------------------------------------
(* One thread at a time.                                                       *)

(* What a reader of the file gets.                                             *)
Content == IF file = TornFile THEN NoHosts ELSE file

(* The handler has found what it looked for in d.                              *)
Possible(d, j) ==
    /\ j.op \in {"edit", "image", "probe"} => d[j.name] # NoHost
    /\ j.op = "detect" => j.held = d[j.name] /\ j.held # NoHost

(* What a handler is to see of it: all but the hosts that a refused edit has   *)
(* taken out of the cached dictionary.                                         *)
Visible == [n \in Names |-> IF n \in forgotten THEN NoHost ELSE Content[n]]

(* With w as the only thread, the dictionary it was given and the cached one   *)
(* hold what is visible of the file, until it changes the dictionary; what it  *)
(* is about to write then is what its operation makes of that.                 *)
Alone(w) ==
    /\ ~job[w].moved
    /\ At(w, "cache") => cache = 0
    /\ job[w].pc \in {"look", "ask", "change"} => cache \in {0, job[w].obj}
    /\ job[w].pc \in {"cache", "look", "ask", "change"} => Dict(w) = Visible
    /\ job[w].op = "detect" /\ job[w].pc \in {"ask", "change"} =>
          job[w].held = Visible[job[w].name] /\ job[w].held # NoHost
    /\ At(w, "open") => Possible(Visible, job[w]) /\ Dict(w) = Changed(Visible, job[w])
    /\ At(w, "dump") => file = TornFile
    /\ job[w].pc \in {"dump", "drop"} => forgotten = {}
    /\ job[w].pc \in {"rest", "load", "look", "ask", "change"} /\ cache # 0 => heap[cache] = Visible

LEMMA SavedAlone ==
    ASSUME NEW w, Workers = {w}
    PROVE  /\ Saved = IF At(w, "dump") THEN Dict(w) ELSE Content
           /\ Saved' = IF At(w, "dump")' THEN Dict(w)' ELSE Content'
<1>1. At(w, "dump") => (CHOOSE v \in Workers : At(v, "dump")) = w
  OBVIOUS
<1>2. At(w, "dump")' => (CHOOSE v \in Workers : At(v, "dump")') = w
  OBVIOUS
<1>3. Saved = IF At(w, "dump") THEN Dict(w) ELSE Content
  BY <1>1 DEF Saved, Content
<1>4. Saved' = IF At(w, "dump")' THEN Dict(w)' ELSE Content'
  BY <1>2 DEF Saved, Content
<1> QED
  BY <1>3, <1>4

(* What a thread writes is a step of the abstract map.                         *)
LEMMA ChangedIsMapStep ==
    ASSUME NEW j \in Job, Map!Shown \in Hosts, Possible(Map!Shown, j), Saved' = Changed(Map!Shown, j), forgotten' = {}
    PROVE  Map!Next
<1> DEFINE d == Map!Shown
<1>0. j.name \in Names /\ j.new \in Names /\ j.conf \in Confs /\ j.op \in Ops
  BY DEF Job
<1>01. Saved' = Changed(d, j) /\ d \in Hosts /\ Possible(d, j)
  OBVIOUS
<1> HIDE DEF d
<1>1. CASE j.op \in {"add", "register"}
  <2>1. Saved' = [d EXCEPT ![j.name] = Fresh(j.conf)]
    BY <1>01, <1>1 DEF Changed
  <2> QED
    BY <1>0, <2>1 DEF Fresh, Map!Next, Map!Put, Map!Becomes, Map!Fresh, d
<1>2. CASE j.op = "edit"
  <2>1. d[j.name] # NoHost
    BY <1>01, <1>2 DEF Possible
  <2>2. Saved' = [[d EXCEPT ![j.name] = NoHost] EXCEPT ![j.new] = [d[j.name] EXCEPT !.conf = j.conf]]
    BY <1>01, <1>2 DEF Changed, Edited
  <2>3. Saved' = [n \in Names |-> CASE n = j.new -> [d[j.name] EXCEPT !.conf = j.conf]
                                    [] n = j.name /\ n # j.new -> NoHost
                                    [] OTHER -> d[n]]
    BY <1>0, <1>01, <2>2 DEF Hosts
  <2> QED
    BY <1>0, <2>1, <2>3 DEF Map!Next, Map!Edit, Map!Becomes, d
<1>3. CASE j.op \in {"detect", "image", "probe"}
  <2>1. d[j.name] # NoHost /\ Saved' = [d EXCEPT ![j.name] = [d[j.name] EXCEPT !.found = TRUE]]
    BY <1>01, <1>3 DEF Possible, Changed
  <2> QED
    BY <1>0, <2>1 DEF Map!Next, Map!Find, Map!Becomes, d
<1>4. CASE j.op \in {"delete", "purge"}
  <2>1. Saved' = [d EXCEPT ![j.name] = NoHost]
    BY <1>01, <1>4 DEF Changed
  <2> QED
    BY <1>0, <2>1 DEF Map!Next, Map!Remove, Map!Becomes, d
<1> QED
  BY <1>0, <1>1, <1>2, <1>3, <1>4 DEF Ops

LEMMA SameVisible ==
    ASSUME file' = file, forgotten' = forgotten
    PROVE  Content' = Content /\ Visible' = Visible
BY DEF Content, Visible

LEMMA AloneWorks ==
    ASSUME NEW w, Workers = {w}, HostInv, Alone(w), Works(w)
    PROVE  Alone(w)' /\ (Map!Next \/ UNCHANGED <<Saved, forgotten>>)
<1> DEFINE j == job[w]
<1>0. /\ w \in Workers /\ job \in [Workers -> Job] /\ j \in Job /\ heap \in [Objs -> Hosts]
      /\ cache \in 0 .. MaxObjs /\ file \in Hosts \cup {TornFile} /\ j.obj \in 0 .. MaxObjs /\ j.name \in Names
  BY DEF HostInv, HostTypeOK, Job
<1>01. /\ j.pc \notin {"rest", "load"} => j.obj \in Objs /\ Dict(w) \in Hosts
       /\ cache # 0 => cache \in Objs
  BY <1>0, StoreConstants DEF HostInv, HostTypeOK, Objs, Dict
<1>02. AfterLoad(w) \in {"look", "change"} /\ (j.op = "detect" => AfterLoad(w) = "look")
  BY DEF AfterLoad
<1>03. Content \in Hosts /\ Visible \in Hosts
  BY <1>0, NoHostsType DEF Content, Visible, Hosts
<1>04. /\ Saved = IF At(w, "dump") THEN Dict(w) ELSE Content
       /\ Saved' = IF At(w, "dump")' THEN Dict(w)' ELSE Content'
  BY SavedAlone
<1>05. Resting.pc = "rest" /\ Resting.obj = 0 /\ ~Resting.moved
  BY DEF Resting
<1>1. ASSUME LoadHits(w) PROVE Alone(w)' /\ UNCHANGED <<Saved, forgotten>>
  <2>1. /\ job'[w] = [j EXCEPT !.obj = cache, !.pc = AfterLoad(w)] /\ j.pc = "load" /\ cache # 0
        /\ file' = file /\ heap' = heap /\ cache' = cache /\ forgotten' = forgotten
    BY <1>0, <1>1 DEF LoadHits, At, notes
  <2>2. /\ job'[w].obj = cache /\ job'[w].pc = AfterLoad(w) /\ job'[w].op = j.op /\ job'[w].name = j.name
        /\ job'[w].held = j.held /\ job'[w].moved = j.moved
    BY <1>0, <2>1 DEF Job
  <2>3. heap[cache] = Visible /\ Visible' = Visible /\ Content' = Content
    BY <2>1, SameVisible DEF Alone
  <2> QED
    BY <1>02, <1>04, <2>1, <2>2, <2>3 DEF Alone, At, Dict
<1>2. ASSUME LoadCaches(w) PROVE Alone(w)' /\ UNCHANGED <<Saved, forgotten>>
  <2>1. /\ job'[w] = [j EXCEPT !.pc = AfterLoad(w)] /\ j.pc = "cache" /\ cache' = j.obj
        /\ file' = file /\ heap' = heap /\ forgotten' = forgotten
    BY <1>0, <1>2 DEF LoadCaches, Goes, At, notes
  <2>2. /\ job'[w].obj = j.obj /\ job'[w].pc = AfterLoad(w) /\ job'[w].op = j.op /\ job'[w].name = j.name
        /\ job'[w].held = j.held /\ job'[w].moved = j.moved
    BY <1>0, <2>1 DEF Job
  <2>3. heap[j.obj] = Visible /\ Visible' = Visible /\ Content' = Content
    BY <2>1, SameVisible DEF Alone, Dict
  <2> QED
    BY <1>02, <1>04, <2>1, <2>2, <2>3 DEF Alone, At, Dict
<1>3. ASSUME Looks(w) PROVE Alone(w)' /\ UNCHANGED <<Saved, forgotten>>
  <2> DEFINE h == Dict(w)[j.name]
  <2>1. /\ job'[w] = [j EXCEPT !.held = h, !.pc = "ask"] /\ j.pc = "look" /\ h # NoHost
        /\ file' = file /\ heap' = heap /\ cache' = cache /\ forgotten' = forgotten
    BY <1>0, <1>3 DEF Looks, At, notes
  <2>2. Dict(w) = Visible /\ h = Visible[j.name] /\ Visible' = Visible /\ Content' = Content
    BY <2>1, SameVisible DEF Alone
  <2> HIDE DEF h
  <2>3. /\ job'[w].obj = j.obj /\ job'[w].pc = "ask" /\ job'[w].op = j.op /\ job'[w].name = j.name
        /\ job'[w].held = h /\ job'[w].moved = j.moved
    BY <1>0, <2>1 DEF Job
  <2> QED
    BY <1>04, <2>1, <2>2, <2>3 DEF Alone, At, Dict
<1>4. ASSUME Answers(w) PROVE Alone(w)' /\ UNCHANGED <<Saved, forgotten>>
  <2>1. j.pc = "ask" /\ file' = file /\ cache' = cache /\ forgotten' = forgotten /\ Frees
    BY <1>4 DEF Answers, At, notes
  <2>2. Dict(w) = Visible /\ Visible' = Visible /\ Content' = Content
    BY <2>1, SameVisible DEF Alone
  <2>3. cache # 0 => heap'[cache] = heap[cache]
    BY <1>01, <2>1 DEF Frees
  <2>4. CASE j.op = "probe"
    <3>1. job'[w] = [j EXCEPT !.again = TRUE, !.obj = 0, !.held = NoHost, !.pc = "load"]
      BY <1>0, <1>4, <2>4 DEF Answers
    <3>2. job'[w].pc = "load" /\ job'[w].moved = j.moved
      BY <1>0, <3>1 DEF Job
    <3> QED
      BY <1>04, <2>1, <2>2, <2>3, <3>2 DEF Alone, At, Dict
  <2>5. CASE j.op # "probe"
    <3>1. job'[w] = [j EXCEPT !.pc = "change"]
      BY <1>0, <1>4, <2>5 DEF Answers
    <3>2. /\ job'[w].obj = j.obj /\ job'[w].pc = "change" /\ job'[w].op = j.op /\ job'[w].name = j.name
          /\ job'[w].held = j.held /\ job'[w].moved = j.moved
      BY <1>0, <3>1 DEF Job
    <3>3. heap'[j.obj] = heap[j.obj]
      BY <1>0, <1>01, <2>1, <3>2 DEF Frees
    <3> QED
      BY <1>04, <2>1, <2>2, <2>3, <3>2, <3>3 DEF Alone, At, Dict
  <2> QED
    BY <2>4, <2>5
<1>5. ASSUME Refused(w) \/ Missing(w) PROVE Alone(w)' /\ UNCHANGED <<Saved, forgotten>>
  <2>1. /\ j.pc \in {"look", "change"} /\ file' = file /\ cache' = cache /\ forgotten' = forgotten /\ Frees
        /\ job'[w] = Resting
    BY <1>0, <1>5 DEF Refused, Missing, Ends, At, notes
  <2>2. cache # 0 => heap'[cache] = heap[cache]
    BY <1>01, <2>1 DEF Frees
  <2>3. Visible' = Visible /\ Content' = Content
    BY <2>1, SameVisible
  <2> QED
    BY <1>04, <1>05, <2>1, <2>2, <2>3 DEF Alone, At, Dict
<1>6. ASSUME Changes(w) PROVE Alone(w)' /\ UNCHANGED <<Saved, forgotten>>
  <2> DEFINE new == Changed(Dict(w), j)
  <2>1. /\ j.pc = "change" /\ file' = file /\ cache' = cache
        /\ j.op \in {"edit", "delete", "image", "probe"} => Dict(w)[j.name] # NoHost
        /\ heap' = [heap EXCEPT ![j.obj] = new] /\ job'[w] = [j EXCEPT !.pc = "open"]
        /\ forgotten' = forgotten
    BY <1>0, <1>6 DEF Changes, At, notes
  <2>2. /\ Dict(w) = Visible /\ Visible' = Visible /\ Content' = Content
        /\ Possible(Visible, j) /\ new = Changed(Visible, j)
    BY <2>1, SameVisible DEF Alone, Possible
  <2>3. /\ job'[w].obj = j.obj /\ job'[w].pc = "open" /\ job'[w].op = j.op /\ job'[w].name = j.name
        /\ job'[w].new = j.new /\ job'[w].conf = j.conf /\ job'[w].held = j.held /\ job'[w].moved = j.moved
    BY <1>0, <2>1 DEF Job
  <2>4. Possible(Visible', job'[w]) /\ new = Changed(Visible', job'[w])
    BY <2>2, <2>3 DEF Possible, Changed
  <2> HIDE DEF new
  <2>5. heap'[j.obj] = new
    BY <1>0, <1>01, <2>1
  <2> QED
    BY <1>04, <2>1, <2>2, <2>3, <2>4, <2>5 DEF Alone, At, Dict
<1>7. ASSUME Opens(w) PROVE Alone(w)' /\ Map!Next
  <2>1. /\ j.pc = "open" /\ file' = TornFile /\ cache' = cache /\ heap' = heap /\ forgotten' = {}
        /\ job'[w] = [j EXCEPT !.pc = "dump"]
    BY <1>0, <1>7 DEF Opens, Goes, At
  <2>2. job'[w].obj = j.obj /\ job'[w].pc = "dump" /\ job'[w].moved = j.moved
    BY <1>0, <2>1 DEF Job
  <2>3. Possible(Visible, j) /\ Dict(w) = Changed(Visible, j)
    BY <2>1 DEF Alone, At
  <2>4. Saved = Content /\ Saved' = Dict(w)
    BY <1>04, <2>1, <2>2 DEF At, Dict
  <2>5. Map!Next
    BY <1>0, <1>03, <2>1, <2>3, <2>4, ChangedIsMapStep DEF Map!Shown, Visible
  <2> QED
    BY <2>1, <2>2, <2>5 DEF Alone, At
<1>8. ASSUME Dumps(w) PROVE Alone(w)' /\ UNCHANGED <<Saved, forgotten>>
  <2>1. /\ j.pc = "dump" /\ cache' = cache /\ heap' = heap /\ file = TornFile
        /\ job'[w] = [j EXCEPT !.pc = "drop"] /\ forgotten' = forgotten /\ forgotten = {}
    BY <1>0, <1>8 DEF Dumps, Goes, At, Alone, notes
  <2>2. file' = Dict(w)
    BY <1>8, <2>1 DEF Dumps
  <2>3. job'[w].pc = "drop" /\ job'[w].moved = j.moved
    BY <1>0, <2>1 DEF Job
  <2>4. Content' = Dict(w)
    BY <1>01, <2>1, <2>2, TornIsNoList DEF Content
  <2> QED
    BY <1>04, <2>1, <2>3, <2>4 DEF Alone, At
<1>9. ASSUME DumpRaises(w) PROVE FALSE
  BY <1>9 DEF DumpRaises, Alone
<1>10. ASSUME NEW o \in Objs, LoadReads(w, o) PROVE Alone(w)' /\ Map!Next
  <2>1. /\ j.pc = "load" /\ cache = 0 /\ cache' = cache /\ file' = file /\ heap' = [heap EXCEPT ![o] = Content]
        /\ job'[w] = [j EXCEPT !.obj = o, !.pc = "cache"] /\ forgotten' = {}
    BY <1>0, <1>10 DEF LoadReads, At, Content
  <2>2. job'[w].obj = o /\ job'[w].pc = "cache" /\ job'[w].moved = j.moved
    BY <1>0, <2>1 DEF Job
  <2>3. heap'[o] = Content /\ Content' = Content
    BY <1>0, <2>1 DEF Content
  <2>4. Visible' = Content
    BY <1>03, <2>1, <2>3 DEF Visible, Hosts
  <2>5. Alone(w)'
    BY <2>1, <2>2, <2>3, <2>4 DEF Alone, At, Dict
  <2>6. Saved' = Saved
    BY <1>04, <2>1, <2>2, <2>3 DEF At
  <2> QED
    BY <2>1, <2>5, <2>6 DEF Map!Next, Map!Recover
<1>11. ASSUME Drops(w) PROVE Alone(w)' /\ UNCHANGED <<Saved, forgotten>>
  <2>1. j.pc = "drop" /\ cache' = 0 /\ file' = file /\ forgotten' = forgotten /\ job'[w] = Resting
    BY <1>0, <1>11 DEF Drops, At
  <2>2. Content' = Content
    BY <2>1, SameVisible
  <2> QED
    BY <1>04, <1>05, <2>1, <2>2 DEF Alone, At
<1>12. ASSUME RefusedRename(w) PROVE Alone(w)' /\ (Map!Next \/ UNCHANGED <<Saved, forgotten>>)
  <2> DEFINE n == j.name
             less == [Dict(w) EXCEPT ![n] = NoHost]
  <2>1. /\ j.pc = "change" /\ Dict(w)[n] # NoHost /\ file' = file /\ cache' = cache /\ job'[w] = Resting
        /\ forgotten' = IF cache = j.obj THEN forgotten \cup {n} ELSE forgotten
        /\ cache # 0 => heap'[cache] = IF cache = j.obj THEN less ELSE heap[cache]
    BY <1>0, <1>01, <1>12 DEF RefusedRename, At
  <2>2. Dict(w) = Visible /\ cache \in {0, j.obj} /\ Content' = Content
    BY <2>1 DEF Alone, Content
  <2>3. Saved = Content /\ Saved' = Content
    BY <1>04, <1>05, <2>1, <2>2 DEF At
  <2>4. CASE cache = j.obj
    <3>1. Visible' = [x \in Names |-> IF x \in forgotten \cup {n} THEN NoHost ELSE Content[x]]
      BY <2>1, <2>2, <2>4 DEF Visible
    <3>2. less = Visible'
      BY <1>0, <2>2, <3>1 DEF Visible
    <3>3. Alone(w)'
      BY <1>05, <2>1, <2>4, <3>2 DEF Alone, At
    <3>4. Map!Shown = Visible
      BY <2>3 DEF Map!Shown, Visible
    <3>5. Map!Hide(n)
      BY <2>1, <2>2, <2>3, <2>4, <3>4 DEF Map!Hide
    <3> QED
      BY <1>0, <3>3, <3>5 DEF Map!Next
  <2>5. CASE cache # j.obj
    BY <1>05, <2>1, <2>2, <2>3, <2>5 DEF Alone, At
  <2> QED
    BY <2>4, <2>5
<1> QED
  BY <1>1, <1>2, <1>3, <1>4, <1>5, <1>6, <1>7, <1>8, <1>9, <1>10, <1>11, <1>12 DEF Works

LEMMA AloneStep ==
    ASSUME NEW w, Workers = {w}, HostInv, Alone(w), [HostNext]_hostVars
    PROVE  Alone(w)' /\ (Map!Next \/ UNCHANGED <<Saved, forgotten>>)
<1>0. /\ w \in Workers /\ job \in [Workers -> Job] /\ job[w] \in Job
      /\ cache \in 0 .. MaxObjs /\ job[w].obj \in 0 .. MaxObjs
  BY DEF HostInv, HostTypeOK, Job
<1>01. /\ job[w].pc \notin {"rest", "load"} => job[w].obj \in Objs
       /\ cache # 0 => cache \in Objs
  BY <1>0, StoreConstants DEF HostInv, HostTypeOK, Objs
<1>02. /\ Saved = IF At(w, "dump") THEN Dict(w) ELSE Content
       /\ Saved' = IF At(w, "dump")' THEN Dict(w)' ELSE Content'
  BY SavedAlone
<1>03. Resting.pc = "rest" /\ Resting.obj = 0 /\ ~Resting.moved /\ Resting \in Job
  BY RestingType DEF Resting
<1>1. CASE UNCHANGED hostVars
  <2>1. Content' = Content /\ Visible' = Visible
    BY <1>1, SameVisible DEF hostVars, notes
  <2> QED
    BY <1>02, <1>1, <2>1 DEF hostVars, notes, Alone, At, Dict
<1>2. ASSUME NEW op \in Ops, NEW n \in Names, NEW new \in Names, NEW c \in Confs, Begins(w, op, n, new, c),
             forgotten' = forgotten
      PROVE  Alone(w)' /\ UNCHANGED <<Saved, forgotten>>
  <2>1. /\ job[w].pc = "rest" /\ file' = file /\ heap' = heap /\ cache' = cache
        /\ job'[w] = [Resting EXCEPT !.pc = "load", !.op = op, !.name = n, !.new = new, !.conf = c]
    BY <1>0, <1>2 DEF Begins, At
  <2>2. job'[w].pc = "load" /\ ~job'[w].moved
    BY <1>03, <2>1 DEF Job
  <2>3. Content' = Content /\ Visible' = Visible
    BY <1>2, <2>1, SameVisible
  <2> QED
    BY <1>02, <1>2, <2>1, <2>2, <2>3 DEF Alone, At
<1>3. ASSUME NEW op \in Ops, NEW n \in Names, NEW new \in Names, NEW c \in Confs, UserBegins(w, op, n, new, c)
      PROVE  Alone(w)' /\ UNCHANGED <<Saved, forgotten>>
  BY <1>2, <1>3 DEF UserBegins
<1>4. ASSUME NEW n \in Names, ProbeBegins(w, n) PROVE Alone(w)' /\ UNCHANGED <<Saved, forgotten>>
  <2>1. "probe" \in Ops /\ Resting.conf \in Confs
    BY RestingType DEF Ops
  <2> QED
    BY <1>2, <1>4, <2>1 DEF ProbeBegins, notes
<1>5. CASE Expires
  <2>1. cache' = 0 /\ file' = file /\ job' = job /\ forgotten' = forgotten /\ Frees
    BY <1>5 DEF Expires, notes
  <2>2. Content' = Content /\ Visible' = Visible
    BY <2>1, SameVisible
  <2>3. job[w].pc \notin {"rest", "load"} => heap'[job[w].obj] = heap[job[w].obj]
    BY <1>0, <1>01, <2>1 DEF Frees
  <2> QED
    BY <1>02, <2>1, <2>2, <2>3 DEF Alone, At, Dict
<1>6. CASE Restart
  <2>1. cache' = 0 /\ file' = file /\ job'[w] = Resting /\ forgotten' = {}
    BY <1>0, <1>6 DEF Restart
  <2>2. Content' = Content
    BY <2>1 DEF Content
  <2>3. Alone(w)'
    BY <1>03, <2>1 DEF Alone, At
  <2>4. Saved' = Content
    BY <1>02, <1>03, <2>1, <2>2 DEF At
  <2>5. CASE At(w, "dump")
    <3>1. Content = NoHosts
      BY <2>5 DEF Alone, Content
    <3> QED
      BY <2>1, <2>3, <2>4, <3>1 DEF Map!Next, Map!Lose, Map!Becomes, Map!NoHosts, NoHosts
  <2>6. CASE ~At(w, "dump")
    BY <1>02, <2>1, <2>3, <2>4, <2>6 DEF Map!Next, Map!Recover
  <2> QED
    BY <2>5, <2>6
<1> QED
  BY <1>0, <1>1, <1>3, <1>4, <1>5, <1>6, AloneWorks DEF HostNext

LEMMA AloneInit ==
    ASSUME NEW w, Workers = {w}, HostInit
    PROVE  Alone(w) /\ Map!Init
<1>1. job[w] = Resting /\ cache = 0 /\ file = NoHosts /\ forgotten = {}
  BY DEF HostInit
<1>2. Resting.pc = "rest" /\ ~Resting.moved
  BY DEF Resting
<1>3. Alone(w)
  BY <1>1, <1>2 DEF Alone, At
<1>4. Saved = NoHosts
  BY <1>1, <1>2, SavedAlone DEF At, Content
<1> QED
  BY <1>1, <1>3, <1>4 DEF Map!Init, Map!NoHosts, NoHosts

(* As long as threads do not overlap, the host list is the abstract map, for   *)
(* any hosts and with the cache at any age: every operation changes its own    *)
(* host and no other.  Hosts are lost in two ways: one whose edit failed, at a *)
(* save before the file is read again, and all by a stop in the middle of      *)
(* save_hosts().                                                               *)
THEOREM StoreIsTheMap == ASSUME NEW w, Workers = {w} PROVE HostSpec => ImplementsMap
<1>1. HostInit => HostInv /\ Alone(w) /\ Map!Init
  BY AloneInit, HostInitInvariant
<1>2. HostInv /\ Alone(w) /\ [HostNext]_hostVars => HostInv' /\ Alone(w)' /\ [Map!Next]_<<Saved, forgotten>>
  BY AloneStep, HostStepInvariant
<1> QED
  BY <1>1, <1>2, PTL DEF HostSpec, ImplementsMap, Map!Spec

(* As long as threads do not overlap, the cached list of hosts agrees with     *)
(* hosts.json between requests, whatever its age, but for the hosts that an    *)
(* edit with a refused port took out of it: no other handler of app.py leaves  *)
(* a change of the shared dictionary behind that it did not save.              *)
THEOREM CacheIsTheFile == ASSUME NEW w, Workers = {w} PROVE HostSpec => []CacheMatchesFile
<1>1. HostInit => HostInv /\ Alone(w)
  BY AloneInit, HostInitInvariant
<1>2. HostInv /\ Alone(w) /\ [HostNext]_hostVars => HostInv' /\ Alone(w)'
  BY AloneStep, HostStepInvariant
<1>3. Alone(w) => CacheMatchesFile
  BY SavedAlone DEF Alone, CacheMatchesFile, Visible, Map!Shown, At
<1> QED
  BY <1>1, <1>2, <1>3, PTL DEF HostSpec

-----------------------------------------------------------------------------
(* Scheduled shutdown.  That a schedule fires once per minute rests on _fired *)
(* being set before the command is issued (SentIsMarked), never running ahead *)
(* of the clock (MarksNotAhead), and lagging behind the minute of the pass    *)
(* for every schedule the pass has still to fire (ListUnmarked), which only   *)
(* the polling thread itself can change.                                      *)

(* _fired and the pass belong to the present or to the past. *)
MarksNotAhead == /\ \A id \in Ids : fired[id] <= Minute(now) + 1
                 /\ poller.minute <= Minute(now)

(* What the pass has to fire was last fired in an earlier minute. *)
ListUnmarked == \A id \in poller.list : fired[id] <= poller.minute

(* A schedule that was fired in a minute is marked for it or for a later one. *)
SentIsMarked == \A id \in Ids, m \in Minutes : sent[id][m] > 0 => fired[id] > m

IInv == TypeOK /\ MarksNotAhead /\ ListUnmarked /\ SentIsMarked /\ OncePerMinute

PollerType == [pc : {"sleep", "pass", "exec"}, wake : 0 .. MaxTime + 1, list : SUBSET Ids,
               minute : Minutes, cur : Ids \cup {NoRow}]
-----------------------------------------------------------------------------
(* Arithmetic of half minutes. *)
LEMMA MinuteOf ==
    ASSUME NEW t \in 0 .. MaxTime
    PROVE  Minute(t) \in Minutes /\ Minute(t) \in Nat
  BY ClockConstants DEF Minute, Minutes

LEMMA MinuteGrows ==
    ASSUME NEW t \in Nat PROVE Minute(t) <= Minute(t + 1) /\ Minute(t) \in Nat /\ Minute(t + 1) \in Nat
  BY DEF Minute

LEMMA WaitsType == \A id \in Ids : Waits(id) \subseteq Nat
BY ClockConstants DEF Waits

LEMMA Initially == Init => IInv
<1> SUFFICES ASSUME Init PROVE IInv
  OBVIOUS
<1>1. 0 \in Minutes /\ Minute(0) = 0
  BY ClockConstants DEF Minutes, Minute
<1>2. TypeOK
  <2>1. poller \in PollerType /\ poller.list = {} /\ poller.pc = "sleep"
    BY <1>1, ClockConstants DEF Init, PollerType, Asleep
  <2>2. sent \in [Ids -> [Minutes -> 0 .. 2]]
    BY DEF Init, NothingSent
  <2>3. now \in 0 .. MaxTime /\ edits \in 0 .. MaxEdits /\ since \in [Ids -> 0 .. MaxTime]
        /\ fired \in [Ids -> 0 .. MaxTime \div 2 + 1]
    BY ClockConstants DEF Init
  <2>4. up \in BOOLEAN /\ failed \in BOOLEAN /\ outlasted \subseteq Minutes /\ rows \in [Ids -> Row \cup {NoRow}]
        /\ log \subseteq LogEntry /\ manual \in Ids \cup {NoRow}
    BY DEF Init
  <2> QED
    BY <2>1, <2>2, <2>3, <2>4 DEF TypeOK, PollerType
<1>3. MarksNotAhead /\ ListUnmarked /\ SentIsMarked /\ OncePerMinute
  BY <1>1 DEF Init, MarksNotAhead, ListUnmarked, SentIsMarked, OncePerMinute, NothingSent, Asleep
<1> QED
  BY <1>2, <1>3 DEF IInv

(* The pages and run_now touch the table and the log only. *)
LEMMA PagesKeep ==
    ASSUME IInv, NEW id \in Ids,
           \/ \E row \in Row : SaveSchedule(id, row)
           \/ ToggleSchedule(id) \/ DeleteSchedule(id) \/ RunNow(id)
           \/ \E ok \in BOOLEAN : RunNowLogs(ok)
    PROVE  IInv'
<1>1. UNCHANGED <<now, up, fired, poller, sent, failed, outlasted>>
  BY DEF SaveSchedule, ToggleSchedule, DeleteSchedule, RunNow, RunNowLogs, history
<1>2. TypeOK'
  <2>1. rows' \in [Ids -> Row \cup {NoRow}]
    <3>1. CASE ToggleSchedule(id)
      <4>1. rows[id] \in Row
        BY <3>1 DEF IInv, TypeOK, ToggleSchedule
      <4>2. [rows[id] EXCEPT !.enabled = ~@] \in Row
        BY <4>1 DEF Row
      <4> QED
        BY <3>1, <4>2 DEF IInv, TypeOK, ToggleSchedule, Change
    <3> QED
      BY <3>1 DEF IInv, TypeOK, SaveSchedule, DeleteSchedule, RunNow, RunNowLogs, Change, table, history
  <2>2. edits' \in 0 .. MaxEdits /\ since' \in [Ids -> 0 .. MaxTime] /\ manual' \in Ids \cup {NoRow}
    BY ClockConstants
    DEF IInv, TypeOK, SaveSchedule, ToggleSchedule, DeleteSchedule, RunNow, RunNowLogs, Change, table, history
  <2>3. log' \subseteq LogEntry
    BY MinuteOf
    DEF IInv, TypeOK, SaveSchedule, ToggleSchedule, DeleteSchedule, RunNow, RunNowLogs, Change, LogRow, LogEntry
  <2> QED
    BY <1>1, <2>1, <2>2, <2>3 DEF IInv, TypeOK, FiredIn
<1> QED
  BY <1>1, <1>2 DEF IInv, MarksNotAhead, ListUnmarked, SentIsMarked, OncePerMinute

LEMMA BeginsKeeps == ASSUME IInv, PassBegins PROVE IInv'
<1> DEFINE list == {id \in Ids : Due(rows[id], Minute(now)) /\ ~FiredIn(id, Minute(now))}
<1>1. Minute(now) \in Minutes /\ Minute(now) \in Nat
  BY MinuteOf DEF IInv, TypeOK
<1>2. poller' = [pc |-> "pass", wake |-> now, minute |-> Minute(now), cur |-> NoRow, list |-> list]
  BY DEF PassBegins
<1>3. \A id \in list : fired[id] <= Minute(now) /\ fired[id] # Minute(now) + 1
  BY <1>1 DEF IInv, TypeOK, MarksNotAhead, FiredIn, Minutes
<1>4. TypeOK'
  <2>1. poller' \in PollerType
    BY <1>1, <1>2, ClockConstants DEF PollerType, IInv, TypeOK
  <2> QED
    BY <1>2, <1>3, <2>1 DEF PassBegins, IInv, TypeOK, PollerType, FiredIn, table, history
<1> QED
  BY <1>1, <1>2, <1>3, <1>4
  DEF PassBegins, IInv, MarksNotAhead, ListUnmarked, SentIsMarked, OncePerMinute, history

LEMMA FireKeeps == ASSUME IInv, NEW id \in Ids, Fire(id) PROVE IInv'
<1> DEFINE min == poller.minute
<1>1. min \in Minutes /\ min \in Nat /\ id \in poller.list /\ poller \in PollerType
  BY DEF Fire, IInv, TypeOK, PollerType, Minutes
<1>2. PICK wait \in Nat :
        /\ now + wait <= MaxTime
        /\ poller' = [poller EXCEPT !.pc = "exec", !.wake = now + wait, !.cur = id, !.list = @ \ {id}]
  BY WaitsType DEF Fire
<1>3. poller' \in PollerType /\ poller'.list = poller.list \ {id} /\ poller'.minute = min
      /\ poller'.cur = id
  <2>1. now + wait \in 0 .. MaxTime + 1
    BY <1>2, ClockConstants DEF IInv, TypeOK
  <2> QED
    BY <1>1, <1>2, <2>1 DEF PollerType
<1>4. fired' = [fired EXCEPT ![id] = min + 1] /\ fired' \in [Ids -> 0 .. MaxTime \div 2 + 1]
  <2>1. fired' = [fired EXCEPT ![id] = min + 1]
    BY DEF Fire
  <2>2. min + 1 \in 0 .. MaxTime \div 2 + 1
    BY <1>1, ClockConstants DEF Minutes
  <2>3. fired \in [Ids -> 0 .. MaxTime \div 2 + 1]
    BY DEF IInv, TypeOK
  <2> HIDE DEF min
  <2> QED
    BY <2>1, <2>2, <2>3
<1>5. sent[id][min] = 0
  <2>1. fired[id] <= min
    BY <1>1 DEF IInv, ListUnmarked
  <2>2. sent[id][min] \in Nat /\ fired[id] \in Nat
    BY <1>1 DEF IInv, TypeOK
  <2> QED
    BY <1>1, <2>1, <2>2 DEF IInv, SentIsMarked
<1>6. \A i \in Ids, m \in Minutes :
        sent'[i][m] = IF i = id /\ m = min THEN 1 ELSE sent[i][m]
  BY <1>1, <1>5 DEF Fire, IInv, TypeOK
<1>7. sent' \in [Ids -> [Minutes -> 0 .. 2]]
  <2>1. [sent[id] EXCEPT ![min] = sent[id][min] + 1] \in [Minutes -> 0 .. 2]
    BY <1>1, <1>5 DEF IInv, TypeOK
  <2>2. sent' = [sent EXCEPT ![id] = [sent[id] EXCEPT ![min] = sent[id][min] + 1]]
    BY <1>1 DEF Fire, IInv, TypeOK
  <2> QED
    BY <2>1, <2>2 DEF IInv, TypeOK
<1>8. ListUnmarked'
  BY <1>3, <1>4, <1>1 DEF IInv, TypeOK, ListUnmarked
<1>9. TypeOK'
  BY <1>1, <1>3, <1>4, <1>7, <1>8 DEF Fire, IInv, TypeOK, PollerType, FiredIn, ListUnmarked, table, history, Minutes
<1>10. MarksNotAhead'
  <2>1. Minute(now) \in Nat /\ min <= Minute(now) /\ now' = now
    BY MinuteOf DEF Fire, IInv, TypeOK, MarksNotAhead
  <2>2. \A i \in Ids : fired'[i] <= Minute(now) + 1
    BY <1>1, <1>4, <2>1 DEF IInv, TypeOK, MarksNotAhead
  <2> QED
    BY <1>3, <2>1, <2>2 DEF MarksNotAhead
<1>11. SentIsMarked'
  <2> SUFFICES ASSUME NEW i \in Ids, NEW m \in Minutes, sent'[i][m] > 0 PROVE fired'[i] > m
    BY DEF SentIsMarked
  <2>1. m \in Nat /\ fired[i] \in Nat /\ sent[i][m] \in Nat
    <3>1. sent \in [Ids -> [Minutes -> 0 .. 2]] /\ fired \in [Ids -> 0 .. MaxTime \div 2 + 1]
      BY DEF IInv, TypeOK
    <3> QED
      BY <3>1, ClockConstants DEF Minutes
  <2>2. CASE i = id /\ m = min
    BY <2>2, <2>1, <1>1, <1>4 DEF IInv, TypeOK
  <2>3. CASE ~(i = id /\ m = min)
    <3>1. fired[i] > m
      BY <2>3, <2>1, <1>6 DEF IInv, SentIsMarked
    <3>2. fired[i] <= fired'[i]
      BY <1>1, <1>4, <2>1 DEF IInv, TypeOK, ListUnmarked
    <3> QED
      BY <3>1, <3>2, <2>1, <1>4
  <2> QED
    BY <2>2, <2>3
<1>12. OncePerMinute'
  BY <1>6 DEF IInv, OncePerMinute
<1> QED
  BY <1>8, <1>9, <1>10, <1>11, <1>12 DEF IInv

LEMMA LogsKeeps == ASSUME IInv, NEW ok \in BOOLEAN, Logs(ok) PROVE IInv'
<1>1. poller \in PollerType
  BY DEF IInv, TypeOK, PollerType
<1>2. poller' \in PollerType /\ poller'.list = poller.list /\ poller'.minute = poller.minute
      /\ poller'.pc = "pass"
  BY <1>1 DEF Logs, PollerType
<1>3. log' \subseteq LogEntry
  BY <1>1 DEF Logs, IInv, TypeOK, LogEntry, LogRow, PollerType
<1>4. TypeOK'
  BY <1>2, <1>3 DEF Logs, IInv, TypeOK, PollerType, FiredIn, table, history
<1> QED
  BY <1>2, <1>4 DEF Logs, IInv, MarksNotAhead, ListUnmarked, SentIsMarked, OncePerMinute, history

(* A pass that is over, or cut short, leaves only the marks. *)
LEMMA SleepKeeps == ASSUME IInv, PassEnds \/ PassFails PROVE IInv'
<1>1. poller' = Asleep(now + 1) /\ UNCHANGED <<now, up, table, log, fired, manual, sent, outlasted>> /\ failed' \in BOOLEAN
  BY DEF PassEnds, PassFails, Sleeps, history, IInv, TypeOK
<1>2. 0 \in Minutes /\ Minute(now) \in Nat
  BY ClockConstants, MinuteOf DEF Minutes, IInv, TypeOK
<1>3. TypeOK'
  BY <1>1, <1>2, ClockConstants DEF IInv, TypeOK, Asleep, table, history
<1> QED
  BY <1>1, <1>2, <1>3 DEF IInv, MarksNotAhead, ListUnmarked, SentIsMarked, OncePerMinute, Asleep

(* The marks are in memory: with them goes what this run of the process sent. *)
LEMMA ProcessKeeps == ASSUME IInv, Stop \/ Boot PROVE IInv'
<1>1. 0 \in Minutes /\ Minute(now) \in Nat /\ now \in 0 .. MaxTime
  BY ClockConstants, MinuteOf DEF Minutes, IInv, TypeOK
<1>2. CASE Stop
  <2>1. TypeOK'
    <3>1. sent' \in [Ids -> [Minutes -> 0 .. 2]] /\ fired' \in [Ids -> 0 .. MaxTime \div 2 + 1]
      BY <1>2, ClockConstants DEF Stop, NothingSent
    <3>2. poller' = Asleep(0) /\ manual' = NoRow /\ UNCHANGED <<now, table, log>> /\ up' = FALSE /\ failed' = FALSE /\ outlasted' = {}
      BY <1>2 DEF Stop
    <3>3. poller' \in PollerType /\ poller'.list = {} /\ poller'.pc = "sleep"
      BY <1>1, <3>2, ClockConstants DEF PollerType, Asleep
    <3>4. UNCHANGED <<rows, edits, since>>
      BY <3>2 DEF table
    <3> QED
      BY <3>1, <3>2, <3>3, <3>4 DEF IInv, TypeOK, PollerType
  <2> QED
    BY <1>1, <1>2, <2>1
    DEF Stop, IInv, MarksNotAhead, ListUnmarked, SentIsMarked, OncePerMinute, Asleep, NothingSent
<1>3. CASE Boot
  <2>1. TypeOK'
    BY <1>1, <1>3, ClockConstants DEF Boot, IInv, TypeOK, Asleep, history
  <2> QED
    BY <1>1, <1>3, <2>1 DEF Boot, IInv, MarksNotAhead, ListUnmarked, SentIsMarked, OncePerMinute, Asleep, history
<1> QED
  BY <1>2, <1>3

LEMMA TickKeeps == ASSUME IInv, Tick PROVE IInv'
<1>1. now \in Nat /\ now' = now + 1 /\ now' \in 0 .. MaxTime
  BY ClockConstants DEF Tick, IInv, TypeOK
<1>2. Minute(now) <= Minute(now') /\ Minute(now) \in Nat /\ Minute(now') \in Nat
  BY <1>1, MinuteGrows
<1>3. TypeOK'
  <2>1. outlasted' \subseteq Minutes
    BY <1>1, MinuteOf DEF Tick, IInv, TypeOK
  <2> QED
    BY <1>1, <2>1 DEF Tick, IInv, TypeOK, FiredIn, table
<1>4. MarksNotAhead'
  <2>1. \A id \in Ids : fired[id] \in Nat
    BY DEF IInv, TypeOK
  <2>2. poller.minute \in Nat
    BY DEF IInv, TypeOK, Minutes
  <2> QED
    BY <1>2, <2>1, <2>2 DEF Tick, IInv, MarksNotAhead
<1> QED
  BY <1>3, <1>4 DEF Tick, IInv, ListUnmarked, SentIsMarked, OncePerMinute, history

LEMMA Inductive == IInv /\ [Next]_vars => IInv'
<1> SUFFICES ASSUME IInv, [Next]_vars PROVE IInv'
  OBVIOUS
<1>1. CASE UNCHANGED vars
  BY <1>1 DEF vars, table, history, IInv, TypeOK, MarksNotAhead, ListUnmarked, SentIsMarked, OncePerMinute, FiredIn
<1>2. CASE \E ok \in BOOLEAN : RunNowLogs(ok)
  <2>1. PICK id \in Ids : id = manual
    BY <1>2 DEF RunNowLogs, IInv, TypeOK
  <2> QED
    BY <1>2, <2>1, PagesKeep
<1>3. CASE Polling
  BY <1>3, BeginsKeeps, FireKeeps, LogsKeeps, SleepKeeps DEF Polling
<1> QED
  BY <1>1, <1>2, <1>3, PagesKeep, SleepKeeps, ProcessKeeps, TickKeeps DEF Next

(* Every reachable state has the declared type: the polling thread never keeps   *)
(* a schedule on its list that has been fired in the minute of the pass          *)
(* (scheduled_shutdown.py).                                                      *)
THEOREM TypeCorrect == Spec => []TypeOK
<1>1. IInv => TypeOK
  BY DEF IInv
<1> QED
  BY <1>1, Initially, Inductive, PTL DEF Spec

(* While the process runs, an occurrence of a schedule powers its host off at    *)
(* most once, whatever the pages, the hosts and the database do meanwhile.       *)
THEOREM FiresOncePerMinute == Spec => []OncePerMinute
<1>1. IInv => OncePerMinute
  BY DEF IInv
<1> QED
  BY <1>1, Initially, Inductive, PTL DEF Spec

-----------------------------------------------------------------------------
(* What was sent is logged, unless a command is still waited for.  A schedule  *)
(* that is marked was sent, and the thread has a current schedule only while   *)
(* it waits.                                                                    *)
MarkedIsSent == \A id \in Ids : fired[id] # 0 => sent[id][fired[id] - 1] > 0
Idle == /\ poller.pc = "sleep" => poller.list = {}
        /\ poller.pc # "exec" => poller.cur = NoRow
HasRow(id, m) == \E e \in log : e.id = id /\ e.by = "poller" /\ e.minute = m
LoggedOrBusy ==
    \A id \in Ids, m \in Minutes :
        sent[id][m] > 0 /\ ~failed /\ since[id] < 2 * m
            => HasRow(id, m) \/ (poller.cur = id /\ poller.minute = m)

LogInv == IInv /\ MarkedIsSent /\ Idle /\ LoggedOrBusy

LEMMA MinuteBounds ==
    ASSUME NEW t \in Nat PROVE Minute(t) \in Nat /\ 2 * Minute(t) <= t /\ t <= 2 * Minute(t) + 1
  BY DEF Minute

(* No command was issued in a minute that is yet to come.                      *)
LEMMA SentIsPast ==
    ASSUME IInv, NEW id \in Ids, NEW m \in Minutes, sent[id][m] > 0
    PROVE  m \in Nat /\ 2 * m <= now
<1>1. now \in Nat /\ m \in Nat /\ fired[id] \in Nat
  BY DEF IInv, TypeOK, Minutes
<1>2. fired[id] > m /\ fired[id] <= Minute(now) + 1
  BY DEF IInv, SentIsMarked, MarksNotAhead
<1>3. Minute(now) \in Nat /\ 2 * Minute(now) <= now
  BY <1>1, MinuteBounds
<1>4. m <= Minute(now)
  BY <1>1, <1>2, <1>3
<1> QED
  BY <1>1, <1>3, <1>4

LEMMA LogInitially == Init => LogInv
<1> SUFFICES ASSUME Init PROVE LogInv
  OBVIOUS
<1>1. IInv
  BY Initially
<1> QED
  BY <1>1 DEF Init, LogInv, MarkedIsSent, Idle, LoggedOrBusy, Asleep, NothingSent

(* A row that changes has since = now, and then nothing is asked of its log.   *)
LEMMA LogInductive == LogInv /\ [Next]_vars => LogInv'
<1> SUFFICES ASSUME LogInv, [Next]_vars PROVE LogInv'
  OBVIOUS
<1>1. IInv /\ IInv' /\ TypeOK /\ TypeOK' /\ now \in Nat
  BY Inductive DEF LogInv, IInv, TypeOK
<1>2. /\ sent \in [Ids -> [Minutes -> 0 .. 2]] /\ fired \in [Ids -> 0 .. MaxTime \div 2 + 1]
      /\ since \in [Ids -> 0 .. MaxTime] /\ poller \in PollerType
  BY <1>1 DEF TypeOK, PollerType
<1>3. ASSUME UNCHANGED <<fired, poller, sent, failed>>,
             \A id \in Ids : since'[id] = now \/ (since'[id] = since[id] /\ \A m \in Minutes : HasRow(id, m) => HasRow(id, m)')
      PROVE  LogInv'
  <2>1. MarkedIsSent' /\ Idle'
    BY <1>3 DEF LogInv, MarkedIsSent, Idle
  <2>2. ASSUME NEW id \in Ids, NEW m \in Minutes, sent[id][m] > 0, ~failed, since'[id] < 2 * m
        PROVE  HasRow(id, m)' \/ (poller.cur = id /\ poller.minute = m)
    <3>1. m \in Nat /\ 2 * m <= now
      BY <1>1, <2>2, SentIsPast
    <3>2. since'[id] # now
      BY <1>1, <2>2, <3>1
    <3> QED
      BY <1>3, <2>2, <3>2 DEF LogInv, LoggedOrBusy
  <2> QED
    BY <1>1, <1>3, <2>1, <2>2 DEF LogInv, LoggedOrBusy
<1>4. ASSUME NEW id \in Ids, (\E row \in Row : SaveSchedule(id, row)) \/ ToggleSchedule(id) \/ DeleteSchedule(id)
      PROVE  LogInv'
  <2>1. UNCHANGED <<fired, poller, sent, failed>> /\ since' = [since EXCEPT ![id] = now]
    BY <1>4 DEF SaveSchedule, ToggleSchedule, DeleteSchedule, Change, history
  <2>2. log' = log \/ log' = {e \in log : e.id # id}
    BY <1>4 DEF SaveSchedule, ToggleSchedule, DeleteSchedule
  <2>3. \A i \in Ids, m \in Minutes : i # id /\ HasRow(i, m) => HasRow(i, m)'
    BY <2>2 DEF HasRow
  <2> QED
    BY <1>2, <1>3, <2>1, <2>3
<1>5. ASSUME NEW id \in Ids, RunNow(id)
      PROVE  LogInv'
  BY <1>3, <1>5 DEF RunNow, history, HasRow
<1>6. ASSUME NEW ok \in BOOLEAN, RunNowLogs(ok)
      PROVE  LogInv'
  <2>1. UNCHANGED <<fired, poller, sent, failed, since>> /\ log \subseteq log'
    BY <1>6 DEF RunNowLogs, table, history
  <2> QED
    BY <1>3, <2>1 DEF HasRow
<1>7. CASE Tick
  BY <1>3, <1>7 DEF Tick, table, history, HasRow
<1>8. CASE Boot
  <2>1. UNCHANGED <<fired, sent, failed>> /\ since' = [id \in Ids |-> now] /\ poller' = Asleep(now)
    BY <1>8 DEF Boot, history
  <2>2. ASSUME NEW id \in Ids, NEW m \in Minutes, sent[id][m] > 0, since'[id] < 2 * m
        PROVE  FALSE
    BY <1>1, <2>1, <2>2, SentIsPast
  <2> QED
    BY <1>1, <2>1, <2>2 DEF LogInv, MarkedIsSent, Idle, LoggedOrBusy, Asleep
<1>9. CASE Stop
  BY <1>1, <1>9 DEF Stop, LogInv, MarkedIsSent, Idle, LoggedOrBusy, NothingSent, Asleep
<1>10. CASE PassFails
  BY <1>1, <1>10 DEF PassFails, Sleeps, LogInv, MarkedIsSent, Idle, LoggedOrBusy, Asleep
<1>11. CASE PassEnds
  <2>1. UNCHANGED <<log, fired, sent, failed, since>> /\ poller.pc = "pass" /\ poller' = Asleep(now + 1)
    BY <1>11 DEF PassEnds, Sleeps, table, history
  <2>2. poller.cur = NoRow
    BY <2>1 DEF LogInv, Idle
  <2> QED
    BY <1>1, <2>1, <2>2, ScheduleConstants DEF LogInv, MarkedIsSent, Idle, LoggedOrBusy, HasRow, Asleep
<1>12. CASE PassBegins
  <2>1. /\ UNCHANGED <<log, fired, sent, failed, since>> /\ poller.pc = "sleep"
        /\ poller'.pc = "pass" /\ poller'.cur = NoRow
    BY <1>12 DEF PassBegins, table, history
  <2>2. poller.cur = NoRow
    BY <2>1 DEF LogInv, Idle
  <2> QED
    BY <1>1, <2>1, <2>2, ScheduleConstants DEF LogInv, MarkedIsSent, Idle, LoggedOrBusy, HasRow
<1>13. ASSUME NEW ok \in BOOLEAN, Logs(ok)
       PROVE  LogInv'
  <2> DEFINE e == LogRow(poller.cur, "poller", poller.minute, ok)
  <2>1. /\ UNCHANGED <<fired, sent, failed, since>> /\ log' = log \cup {e} /\ poller.pc = "exec"
        /\ poller'.pc = "pass" /\ poller'.cur = NoRow /\ poller'.minute = poller.minute
    BY <1>2, <1>13 DEF Logs, table, history, PollerType
  <2>2. e.id = poller.cur /\ e.by = "poller" /\ e.minute = poller.minute
    BY DEF LogRow
  <2>3. \A id \in Ids, m \in Minutes : HasRow(id, m) \/ (poller.cur = id /\ poller.minute = m) => HasRow(id, m)'
    BY <2>1, <2>2 DEF HasRow
  <2> QED
    BY <1>1, <2>1, <2>3 DEF LogInv, MarkedIsSent, Idle, LoggedOrBusy
<1>14. ASSUME NEW id \in Ids, Fire(id)
       PROVE  LogInv'
  <2> DEFINE min == poller.minute
  <2>1. /\ UNCHANGED <<log, failed, since>> /\ poller.pc = "pass" /\ min \in Minutes /\ min \in Nat
        /\ fired' = [fired EXCEPT ![id] = min + 1] /\ sent' = [sent EXCEPT ![id][min] = @ + 1]
    BY <1>2, <1>14 DEF Fire, table, PollerType, Minutes
  <2>2. poller'.pc = "exec" /\ poller'.cur = id /\ poller'.minute = min
    BY <1>2, <1>14 DEF Fire, PollerType
  <2>3. poller.cur = NoRow
    BY <2>1 DEF LogInv, Idle
  <2>4. \A i \in Ids, m \in Minutes : sent'[i][m] = IF i = id /\ m = min THEN sent[i][m] + 1 ELSE sent[i][m]
    BY <1>2, <2>1
  <2>5. MarkedIsSent'
    <3> SUFFICES ASSUME NEW i \in Ids, fired'[i] # 0 PROVE sent'[i][fired'[i] - 1] > 0
      BY DEF MarkedIsSent
    <3>1. CASE i = id
      <4>1. fired'[i] - 1 = min /\ sent[i][min] \in Nat
        <5>1. fired'[i] = min + 1 /\ sent[i][min] \in 0 .. 2
          BY <1>2, <2>1, <3>1
        <5> QED
          BY <2>1, <5>1
      <4> QED
        BY <2>1, <2>4, <3>1, <4>1
    <3>2. CASE i # id
      <4>1. fired'[i] = fired[i] /\ sent'[i] = sent[i]
        BY <1>2, <2>1, <3>2
      <4> QED
        BY <4>1 DEF LogInv, MarkedIsSent
    <3> QED
      BY <3>1, <3>2
  <2>6. LoggedOrBusy'
    BY <2>1, <2>2, <2>3, <2>4, ScheduleConstants DEF LogInv, LoggedOrBusy, HasRow
  <2>7. Idle'
    BY <2>2 DEF Idle
  <2> QED
    BY <1>1, <2>5, <2>6, <2>7 DEF LogInv
<1>15. CASE UNCHANGED vars
  BY <1>3, <1>15 DEF vars, table, history, HasRow
<1> QED
  BY <1>4, <1>5, <1>6, <1>7, <1>8, <1>9, <1>10, <1>11, <1>12, <1>13, <1>14, <1>15 DEF Next, Polling

(* Every command the thread is done with has its row in the log, unless the    *)
(* schedule was changed or deleted since or the database refused something     *)
(* (_run_due() and _log_run() in scheduled_shutdown.py).                              *)
THEOREM RunsAreLogged == Spec => []LogShowsRuns
<1>1. LogInv => LogShowsRuns
  BY DEF LogInv, LoggedOrBusy, LogShowsRuns, HasRow
<1> QED
  BY <1>1, LogInitially, LogInductive, PTL DEF Spec

-----------------------------------------------------------------------------
(* A schedule due in a minute is on the list of a pass that begins in it.  A    *)
(* pass begins in every minute because the thread sleeps for half of one, or    *)
(* the pass before it has outlasted the first half of the minute.               *)
InTime == up => /\ poller.pc \in {"sleep", "exec"} => now <= poller.wake
                /\ poller.pc = "sleep" => poller.wake <= now + 1

HeldBack ==
    up /\ poller.pc # "sleep" =>
        \A m \in Minutes : poller.minute < m /\ 2 * m + 1 <= now => m \in outlasted

Covered(id, m) == sent[id][m] > 0 \/ (poller.minute = m /\ id \in poller.list)

(* A pass of the minute is yet to begin.                                       *)
ToCome(m) == \/ poller.pc = "sleep" /\ poller.wake <= 2 * m + 1
             \/ poller.pc # "sleep" /\ poller.minute < m

DueIsCovered ==
    up /\ ~failed => \A id \in Ids, m \in Minutes :
        m <= Minute(now) /\ Due(rows[id], m) /\ since[id] < 2 * m
            => Covered(id, m) \/ ToCome(m) \/ m \in outlasted

DueInv == LogInv /\ InTime /\ HeldBack /\ DueIsCovered

LEMMA DueInitially == Init => DueInv
<1> SUFFICES ASSUME Init PROVE DueInv
  OBVIOUS
<1>1. LogInv
  BY LogInitially
<1>2. now = 0 /\ poller.pc = "sleep" /\ poller.wake = 0
  BY DEF Init, Asleep
<1>3. \A m \in Minutes : ToCome(m)
  BY <1>2, ClockConstants DEF ToCome, Minutes
<1> QED
  BY <1>1, <1>2, <1>3 DEF DueInv, InTime, HeldBack, DueIsCovered

LEMMA DueInductive == DueInv /\ [Next]_vars => DueInv'
<1> SUFFICES ASSUME DueInv, [Next]_vars PROVE DueInv'
  OBVIOUS
<1>1. LogInv /\ LogInv' /\ IInv /\ TypeOK /\ now \in Nat
  BY LogInductive DEF DueInv, LogInv, IInv, TypeOK
<1>2. /\ sent \in [Ids -> [Minutes -> 0 .. 2]] /\ poller \in PollerType
      /\ since \in [Ids -> 0 .. MaxTime] /\ poller.minute \in Nat /\ poller.wake \in Nat
  BY <1>1 DEF TypeOK, PollerType, Minutes
<1>3. Minute(now) \in Nat /\ 2 * Minute(now) <= now /\ now <= 2 * Minute(now) + 1 /\ Minutes \subseteq Nat
  BY <1>1, MinuteBounds DEF Minutes
<1>4. poller.minute <= Minute(now)
  BY <1>1 DEF IInv, MarksNotAhead
(* The pages: a row that changed is not asked about. *)
<1>5. ASSUME UNCHANGED <<now, up, poller, sent, failed, outlasted>>,
             \A id \in Ids : since'[id] = now \/ (since'[id] = since[id] /\ rows'[id] = rows[id])
      PROVE  DueInv'
  <2>1. InTime' /\ HeldBack'
    BY <1>5 DEF DueInv, InTime, HeldBack
  <2>2. ASSUME NEW id \in Ids, NEW m \in Minutes, up, ~failed, m <= Minute(now), Due(rows'[id], m), since'[id] < 2 * m
        PROVE  Covered(id, m) \/ ToCome(m) \/ m \in outlasted
    <3>1. since'[id] # now
      BY <1>1, <1>3, <2>2
    <3> QED
      BY <1>5, <2>2, <3>1 DEF DueInv, DueIsCovered
  <2>3. DueIsCovered'
    BY <1>5, <2>2 DEF DueIsCovered, Covered, ToCome
  <2> QED
    BY <1>1, <2>1, <2>3 DEF DueInv
<1>6. ASSUME NEW id \in Ids, (\E row \in Row : SaveSchedule(id, row)) \/ ToggleSchedule(id) \/ DeleteSchedule(id)
      PROVE  DueInv'
  <2>1. UNCHANGED <<now, up, poller, sent, failed, outlasted>> /\ since' = [since EXCEPT ![id] = now]
    BY <1>6 DEF SaveSchedule, ToggleSchedule, DeleteSchedule, Change, history
  <2>2. \A i \in Ids : i # id => rows'[i] = rows[i]
    BY <1>1, <1>6 DEF SaveSchedule, ToggleSchedule, DeleteSchedule, Change, TypeOK
  <2> QED
    BY <1>2, <1>5, <2>1, <2>2
<1>7. ASSUME (\E id \in Ids : RunNow(id)) \/ (\E ok \in BOOLEAN : RunNowLogs(ok)) \/ UNCHANGED vars
      PROVE  DueInv'
  <2>1. UNCHANGED <<now, up, poller, sent, failed, outlasted, rows, since>>
    BY <1>7 DEF RunNow, RunNowLogs, vars, table, history
  <2> QED
    BY <1>5, <2>1
<1>8. CASE Stop
  BY <1>1, <1>8 DEF Stop, DueInv, InTime, HeldBack, DueIsCovered
<1>9. CASE PassFails
  <2>1. failed' /\ now' = now /\ up' = up /\ poller'.pc = "sleep" /\ poller'.wake = now + 1
    BY <1>9 DEF PassFails, Sleeps, Asleep
  <2> QED
    BY <1>1, <2>1 DEF DueInv, InTime, HeldBack, DueIsCovered
<1>10. CASE Boot
  <2>1. now' = now /\ poller'.pc = "sleep" /\ poller'.wake = now /\ since' = [id \in Ids |-> now]
    BY <1>10 DEF Boot, Asleep
  <2>2. \A id \in Ids, m \in Minutes : ~(m <= Minute(now) /\ since'[id] < 2 * m)
    BY <1>1, <1>3, <2>1
  <2>3. InTime' /\ HeldBack'
    BY <1>1, <2>1 DEF InTime, HeldBack
  <2>4. DueIsCovered'
    BY <2>1, <2>2 DEF DueIsCovered
  <2> QED
    BY <1>1, <2>3, <2>4 DEF DueInv
<1>11. CASE Tick
  <2>1. now' = now + 1 /\ outlasted \subseteq outlasted' /\ UNCHANGED <<up, rows, since, poller, sent, failed>>
    BY <1>11 DEF Tick, table
  <2>2. up => poller.pc \in {"sleep", "exec"} /\ now < poller.wake
    BY <1>2, <1>11 DEF Tick, PollerType
  <2>3. InTime'
    BY <1>1, <1>2, <2>1, <2>2 DEF DueInv, InTime
  <2>4. HeldBack'
    <3> SUFFICES ASSUME up, poller.pc # "sleep", NEW m \in Minutes, poller.minute < m, 2 * m + 1 <= now + 1
                 PROVE  m \in outlasted'
      BY <2>1 DEF HeldBack
    <3>1. CASE 2 * m + 1 <= now
      BY <2>1, <3>1 DEF DueInv, HeldBack
    <3>2. CASE 2 * m + 1 > now
      <4>1. now + 1 = 2 * m + 1 /\ m \in Nat
        BY <1>1, <1>3, <3>2
      <4>2. Minute(now + 1) = m
        BY <4>1 DEF Minute
      <4> QED
        BY <1>11, <2>1, <2>2, <4>1, <4>2 DEF Tick
    <3> QED
      BY <1>1, <1>3, <3>1, <3>2
  <2>5. Minute(now)' \in Nat /\ 2 * Minute(now)' <= now + 1
    BY <1>1, <2>1, MinuteBounds
  <2>6. ASSUME NEW id \in Ids, NEW m \in Minutes, up, ~failed, m <= Minute(now)', Due(rows[id], m), since[id] < 2 * m
        PROVE  Covered(id, m) \/ ToCome(m) \/ m \in outlasted
    <3>1. CASE m <= Minute(now)
      BY <2>6, <3>1 DEF DueInv, DueIsCovered
    <3>2. CASE m > Minute(now)
      <4>1. poller.pc = "sleep" => poller.wake <= 2 * m + 1
        <5>1. poller.pc = "sleep" => poller.wake <= now + 1
          BY <2>6 DEF DueInv, InTime
        <5> QED
          BY <1>1, <1>2, <1>3, <3>2, <5>1
      <4>2. poller.minute < m
        BY <1>2, <1>3, <1>4, <3>2
      <4> QED
        BY <4>1, <4>2 DEF ToCome
    <3> QED
      BY <1>3, <3>1, <3>2
  <2>7. DueIsCovered'
    BY <2>1, <2>6 DEF DueIsCovered, Covered, ToCome
  <2> QED
    BY <1>1, <2>3, <2>4, <2>7 DEF DueInv
<1>12. CASE PassBegins
  <2> DEFINE min == Minute(now)
  <2>1. /\ UNCHANGED <<now, up, rows, since, sent, failed, outlasted, fired>> /\ up /\ poller.pc = "sleep" /\ poller.wake <= now
        /\ poller'.pc = "pass" /\ poller'.minute = min
        /\ poller'.list = {id \in Ids : Due(rows[id], min) /\ ~FiredIn(id, min)}
    BY <1>12 DEF PassBegins, table, history
  <2>2. InTime' /\ HeldBack'
    <3>1. \A m \in Minutes : min < m => 2 * m + 1 > now
      BY <1>1, <1>3
    <3>2. InTime'
      BY <1>1, <1>3, <2>1, <3>1 DEF InTime
    <3>3. HeldBack'
      BY <1>1, <1>3, <2>1, <3>1 DEF HeldBack
    <3> QED
      BY <3>2, <3>3
  <2>3. ASSUME NEW id \in Ids, NEW m \in Minutes, ~failed, m <= min, Due(rows[id], m), since[id] < 2 * m
        PROVE  Covered(id, m)' \/ m \in outlasted
    <3>1. CASE m = min
      <4>1. FiredIn(id, min) => sent[id][min] > 0
        <5>1. FiredIn(id, min) => fired[id] # 0 /\ fired[id] - 1 = min
          BY <1>3 DEF FiredIn
        <5> QED
          BY <1>1, <5>1 DEF LogInv, MarkedIsSent
      <4> QED
        BY <2>1, <2>3, <3>1, <4>1 DEF Covered
    <3>2. CASE m < min
      <4>1. ~ToCome(m)
        <5>1. now <= poller.wake
          BY <2>1 DEF DueInv, InTime
        <5> QED
          BY <1>1, <1>2, <1>3, <2>1, <3>2, <5>1 DEF ToCome
      <4>2. sent[id][m] > 0 \/ m \in outlasted
        <5>1. Covered(id, m) \/ m \in outlasted
          BY <2>1, <2>3, <4>1 DEF DueInv, DueIsCovered
        <5> QED
          BY <1>1, <2>1, <5>1 DEF LogInv, Idle, Covered
      <4> QED
        BY <2>1, <4>2 DEF Covered
    <3> QED
      BY <1>3, <2>3, <3>1, <3>2
  <2>4. DueIsCovered'
    BY <2>1, <2>3 DEF DueIsCovered
  <2> QED
    BY <1>1, <2>2, <2>4 DEF DueInv
<1>13. ASSUME NEW id \in Ids, Fire(id)
       PROVE  DueInv'
  <2>1. PICK wait \in Nat :
           poller' = [poller EXCEPT !.pc = "exec", !.wake = now + wait, !.cur = id, !.list = @ \ {id}]
    BY <1>13, WaitsType DEF Fire
  <2>2. /\ UNCHANGED <<now, up, rows, since, failed, outlasted>> /\ poller.pc = "pass" /\ id \in poller.list
        /\ poller'.pc = "exec" /\ poller'.wake = now + wait /\ poller'.minute = poller.minute
        /\ poller'.list = poller.list \ {id}
    BY <1>2, <1>13, <2>1 DEF Fire, table, PollerType
  <2>3. \A i \in Ids, m \in Minutes : sent'[i][m] = IF i = id /\ m = poller.minute THEN sent[i][m] + 1 ELSE sent[i][m]
    BY <1>2, <1>13 DEF Fire
  <2>4. InTime' /\ HeldBack'
    BY <1>1, <2>2 DEF DueInv, InTime, HeldBack
  <2>5. \A i \in Ids, m \in Minutes : /\ Covered(i, m) => Covered(i, m)'
                                      /\ ToCome(m) => ToCome(m)'
    <3>1. \A i \in Ids, m \in Minutes : sent[i][m] \in Nat
      BY <1>2
    <3> QED
      BY <2>2, <2>3, <3>1 DEF Covered, ToCome
  <2>6. DueIsCovered'
    BY <2>2, <2>5 DEF DueInv, DueIsCovered
  <2> QED
    BY <1>1, <2>4, <2>6 DEF DueInv
<1>14. ASSUME NEW ok \in BOOLEAN, Logs(ok)
       PROVE  DueInv'
  <2>1. /\ UNCHANGED <<now, up, rows, since, sent, failed, outlasted>> /\ poller.pc = "exec" /\ poller.wake <= now
        /\ poller'.pc = "pass" /\ poller'.minute = poller.minute /\ poller'.list = poller.list
    BY <1>2, <1>14 DEF Logs, table, history, PollerType
  <2>2. InTime' /\ HeldBack'
    BY <1>1, <1>2, <2>1 DEF DueInv, InTime, HeldBack
  <2>3. DueIsCovered'
    BY <2>1 DEF DueInv, DueIsCovered, Covered, ToCome
  <2> QED
    BY <1>1, <2>2, <2>3 DEF DueInv
<1>15. CASE PassEnds
  <2>1. /\ UNCHANGED <<now, up, rows, since, sent, failed, outlasted>> /\ poller.pc = "pass" /\ poller.list = {}
        /\ poller'.pc = "sleep" /\ poller'.wake = now + 1
    BY <1>15 DEF PassEnds, Sleeps, Asleep, table, history
  <2>2. InTime' /\ HeldBack'
    BY <1>1, <2>1 DEF InTime, HeldBack
  <2>3. ASSUME NEW id \in Ids, NEW m \in Minutes, up, ~failed, m <= Minute(now), Due(rows[id], m), since[id] < 2 * m
        PROVE  sent[id][m] > 0 \/ now + 1 <= 2 * m + 1 \/ m \in outlasted
    <3>1. sent[id][m] > 0 \/ poller.minute < m \/ m \in outlasted
      BY <2>1, <2>3 DEF DueInv, DueIsCovered, Covered, ToCome
    <3>2. poller.minute < m /\ 2 * m + 1 <= now => m \in outlasted
      BY <2>1, <2>3 DEF DueInv, HeldBack
    <3> QED
      BY <1>1, <1>2, <1>3, <3>1, <3>2
  <2>4. DueIsCovered'
    BY <2>1, <2>3 DEF DueIsCovered, Covered, ToCome
  <2> QED
    BY <1>1, <2>2, <2>4 DEF DueInv
<1> QED
  BY <1>6, <1>7, <1>8, <1>9, <1>10, <1>11, <1>12, <1>13, <1>14, <1>15 DEF Next, Polling

(* A schedule that stood in the table, due in the last minute, was fired or is  *)
(* about to be by the pass that began in that minute, however many hosts are    *)
(* slow and however slow they are, unless they held an earlier pass until the   *)
(* minute was half over (_run_due() and _scheduler_loop()).                     *)
THEOREM DueSchedulesFire == Spec => []DueIsFired
<1>1. DueInv => DueIsFired
  <2> SUFFICES ASSUME DueInv, now >= 2, up, ~failed, NEW id \in Ids,
                      Due(rows[id], Minute(now) - 1), since[id] < 2 * (Minute(now) - 1)
               PROVE  Covered(id, Minute(now) - 1) \/ Minute(now) - 1 \in outlasted
    BY DEF DueIsFired, Covered
  <2> DEFINE m == Minute(now) - 1
  <2>1. TypeOK /\ IInv /\ now \in Nat /\ Minute(now) \in Nat /\ 2 * Minute(now) <= now /\ now <= 2 * Minute(now) + 1
    <3>1. TypeOK /\ IInv /\ now \in Nat
      BY DEF DueInv, LogInv, IInv, TypeOK
    <3> QED
      BY <3>1, MinuteBounds
  <2>2. m \in Minutes /\ m \in Nat /\ m < Minute(now)
    <3>1. Minute(now) \in Minutes
      BY <2>1, MinuteOf DEF TypeOK
    <3>2. MaxTime \div 2 \in Nat /\ Minute(now) <= MaxTime \div 2
      BY <3>1, ClockConstants DEF Minutes
    <3>3. Minute(now) >= 1
      BY <2>1
    <3> QED
      BY <2>1, <3>2, <3>3 DEF Minutes
  <2>3. poller \in PollerType /\ poller.minute \in Nat /\ poller.wake \in Nat
    BY <2>1 DEF TypeOK, PollerType, Minutes
  <2>4. poller.pc = "sleep" => now <= poller.wake
    BY DEF DueInv, InTime
  <2>5. poller.pc # "sleep" /\ poller.minute < m /\ 2 * m + 1 <= now => m \in outlasted
    BY <2>2 DEF DueInv, HeldBack
  <2>6. ToCome(m) => m \in outlasted
    BY <2>1, <2>2, <2>3, <2>4, <2>5 DEF ToCome
  <2>7. m <= Minute(now) /\ Due(rows[id], m) /\ since[id] < 2 * m
    BY <2>1, <2>2
  <2> HIDE DEF m
  <2>8. Covered(id, m) \/ m \in outlasted
    BY <2>2, <2>6, <2>7 DEF DueInv, DueIsCovered
  <2> QED
    BY <2>8 DEF m
<1> QED
  BY <1>1, DueInitially, DueInductive, PTL DEF Spec
=============================================================================
